-------------------------- MODULE PaidResearch_proofs --------------------------
(***************************************************************************)
(* Proofs about PaidResearch, for any number of handlers, approvals,       *)
(* addresses and credits.                                                  *)
(*                                                                         *)
(* They compose what is proved of the two services.  Every step of the     *)
(* route is a step of the research service or leaves its documents alone,  *)
(* so ResearchInv holds of the composition (RouteInv); every step of the   *)
(* route is a transaction of the ledger or leaves its documents alone, so  *)
(* the composition implements CreditLedger and its invariant holds too.    *)
(* PaidInv then relates the two: which reservation covers which approval.  *)
(* OwnedInv says who will settle an open reservation.                      *)
(***************************************************************************)
EXTENDS PaidResearch, ProviderResearch_proofs

-----------------------------------------------------------------------------
(* What a step of the research service leaves to the route.                *)

\* Approvals keep their property, and evidence is kept.
Kept ==
  /\ \A a \in Approvals : approval[a].status # "NONE" =>
       approval'[a].status # "NONE" /\ approval'[a].property = approval[a].property
  /\ \A p \in Properties : retained[p] \subseteq retained'[p]

LEMMA KeptQuiet ==
  ASSUME UNCHANGED <<approval, retained>>
  PROVE  Kept
BY DEF Kept

LEMMA KeptApproval ==
  ASSUME ResearchInv, retained' = retained, NEW a \in Approvals,
         NEW q, approval' = [approval EXCEPT ![a] = q],
         \/ approval[a].status = "NONE"
         \/ q.status # "NONE" /\ q.property = approval[a].property
  PROVE  Kept
<1>1. approval \in [Approvals -> ApprovalType]
  BY TypeParts DEF ResearchInv, DocumentsTypeOK
<1> QED BY <1>1 DEF Kept

LEMMA KeptAdvance ==
  ASSUME ResearchInv, NEW h \in Handlers, Advance(h)
  PROVE  Kept
<1>0. /\ approval \in [Approvals -> ApprovalType]
      /\ retained \in [Properties -> SUBSET (SUBSET Operations)]
  BY TypeParts DEF ResearchInv, DocumentsTypeOK
<1>1. ASSUME NEW s \in {"IN_FLIGHT", "COMPLETE", "FAILED"},
             approval' = [approval EXCEPT ![job[h].approval].status = s], retained' = retained,
             job[h].pc \notin {"idle", "done"}
      PROVE  Kept
  <2>1. PICK a \in Approvals : a = job[h].approval
    BY <1>1, AtWork
  <2>2. PICK q : q = [approval[a] EXCEPT !.status = s]
    OBVIOUS
  <2>3. q.status = s /\ q.property = approval[a].property
    BY <1>0, <2>2 DEF ApprovalType
  <2>4. approval' = [approval EXCEPT ![a] = q]
    BY <1>0, <1>1, <2>1, <2>2
  <2> QED BY <1>1, <2>3, <2>4, KeptApproval
<1>2. CASE Start(h)
  BY <1>1, <1>2, KeptQuiet DEF Start, At
<1>3. CASE Finish(h)
  BY <1>1, <1>3 DEF Finish, At
<1>4. CASE Fail(h)
  BY <1>1, <1>4 DEF Fail, At
<1>5. CASE Persist(h)
  <2>1. approval' = approval
    BY <1>5 DEF Persist
  <2>2. \A p \in Properties : retained[p] \subseteq retained'[p]
    BY <1>0, <1>5 DEF Persist
  <2> QED BY <2>1, <2>2 DEF Kept
<1>6. CASE ~(Start(h) \/ Finish(h) \/ Fail(h) \/ Persist(h))
  <2>1. UNCHANGED <<approval, retained>>
    BY <1>6 DEF Advance, CheckActivity, Acquire, PerformLocally, Reserve, RateLimited,
                AnsweredByCache, Transmit, Receive, ClientStops, Complete, Unlock, researchDocs
  <2> QED BY <2>1, KeptQuiet
<1> QED BY <1>2, <1>3, <1>4, <1>5, <1>6

LEMMA KeptOutside ==
  ASSUME ResearchInv, Quoting \/ TimePasses
  PROVE  Kept
<1>1. ASSUME NEW a \in Approvals, NEW p \in Properties, NEW plan \in Plans,
             NEW refresh \in Refreshes, NEW known \in retained[p] \cup {{}},
             Quote(a, p, plan, refresh, known)
      PROVE  Kept
  <2>1. /\ approval[a].status = "NONE" /\ retained' = retained
        /\ \E q : approval' = [approval EXCEPT ![a] = q]
    BY <1>1 DEF Quote
  <2> QED BY <2>1, KeptApproval
<1>2. ASSUME NEW a \in Approvals, ExpireApproval(a) PROVE Kept
  <2>1. approval \in [Approvals -> ApprovalType]
    BY TypeParts DEF ResearchInv, DocumentsTypeOK
  <2>2. PICK q : q = [approval[a] EXCEPT !.expired = TRUE]
    OBVIOUS
  <2>3. approval' = [approval EXCEPT ![a] = q] /\ retained' = retained
        /\ approval[a].status = "PENDING"
    BY <1>2, <2>1, <2>2 DEF ExpireApproval
  <2>4. q.status = approval[a].status /\ q.property = approval[a].property
    BY <2>1, <2>2 DEF ApprovalType
  <2> QED BY <2>3, <2>4, KeptApproval
<1>3. CASE NextMinute \/ \E k \in LeaseKeys : ExpireLease(k)
  BY <1>3, KeptQuiet DEF NextMinute, ExpireLease
<1> QED BY <1>1, <1>2, <1>3 DEF Quoting, TimePasses

\* Time and quotes leave each handler its place and its approval.
LEMMA PlacesOutside ==
  ASSUME ResearchInv, Quoting \/ TimePasses
  PROVE  \A g \in Handlers : job'[g].pc = job[g].pc /\ job'[g].approval = job[g].approval
                             /\ job'[g].result = job[g].result
<1>1. job \in [Handlers -> JobType]
  BY TypeParts DEF ResearchInv
<1>2. ASSUME NEW k \in LeaseKeys, ExpireLease(k), NEW g \in Handlers
      PROVE  job'[g].pc = job[g].pc /\ job'[g].approval = job[g].approval
             /\ job'[g].result = job[g].result
  BY <1>1, <1>2 DEF ExpireLease, JobType
<1>3. CASE ~ \E k \in LeaseKeys : ExpireLease(k)
  BY <1>3 DEF Quoting, TimePasses, Quote, ExpireApproval, NextMinute
<1> QED BY <1>2, <1>3

\* Inside research() a handler keeps its approval, and leaves the others alone.
LEMMA PlacesInside ==
  ASSUME ResearchInv, NEW h \in Handlers, Advance(h) \/ Fault(h)
  PROVE  /\ job[h].pc # "idle" /\ job'[h].approval = job[h].approval
         /\ \A g \in Handlers \ {h} : job'[g] = job[g]
<1>1. job \in [Handlers -> JobType] /\ job[h] \in JobType
  BY TypeParts DEF ResearchInv
<1>2. Merged(h).approval = job[h].approval /\ Unavailable(h).approval = job[h].approval
  BY <1>1 DEF Merged, Unavailable, JobType
<1>3. ASSUME NEW m PROVE [Merge(h, m) EXCEPT !.got = ""].approval = job[h].approval
                         /\ Merge(h, m).approval = job[h].approval
  BY <1>1 DEF Merge, Merged, Unavailable, JobType
<1> DEFINE Mended == /\ job'[h].approval = job[h].approval
                     /\ \A g \in Handlers \ {h} : job'[g] = job[g]
<1>4. ASSUME NEW r, job' = [job EXCEPT ![h] = r], r.approval = job[h].approval
      PROVE  Mended
  BY <1>1, <1>4
<1>5. /\ \A p : [job[h] EXCEPT !.pc = p].approval = job[h].approval
      /\ \A p, v : [job[h] EXCEPT !.pc = p, !.result = v].approval = job[h].approval
      /\ \A p, v : [job[h] EXCEPT !.pc = p, !.leased = v].approval = job[h].approval
      /\ \A p, v : [job[h] EXCEPT !.pc = p, !.got = v].approval = job[h].approval
      /\ \A p, v, w : [job[h] EXCEPT !.pc = p, !.todo = v, !.have = w].approval = job[h].approval
      /\ \A v : [job[h] EXCEPT !.todo = v].approval = job[h].approval
      /\ \A v, w : [job[h] EXCEPT !.todo = v, !.ok = w].approval = job[h].approval
      /\ \A u, v, w : [job[h] EXCEPT !.got = u, !.touched = v, !.have = w].approval = job[h].approval
  BY <1>1 DEF JobType
<1>6. ASSUME NEW p, job' = [job EXCEPT ![h].pc = p] PROVE Mended
  <2>1. job' = [job EXCEPT ![h] = [job[h] EXCEPT !.pc = p]]
    BY <1>1, <1>6
  <2> QED BY <1>4, <1>5, <2>1
<1>7. ASSUME NEW p, NEW v, job' = [job EXCEPT ![h].pc = p, ![h].result = v] PROVE Mended
  <2>1. job' = [job EXCEPT ![h] = [job[h] EXCEPT !.pc = p, !.result = v]]
    BY <1>1, <1>7
  <2> QED BY <1>4, <1>5, <2>1
<1>8. ASSUME NEW p, NEW v, job' = [job EXCEPT ![h].pc = p, ![h].leased = v] PROVE Mended
  <2>1. job' = [job EXCEPT ![h] = [job[h] EXCEPT !.pc = p, !.leased = v]]
    BY <1>1, <1>8
  <2> QED BY <1>4, <1>5, <2>1
<1>9. ASSUME NEW p, NEW v, job' = [job EXCEPT ![h].pc = p, ![h].got = v] PROVE Mended
  <2>1. job' = [job EXCEPT ![h] = [job[h] EXCEPT !.pc = p, !.got = v]]
    BY <1>1, <1>9
  <2> QED BY <1>4, <1>5, <2>1
<1>10. ASSUME NEW p, NEW v, NEW w,
              job' = [job EXCEPT ![h].pc = p, ![h].todo = v, ![h].have = w]
       PROVE  Mended
  <2>1. job' = [job EXCEPT ![h] = [job[h] EXCEPT !.pc = p, !.todo = v, !.have = w]]
    BY <1>1, <1>10
  <2> QED BY <1>4, <1>5, <2>1
<1>11. ASSUME NEW v, job' = [job EXCEPT ![h].todo = v] PROVE Mended
  <2>1. job' = [job EXCEPT ![h] = [job[h] EXCEPT !.todo = v]]
    BY <1>1, <1>11
  <2> QED BY <1>4, <1>5, <2>1
<1>12. ASSUME NEW v, NEW w, job' = [job EXCEPT ![h].todo = v, ![h].ok = w] PROVE Mended
  <2>1. job' = [job EXCEPT ![h] = [job[h] EXCEPT !.todo = v, !.ok = w]]
    BY <1>1, <1>12
  <2> QED BY <1>4, <1>5, <2>1
<1>13. ASSUME NEW u, NEW v, NEW w,
              job' = [job EXCEPT ![h].got = u, ![h].touched = v, ![h].have = w]
       PROVE  Mended
  <2>1. job' = [job EXCEPT ![h] = [job[h] EXCEPT !.got = u, !.touched = v, !.have = w]]
    BY <1>1, <1>13
  <2> QED BY <1>4, <1>5, <2>1
<1> HIDE DEF Mended
<1>14. job[h].pc # "idle"
  BY DEF Advance, Fault, FailsEarly, FailsInLoop, FailsLate, CheckActivity, Acquire, Start,
         PerformLocally, Reserve, RateLimited, AnsweredByCache, Transmit, Receive, ClientStops,
         Complete, Persist, Finish, Fail, Unlock, MustRequest, Performing, At
<1>15. ASSUME Advance(h) PROVE Mended
  <2>a. CASE CheckActivity(h)
    BY <1>6, <1>7, <2>a DEF CheckActivity, Goto, Refuse
  <2>1. CASE Acquire(h)
    <3>1. Refuse(h) \/ job' = [job EXCEPT ![h].pc = "start", ![h].leased = TRUE]
      BY <2>1 DEF Acquire
    <3>2. CASE Refuse(h)
      BY <1>7, <3>2 DEF Refuse
    <3>3. CASE job' = [job EXCEPT ![h].pc = "start", ![h].leased = TRUE]
      BY <1>8, <3>3
    <3> QED BY <3>1, <3>2, <3>3
  <2>2. CASE Start(h)
    <3>1. CASE MayStart(h)
      <4>1. job' = [job EXCEPT ![h].pc = "perform", ![h].todo = MyApproval(h).plan,
                               ![h].have = MyApproval(h).known]
        BY <2>2, <3>1 DEF Start
      <4> QED BY <1>10, <4>1
    <3>2. CASE ~MayStart(h)
      BY <1>7, <2>2, <3>2 DEF Start
    <3> QED BY <3>1, <3>2
  <2>3. CASE PerformLocally(h)
    BY <1>3, <1>4, <1>11, <1>12, <2>3 DEF PerformLocally
  <2>4. CASE RateLimited(h) \/ Reserve(h)
    BY <1>2, <1>4, <1>6, <2>4 DEF RateLimited, Reserve, Goto
  <2>5. CASE AnsweredByCache(h) \/ Transmit(h) \/ ClientStops(h)
    BY <1>6, <1>9, <2>5 DEF AnsweredByCache, Transmit, ClientStops, Goto
  <2>6. CASE Receive(h)
    BY <1>9, <2>6 DEF Receive
  <2>7. CASE Complete(h)
    BY <1>3, <1>4, <2>7 DEF Complete
  <2>8. CASE Persist(h) \/ Finish(h)
    BY <1>6, <1>7, <2>8 DEF Persist, Finish, Goto
  <2>9. CASE Fail(h) \/ Unlock(h)
    BY <1>7, <1>8, <2>9 DEF Fail, Unlock
  <2> QED BY <1>15, <2>a, <2>1, <2>2, <2>3, <2>4, <2>5, <2>6, <2>7, <2>8, <2>9 DEF Advance
<1>16. ASSUME Fault(h) PROVE Mended
  <2>a. CASE FailsEarly(h)
    BY <1>7, <2>a DEF FailsEarly, Refuse
  <2>1. CASE FailsLate(h)
    <3>1. Goto(h, "fail") \/ job' = [job EXCEPT ![h].pc = "unlock", ![h].result = "error"] \/ Refuse(h)
      BY <2>1 DEF FailsLate
    <3>2. CASE Goto(h, "fail")
      BY <1>6, <3>2 DEF Goto
    <3>3. CASE Refuse(h)
      BY <1>7, <3>3 DEF Refuse
    <3>4. CASE job' = [job EXCEPT ![h].pc = "unlock", ![h].result = "error"]
      BY <1>7, <3>4
    <3> QED BY <3>1, <3>2, <3>3, <3>4
  <2>2. CASE FailsInLoop(h)
    <3>1. CASE Goto(h, "fail")
      BY <1>6, <3>1 DEF Goto
    <3>2. CASE job' = [job EXCEPT ![h] = Unavailable(h)]
      BY <1>2, <1>4, <3>2
    <3>3. CASE job' = [job EXCEPT ![h].got = "unsaved", ![h].touched = TRUE,
                                  ![h].have = Merged(h).have]
      BY <1>13, <3>3
    <3> QED BY <2>2, <3>1, <3>2, <3>3 DEF FailsInLoop
  <2> QED BY <1>16, <2>a, <2>1, <2>2 DEF Fault
<1> QED BY <1>14, <1>15, <1>16 DEF Mended

-----------------------------------------------------------------------------
(* The route and the research service.                                     *)

RouteType ==
  [pc : {"idle", "reserve", "research", "await", "release"},
   approval : Approvals \cup {""}, key : Keys \cup {""}, reserved : BOOLEAN]

\* A request under way is about an approval that exists; a handler is inside
\* research() only while its request awaits it, and for the same approval.
RouteServes(h) ==
  /\ route[h].pc # "idle" => /\ Mine(h) \in Approvals /\ route[h].key \in Keys
                             /\ approval[Mine(h)].status # "NONE"
  /\ job[h].pc # "idle" => route[h].pc = "await" /\ job[h].approval = Mine(h)

RouteInv ==
  /\ ResearchInv
  /\ route \in [Handlers -> RouteType]
  /\ \A h \in Handlers : RouteServes(h)

\* Requests stay, and handlers keep their approval or are done.
LEMMA RouteStays ==
  ASSUME RouteInv, ResearchInv', Kept, route' = route,
         \A g \in Handlers : \/ job'[g].pc = "idle"
                             \/ job[g].pc # "idle" /\ job'[g].approval = job[g].approval
  PROVE  RouteInv'
<1>1. ASSUME NEW g \in Handlers PROVE RouteServes(g)'
  <2>1. RouteServes(g)
    BY DEF RouteInv
  <2> QED BY <2>1 DEF RouteServes, Mine, Kept
<1> QED BY <1>1 DEF RouteInv

\* One request moves on, and its handler is not inside research() afterwards unless
\* the request awaits it.
LEMMA RouteMoves ==
  ASSUME RouteInv, ResearchInv', UNCHANGED approval, NEW h \in Handlers,
         NEW r \in RouteType, route' = [route EXCEPT ![h] = r],
         r.pc # "idle" => /\ r.approval \in Approvals /\ r.key \in Keys
                          /\ approval[r.approval].status # "NONE",
         job'[h].pc # "idle" => r.pc = "await" /\ job'[h].approval = r.approval,
         \A g \in Handlers \ {h} : job'[g] = job[g]
  PROVE  RouteInv'
<1>1. route' \in [Handlers -> RouteType] /\ route'[h] = r
      /\ \A g \in Handlers \ {h} : route'[g] = route[g]
  BY DEF RouteInv
<1>2. ASSUME NEW g \in Handlers PROVE RouteServes(g)'
  <2>1. RouteServes(g)
    BY DEF RouteInv
  <2>2. CASE g = h
    BY <1>1, <2>2 DEF RouteServes, Mine
  <2>3. CASE g # h
    BY <1>1, <2>1, <2>3 DEF RouteServes, Mine
  <2> QED BY <2>2, <2>3
<1> QED BY <1>1, <1>2 DEF RouteInv

LEMMA WaitingType == Waiting \in RouteType /\ Waiting.pc = "idle"
BY DEF Waiting, RouteType

\* The answer to a request whose handler is outside research().
LEMMA RouteAnswers ==
  ASSUME RouteInv, ResearchInv', UNCHANGED approval, NEW h \in Handlers, Answer(h),
         job'[h].pc = "idle", \A g \in Handlers \ {h} : job'[g] = job[g]
  PROVE  RouteInv'
BY WaitingType, RouteMoves DEF Answer

\* A request goes on, with its reservation noted or not.
LEMMA RouteAdvances ==
  ASSUME RouteInv, ResearchInv', UNCHANGED approval, NEW h \in Handlers, route[h].pc # "idle",
         NEW pc \in {"reserve", "research", "await", "release"}, NEW b \in BOOLEAN,
         route' = [route EXCEPT ![h] = [route[h] EXCEPT !.pc = pc, !.reserved = b]],
         job'[h].pc # "idle" => pc = "await" /\ job'[h].approval = Mine(h),
         \A g \in Handlers \ {h} : job'[g] = job[g]
  PROVE  RouteInv'
<1>1. route[h] \in RouteType /\ RouteServes(h)
  BY DEF RouteInv
<1>2. PICK r : r = [route[h] EXCEPT !.pc = pc, !.reserved = b]
  OBVIOUS
<1>3. r \in RouteType /\ r.pc = pc /\ r.approval = Mine(h) /\ r.key = route[h].key
  BY <1>1, <1>2 DEF RouteType, Mine
<1> QED BY <1>1, <1>2, <1>3, RouteMoves DEF RouteServes

\* Advances is the case in which the reservation stays as noted.
LEMMA AdvancesNoted ==
  ASSUME RouteInv, NEW h \in Handlers, NEW pc, Advances(h, pc)
  PROVE  /\ route[h].reserved \in BOOLEAN
         /\ route' = [route EXCEPT ![h] = [route[h] EXCEPT !.pc = pc, !.reserved = route[h].reserved]]
<1>1. route \in [Handlers -> RouteType] /\ route[h] \in RouteType
  BY DEF RouteInv
<1>2. [route[h] EXCEPT !.pc = pc, !.reserved = route[h].reserved] = [route[h] EXCEPT !.pc = pc]
  BY <1>1 DEF RouteType
<1> QED BY <1>1, <1>2 DEF Advances, RouteType

\* The documents of the research service and every handler stay.
LEMMA ResearchRests ==
  ASSUME RouteInv, UNCHANGED researchVars
  PROVE  /\ ResearchInv' /\ Kept /\ UNCHANGED approval
         /\ \A g \in Handlers : job'[g] = job[g]
BY ResearchStutter, KeptQuiet DEF RouteInv, researchVars

\* research() has returned to the route, or its handler is lost.
LEMMA ResearchForgets ==
  ASSUME RouteInv, NEW h \in Handlers, job' = [job EXCEPT ![h] = Idle],
         UNCHANGED <<researchDocs, calls, undisclosed>>, lost' \in Nat, faults' \in Nat
  PROVE  /\ ResearchInv' /\ Kept /\ UNCHANGED approval /\ job'[h].pc = "idle"
         /\ \A g \in Handlers \ {h} : job'[g] = job[g]
<1>1. DocumentsTypeOK /\ job \in [Handlers -> JobType] /\ ResearchInv
  BY TypeParts DEF RouteInv, ResearchInv
<1>2. DocumentsTypeOK'
  BY <1>1, LocalTypes DEF DocumentsTypeOK
<1>3. ResearchInv'
  BY <1>1, <1>2, ForgetStep
<1> QED BY <1>1, <1>3, IdleType, KeptQuiet DEF researchDocs

LEMMA SubmitStep ==
  ASSUME RouteInv, NEW h \in Handlers, NEW a \in Approvals, NEW key \in Keys, Submit(h, a, key)
  PROVE  RouteInv'
<1>1. UNCHANGED researchVars /\ route[h].pc = "idle" /\ RouteServes(h)
      /\ approval[a].status = "PENDING"
  BY DEF Submit, InRoute, Usable, RouteInv
<1>2. PICK r : r = [pc |-> "reserve", approval |-> a, key |-> key, reserved |-> FALSE]
  OBVIOUS
<1>3. r \in RouteType /\ r.approval = a /\ r.key = key
  BY <1>2 DEF RouteType
<1>4. route' = [route EXCEPT ![h] = r]
  BY <1>2 DEF Submit
<1> QED BY <1>1, <1>3, <1>4, ResearchRests, RouteMoves DEF RouteServes

LEMMA ReserveCreditStep ==
  ASSUME RouteInv, NEW h \in Handlers, ReserveCredit(h)
  PROVE  RouteInv'
<1>1. UNCHANGED researchVars /\ route[h].pc = "reserve" /\ job[h].pc = "idle"
      /\ route \in [Handlers -> RouteType]
  BY DEF ReserveCredit, InRoute, RouteInv, RouteServes
<1>2. \E b \in BOOLEAN :
        route' = [route EXCEPT ![h] = [route[h] EXCEPT !.pc = "research", !.reserved = b]]
  <2>1. CASE Advances(h, "research")
    BY <2>1, AdvancesNoted
  <2>2. CASE route' = [route EXCEPT ![h].pc = "research", ![h].reserved = TRUE]
    BY <1>1, <2>2
  <2> QED BY <2>1, <2>2 DEF ReserveCredit
<1> QED BY <1>1, <1>2, ResearchRests, RouteAdvances

LEMMA PaymentRequiredStep ==
  ASSUME RouteInv, NEW h \in Handlers, PaymentRequired(h)
  PROVE  RouteInv'
<1>1. UNCHANGED researchVars /\ job[h].pc = "idle" /\ Answer(h)
  BY DEF PaymentRequired, InRoute, RouteInv, RouteServes
<1> QED BY <1>1, ResearchRests, RouteAnswers

LEMMA BeginResearchStep ==
  ASSUME RouteInv, NEW h \in Handlers, BeginResearch(h)
  PROVE  RouteInv'
<1>1. /\ Mine(h) \in Approvals /\ route[h].key \in Keys /\ route[h].pc = "research"
      /\ Call(h, Mine(h), route[h].key) /\ Advances(h, "await")
      /\ job \in [Handlers -> JobType]
  BY TypeParts DEF BeginResearch, InRoute, RouteInv, RouteServes, ResearchInv
<1>2. ResearchInv'
  BY <1>1, CallStep DEF RouteInv
<1>3. \E r : job' = [job EXCEPT ![h] = r] /\ r.approval = Mine(h)
  <2> DEFINE e == [Idle EXCEPT !.approval = Mine(h), !.key = route[h].key]
             r == IF ~Usable(Mine(h)) THEN [e EXCEPT !.pc = "done", !.result = "error"]
                  ELSE [e EXCEPT !.pc = IF approval[Mine(h)].billable THEN "activity" ELSE "acquire"]
  <2>1. job' = [job EXCEPT ![h] = r]
    BY <1>1 DEF Call
  <2>2. r.approval = Mine(h)
    BY DEF Idle
  <2> HIDE DEF r
  <2> QED BY <2>1, <2>2
<1>4. job'[h].approval = Mine(h) /\ \A g \in Handlers \ {h} : job'[g] = job[g]
  BY <1>1, <1>3
<1>5. UNCHANGED approval
  BY <1>1 DEF Call, researchDocs
<1> QED BY <1>1, <1>2, <1>4, <1>5, AdvancesNoted, RouteAdvances

\* The outcome of research() is settled: the request is answered or goes on to the
\* catch clause.
LEMMA SettleStep ==
  ASSUME RouteInv, NEW h \in Handlers, Returned(h, {"usable", "unusable", "error"}),
         UNCHANGED <<researchDocs, calls, undisclosed>>, lost' \in Nat, faults' \in Nat,
         Answer(h) \/ Advances(h, "release")
  PROVE  RouteInv'
<1>1. job' = [job EXCEPT ![h] = Idle] /\ route[h].pc = "await"
  BY DEF Returned, InRoute
<1>2. CASE Answer(h)
  BY <1>1, <1>2, ResearchForgets, RouteAnswers
<1>3. CASE Advances(h, "release")
  BY <1>1, <1>3, ResearchForgets, AdvancesNoted, RouteAdvances
<1> QED BY <1>2, <1>3

\* Neither counter leaves the numbers when it stays as it is.
LEMMA Counters == RouteInv => lost \in Nat /\ faults \in Nat
BY DEF RouteInv, ResearchInv, TypeOK

LEMMA SettleUsableStep ==
  ASSUME RouteInv, NEW h \in Handlers, SettleUsable(h)
  PROVE  RouteInv'
<1>1. /\ Returned(h, {"usable", "unusable", "error"})
      /\ UNCHANGED <<researchDocs, calls, undisclosed, lost, faults>>
      /\ Answer(h) \/ Advances(h, "release")
  BY DEF SettleUsable, Returned, UsableResults, researchAux
<1> QED BY <1>1, Counters, SettleStep

LEMMA SettleUnusableStep ==
  ASSUME RouteInv, NEW h \in Handlers, SettleUnusable(h)
  PROVE  RouteInv'
<1>1. /\ Returned(h, {"usable", "unusable", "error"})
      /\ UNCHANGED <<researchDocs, calls, undisclosed, lost, faults>>
      /\ Answer(h)
  BY DEF SettleUnusable, Returned, researchAux, GiveBack
<1> QED BY <1>1, Counters, SettleStep

LEMMA ReleaseAfterErrorStep ==
  ASSUME RouteInv, NEW h \in Handlers, ReleaseAfterError(h)
  PROVE  RouteInv'
<1>1. UNCHANGED researchVars /\ Answer(h) /\ job[h].pc = "idle"
  BY DEF ReleaseAfterError, GiveBack, InRoute, RouteInv, RouteServes
<1> QED BY <1>1, ResearchRests, RouteAnswers

LEMMA CreditFaultStep ==
  ASSUME RouteInv, NEW h \in Handlers, CreditFault(h)
  PROVE  RouteInv'
<1>1. /\ UNCHANGED <<researchDocs, calls, undisclosed, lost>>
      /\ lost' \in Nat /\ faults' \in Nat
  BY Counters DEF CreditFault
<1>2. CASE Returned(h, {"usable", "unusable"}) /\ Advances(h, "release")
  BY <1>1, <1>2, SettleStep DEF Returned
<1>3. CASE Returned(h, {"error"}) /\ Answer(h)
  BY <1>1, <1>3, SettleStep DEF Returned
<1>4. CASE InRoute(h, "release") /\ Answer(h) /\ UNCHANGED job
  <2>1. DocumentsTypeOK'
    BY <1>1, LocalTypes, TypeParts DEF RouteInv, ResearchInv, DocumentsTypeOK
  <2>2. ResearchInv' /\ UNCHANGED approval
    BY <1>1, <1>4, <2>1, NoStep DEF RouteInv, researchDocs
  <2>3. job[h].pc = "idle"
    BY <1>4 DEF InRoute, RouteInv, RouteServes
  <2> QED BY <1>4, <2>2, <2>3, RouteAnswers
<1> QED BY <1>2, <1>3, <1>4 DEF CreditFault, Abandon

LEMMA LoseRouteStep ==
  ASSUME RouteInv, NEW h \in Handlers, LoseRoute(h)
  PROVE  RouteInv'
<1>1. /\ UNCHANGED <<researchDocs, calls, undisclosed>> /\ job' = [job EXCEPT ![h] = Idle]
      /\ lost' \in Nat /\ faults' \in Nat /\ Answer(h)
  BY Counters DEF LoseRoute, Abandon
<1> QED BY <1>1, ResearchForgets, RouteAnswers

\* The steps that are the research service's own.
LEMMA ServiceStep ==
  ASSUME RouteInv, route' = route,
         \/ Quoting \/ TimePasses
         \/ \E h \in Handlers : Advance(h) \/ Fault(h)
  PROVE  RouteInv' /\ Kept
<1>1. CASE Quoting \/ TimePasses
  <2>1. ResearchInv' /\ Kept
    BY <1>1, ResearchNext, KeptOutside DEF RouteInv, Next
  <2>2. \A g \in Handlers : job'[g].pc = job[g].pc /\ job'[g].approval = job[g].approval
    BY <1>1, PlacesOutside DEF RouteInv
  <2> QED BY <2>1, <2>2, RouteStays
<1>2. ASSUME NEW h \in Handlers, Advance(h) \/ Fault(h) PROVE RouteInv' /\ Kept
  <2>1. ResearchInv'
    BY <1>2, ResearchNext DEF RouteInv, Next
  <2>2. Kept
    <3>1. CASE Advance(h)
      BY <3>1, KeptAdvance DEF RouteInv
    <3>2. CASE Fault(h)
      BY <3>2, KeptQuiet DEF Fault, researchDocs
    <3> QED BY <1>2, <3>1, <3>2
  <2>3. \A g \in Handlers : \/ job'[g].pc = "idle"
                            \/ job[g].pc # "idle" /\ job'[g].approval = job[g].approval
    <3>1. /\ job[h].pc # "idle" /\ job'[h].approval = job[h].approval
          /\ \A g \in Handlers \ {h} : job'[g] = job[g]
      BY <1>2, PlacesInside DEF RouteInv
    <3> SUFFICES ASSUME NEW g \in Handlers, job'[g].pc # "idle"
        PROVE  job[g].pc # "idle" /\ job'[g].approval = job[g].approval
      OBVIOUS
    <3> QED BY <3>1
  <2> QED BY <2>1, <2>2, <2>3, RouteStays
<1> QED BY <1>1, <1>2

LEMMA RouteInit == PaidInit => RouteInv
<1> SUFFICES ASSUME PaidInit PROVE RouteInv
  OBVIOUS
<1>1. ResearchInv
  BY ResearchInit DEF PaidInit
<1>2. \A h \in Handlers : route[h].pc = "idle" /\ job[h].pc = "idle"
  BY WaitingType, IdleType DEF PaidInit, Init
<1> QED BY <1>1, <1>2, WaitingType DEF PaidInit, RouteInv, RouteServes

LEMMA RouteNext ==
  ASSUME RouteInv, [PaidNext]_paidVars
  PROVE  RouteInv'
<1>1. CASE UNCHANGED <<researchVars, route>>
  <2>1. RouteInv' BY <1>1, ResearchRests, RouteStays DEF RouteInv
  <2> QED BY <2>1
<1>2. CASE \E s \in Grants, n \in Amounts : GrantCredits(s, n)
  BY <1>1, <1>2 DEF GrantCredits
<1>3. CASE (Quoting \/ TimePasses) /\ UNCHANGED <<creditVars, route, delivered, orphaned>>
  BY <1>3, ServiceStep
<1>4. CASE \E h \in Handlers, a \in Approvals, key \in Keys : Submit(h, a, key)
  BY <1>4, SubmitStep
<1>5. ASSUME NEW h \in Handlers, Serve(h) PROVE RouteInv'
  <2>1. CASE Advance(h) /\ UNCHANGED <<creditVars, route, delivered, orphaned>>
    BY <2>1, ServiceStep
  <2> QED BY <1>5, <2>1, ReserveCreditStep, PaymentRequiredStep, BeginResearchStep,
             SettleUsableStep, SettleUnusableStep, ReleaseAfterErrorStep DEF Serve
<1>6. ASSUME NEW h \in Handlers, Fault(h) /\ UNCHANGED <<creditVars, route, delivered, orphaned>>
      PROVE  RouteInv'
  BY <1>6, ServiceStep
<1> QED BY <1>1, <1>2, <1>3, <1>4, <1>5, <1>6, CreditFaultStep, LoseRouteStep DEF PaidNext, paidVars

-----------------------------------------------------------------------------
(* The route and the ledger.                                               *)

\* What is proved of CreditLedger, for the ledger of this organization.
CP == INSTANCE CreditLedger_proofs WITH
        Requests     <- Approvals,
        Purchases    <- {},
        Reversals    <- {},
        Payments     <- {},
        PaymentOf    <- <<>>,
        Quantity     <- <<>>,
        MaxCrashes   <- 0,
        transactions <- {},
        recording    <- {},
        acked        <- {},
        crashes      <- 0

\* The assumptions of CreditLedger hold of this instance.
LEMMA LedgerAssumptions ==
  /\ CP!FiniteAssumption /\ CP!SourceAssumption /\ CP!AmountAssumption /\ CP!BoundAssumption
  /\ CP!NoneAssumption
<1>1. CP!FiniteAssumption
  BY PaidAssumption DEF CP!FiniteAssumption, IsFiniteSet, CP!IsFiniteSet
<1>b. CP!NoneAssumption
  BY PaidAssumption DEF CP!NoneAssumption
<1>a. CP!SourceAssumption
  BY PaidAssumption DEF CP!SourceAssumption, CP!Sources, CP!Events
<1>2. CP!AmountAssumption
  BY PaidAssumption DEF CP!AmountAssumption, CP!Events
<1>3. CP!BoundAssumption
  BY DEF CP!BoundAssumption
<1> QED BY <1>1, <1>a, <1>b, <1>2, <1>3

\* Cardinality is the same operator by either name.
LEMMA SameCardinality == \A S : Credits!Cardinality(S) = CP!Cardinality(S)
BY Zenon DEF Credits!Cardinality, CP!Cardinality

LEMMA SameEntry == \A s, n : Credits!NewEntry(s, n) = CP!NewEntry(s, n)
BY SameCardinality DEF Credits!NewEntry, CP!NewEntry

\* The transactions of the ledger, by either name.
LEMMA SameTransactions ==
  /\ \A s, n, c : Credits!CreditEntry(s, n, c) <=> CP!CreditEntry(s, n, c)
  /\ \A r, p : Credits!NewReservation(r, p) <=> CP!NewReservation(r, p)
  /\ \A r : Credits!ConsumeReservation(r) <=> CP!ConsumeReservation(r)
  /\ \A r : Credits!ReleaseReservation(r) <=> CP!ReleaseReservation(r)
<1>1. ASSUME NEW s, NEW n, NEW c PROVE Credits!CreditEntry(s, n, c) <=> CP!CreditEntry(s, n, c)
  BY SameEntry
     DEF Credits!CreditEntry, CP!CreditEntry, Credits!MayPost, CP!MayPost, Credits!creditVars, CP!creditVars
<1>2. ASSUME NEW r, NEW p PROVE Credits!NewReservation(r, p) <=> CP!NewReservation(r, p)
  BY DEF Credits!NewReservation, CP!NewReservation, Credits!AlreadyUnlocked, CP!AlreadyUnlocked,
         Credits!AlreadyRequested, CP!AlreadyRequested
<1>3. ASSUME NEW r PROVE Credits!ConsumeReservation(r) <=> CP!ConsumeReservation(r)
  BY SameEntry
     DEF Credits!ConsumeReservation, CP!ConsumeReservation, Credits!MayConsume, CP!MayConsume,
         Credits!AlreadyUnlocked, CP!AlreadyUnlocked
<1>4. ASSUME NEW r PROVE Credits!ReleaseReservation(r) <=> CP!ReleaseReservation(r)
  BY DEF Credits!ReleaseReservation, CP!ReleaseReservation
<1> QED BY <1>1, <1>2, <1>3, <1>4

LEMMA SameLedger ==
  /\ Credits!Init => CP!Init
  /\ [Credits!Next]_Credits!vars => [CP!Next]_CP!vars
<1>1. Credits!Init => CP!Init
  BY DEF Credits!Init, CP!Init, Credits!CreditInit, CP!CreditInit, Credits!NoReservation,
         CP!NoReservation
<1>2. Credits!vars = CP!vars /\ Credits!vars' = CP!vars'
  BY DEF Credits!vars, CP!vars
<1>3. UNCHANGED Credits!webhookVars /\ UNCHANGED CP!webhookVars
  BY DEF Credits!webhookVars, CP!webhookVars
<1>4. ASSUME NEW s \in Grants, NEW n \in Amounts, Credits!GrantCredits(s, n) PROVE CP!Next
  <2>1. CP!GrantCredits(s, n)
    BY <1>3, <1>4, SameTransactions DEF Credits!GrantCredits, CP!GrantCredits
  <2> QED BY <2>1 DEF CP!Next
<1>5. ASSUME NEW r \in Approvals, Credits!Research(r) PROVE CP!Next
  <2>1. CP!Research(r)
    BY <1>3, <1>5, SameTransactions DEF Credits!Research, CP!Research
  <2> QED BY <2>1 DEF CP!Next
<1>6. Credits!Next => CP!Next
  BY <1>4, <1>5 DEF Credits!Next
<1> QED BY <1>1, <1>2, <1>6

\* Every step of the route is a transaction of the ledger, or leaves it alone.
LEMMA LedgerStep ==
  ASSUME RouteInv, [PaidNext]_paidVars
  PROVE  [Credits!Next]_Credits!vars
<1>1. ASSUME UNCHANGED creditVars PROVE UNCHANGED Credits!vars
  BY <1>1 DEF creditVars, Credits!vars
<1>2. UNCHANGED Credits!webhookVars
  BY DEF Credits!webhookVars
<1>3. ASSUME NEW s \in Grants, NEW n \in Amounts, GrantCredits(s, n) PROVE Credits!Next
  <2>1. Credits!GrantCredits(s, n)
    BY <1>2, <1>3 DEF GrantCredits, Credits!GrantCredits
  <2> QED BY <2>1 DEF Credits!Next
<1>4. ASSUME NEW h \in Handlers, route[h].pc # "idle",
             \/ Credits!NewReservation(Mine(h), Property(h))
             \/ Credits!ConsumeReservation(Mine(h))
             \/ Credits!ReleaseReservation(Mine(h))
      PROVE  Credits!Next
  <2>1. Mine(h) \in Approvals /\ Property(h) \in Properties
    <3>1. Mine(h) \in Approvals /\ approval[Mine(h)].status # "NONE"
      BY <1>4 DEF RouteInv, RouteServes
    <3> QED BY <3>1 DEF RouteInv, ResearchInv, DocumentsOK, ApprovalsKnown, Property
  <2>2. Credits!Research(Mine(h))
    BY <1>2, <1>4, <2>1 DEF Credits!Research
  <2> QED BY <2>1, <2>2 DEF Credits!Next
<1>5. ASSUME NEW h \in Handlers, Serve(h) PROVE Credits!Next \/ UNCHANGED creditVars
  <2>1. CASE ReserveCredit(h)
    BY <1>4, <2>1 DEF ReserveCredit, InRoute
  <2>2. CASE PaymentRequired(h) \/ BeginResearch(h)
    BY <2>2 DEF PaymentRequired, BeginResearch
  <2>3. CASE SettleUsable(h)
    <3>1. route[h].pc # "idle"
      BY <2>3 DEF SettleUsable, Returned, InRoute
    <3> QED BY <1>4, <2>3, <3>1 DEF SettleUsable
  <2>4. CASE SettleUnusable(h) \/ ReleaseAfterError(h)
    <3>1. route[h].pc # "idle"
      BY <2>4 DEF SettleUnusable, ReleaseAfterError, Returned, InRoute
    <3> QED BY <1>4, <2>4, <3>1 DEF SettleUnusable, ReleaseAfterError, GiveBack
  <2>5. CASE Advance(h) /\ UNCHANGED <<creditVars, route, delivered, orphaned>>
    BY <2>5
  <2> QED BY <1>5, <2>1, <2>2, <2>3, <2>4, <2>5 DEF Serve
<1>6. CASE \E s \in Grants, n \in Amounts : GrantCredits(s, n)
  BY <1>3, <1>6
<1>7. CASE UNCHANGED creditVars
  BY <1>1, <1>7
<1>8. CASE \E h \in Handlers : Serve(h)
  BY <1>1, <1>5, <1>8
<1> QED BY <1>6, <1>7, <1>8 DEF PaidNext, Submit, CreditFault, LoseRoute, paidVars

LEMMA PaidRoute == PaidSpec => []RouteInv
BY RouteInit, RouteNext, PTL DEF PaidSpec

\* The route touches the credit documents by transactions of the ledger only, so
\* the composition implements CreditLedger.
THEOREM RouteFollowsLedger == PaidSpec => FollowsLedger
<1>1. PaidInit => Credits!Init
  BY DEF PaidInit, Credits!Init
<1>2. RouteInv /\ [PaidNext]_paidVars => [Credits!Next]_Credits!vars
  BY LedgerStep
<1> QED BY <1>1, <1>2, PaidRoute, PTL DEF PaidSpec, FollowsLedger, Credits!Spec

\* So everything that is proved of the ledger holds of the paid route.
LEMMA PaidLedger == PaidSpec => []CP!LedgerInv
<1>1. PaidInit => CP!LedgerInv
  <2>1. PaidInit => CP!Init
    BY SameLedger DEF PaidInit, Credits!Init
  <2> QED BY <2>1, LedgerAssumptions, CP!InitInv
<1>2. CP!LedgerInv /\ [CP!Next]_CP!vars => CP!LedgerInv'
  BY LedgerAssumptions, CP!TypeStep, CP!ChargedStep, CP!BalanceStep, CP!PostedStep,
     CP!ReversalStep DEF CP!LedgerInv
<1>3. RouteInv /\ [PaidNext]_paidVars => [CP!Next]_CP!vars
  BY LedgerStep, SameLedger
<1> QED BY <1>1, <1>2, <1>3, PaidRoute, PTL DEF PaidSpec

-----------------------------------------------------------------------------
(* Which reservation covers which approval.                                *)

\* A request that has passed the reservation works under the reservation of its
\* approval, or on a property that is unlocked.
Covered(h) ==
  /\ route[h].pc = "reserve" => ~route[h].reserved
  /\ route[h].pc \in {"research", "await", "release"} =>
       IF route[h].reserved THEN reservation[Mine(h)].status # "NONE"
                            ELSE entitlement[Property(h)] # None

\* A reservation was made for the property of its approval.
ReservationsKnown ==
  \A a \in Approvals : reservation[a].status # "NONE" =>
    approval[a].status # "NONE" /\ reservation[a].property = approval[a].property

DeliveredKnown ==
  \A a \in delivered : a \in Approvals /\ approval[a].status # "NONE"

PaidInv ==
  /\ \A h \in Handlers : Covered(h)
  /\ ReservationsKnown
  /\ DeliveredKnown
  /\ CreditBuysEvidence
  /\ FreeOnlyAfterRelease

-----------------------------------------------------------------------------
(* What stays.                                                             *)

\* A reservation stays, a settled one as it is, and so does an entitlement.
CreditsKept ==
  /\ \A a \in Approvals : reservation[a].status # "NONE" =>
       /\ reservation'[a].status # "NONE"
       /\ reservation'[a].property = reservation[a].property
  /\ \A a \in Approvals : reservation[a].status \in {"CONSUMED", "RELEASED"} =>
       reservation'[a] = reservation[a]
  /\ \A p \in Properties : entitlement[p] # None => entitlement'[p] # None

CompletedStays ==
  \A a \in Approvals : approval[a].status = "COMPLETE" => approval'[a].status = "COMPLETE"

\* The types of the credit documents the route looks at.
CreditTypes ==
  /\ reservation \in [Approvals -> [status : {"NONE", "RESERVED", "CONSUMED", "RELEASED"},
                                    property : Properties \cup {None}]]
  /\ entitlement \in [Properties -> Approvals \cup {None}]

LEMMA LedgerTypes == CP!LedgerInv => CreditTypes
BY DEF CP!LedgerInv, CP!TypeOK, CP!ReservationStatus, CreditTypes

LEMMA CreditsStay ==
  ASSUME CP!LedgerInv, [CP!Next]_CP!vars
  PROVE  CreditsKept
<1>0. CreditTypes
  BY LedgerTypes
<1>1. ASSUME NEW r \in Approvals, NEW p \in Properties, CP!NewReservation(r, p)
      PROVE  CreditsKept
  <2>1. reservation[r].status = "NONE" /\ entitlement' = entitlement
    BY <1>1 DEF CP!NewReservation, CP!AlreadyRequested
  <2>2. \A a \in Approvals : a # r => reservation'[a] = reservation[a]
    BY <1>0, <1>1 DEF CP!NewReservation, CreditTypes
  <2> QED BY <2>1, <2>2 DEF CreditsKept
<1>2. ASSUME NEW r \in Approvals, CP!ReleaseReservation(r)
      PROVE  CreditsKept
  <2>1. /\ reservation[r].status = "RESERVED" /\ entitlement' = entitlement
        /\ reservation'[r].status = "RELEASED"
        /\ reservation'[r].property = reservation[r].property
    BY <1>0, <1>2 DEF CP!ReleaseReservation, CreditTypes
  <2>2. \A a \in Approvals : a # r => reservation'[a] = reservation[a]
    BY <1>0, <1>2 DEF CP!ReleaseReservation, CreditTypes
  <2> QED BY <2>1, <2>2 DEF CreditsKept
<1>3. ASSUME NEW r \in Approvals, CP!ConsumeReservation(r)
      PROVE  CreditsKept
  <2>1. /\ reservation[r].status = "RESERVED"
        /\ reservation'[r].status = "CONSUMED"
        /\ reservation'[r].property = reservation[r].property
    BY <1>0, <1>3 DEF CP!ConsumeReservation, CP!MayConsume, CreditTypes
  <2>2. \A a \in Approvals : a # r => reservation'[a] = reservation[a]
    BY <1>0, <1>3 DEF CP!ConsumeReservation, CreditTypes
  <2>3. \A p \in Properties : entitlement[p] # None => entitlement'[p] # None
    BY <1>0, <1>3, PaidAssumption DEF CP!ConsumeReservation, CreditTypes
  <2> QED BY <2>1, <2>2, <2>3 DEF CreditsKept
<1>4. CASE UNCHANGED <<reservation, entitlement>>
  BY <1>4 DEF CreditsKept
<1>5. CASE /\ \A r \in Approvals, p \in Properties : ~CP!NewReservation(r, p)
           /\ \A r \in Approvals : ~CP!ConsumeReservation(r) /\ ~CP!ReleaseReservation(r)
  BY <1>4, <1>5, LedgerAssumptions, CP!UntouchedStep
<1> QED BY <1>1, <1>2, <1>3, <1>5

\* A request whose place does not change stays covered.
LEMMA CoveredStays ==
  ASSUME RouteInv, Kept, CreditsKept, NEW g \in Handlers, Covered(g),
         route'[g].approval = route[g].approval, route'[g].reserved = route[g].reserved,
         \/ route'[g].pc = route[g].pc
         \/ route[g].pc \in {"research", "await"} /\ route'[g].pc \in {"await", "release"}
  PROVE  Covered(g)'
<1>1. route[g].pc # "idle" => /\ Mine(g) \in Approvals /\ approval[Mine(g)].status # "NONE"
                              /\ approval[Mine(g)].property \in Properties
  BY DEF RouteInv, RouteServes, ResearchInv, DocumentsOK, ApprovalsKnown
<1> QED BY <1>1 DEF Covered, Property, Mine, Kept, CreditsKept

\* The invariant is preserved when what is new of each kind is in order.
LEMMA PaidStays ==
  ASSUME RouteInv, PaidInv, Kept, CreditsKept, CompletedStays,
         \A h \in Handlers : Covered(h)',
         \A a \in Approvals : reservation'[a].status # "NONE" /\ reservation[a].status = "NONE" =>
           approval[a].status # "NONE" /\ reservation'[a].property = approval[a].property,
         \A a \in Approvals : reservation'[a].status = "CONSUMED" /\ reservation[a].status # "CONSUMED" =>
           /\ reservation[a].status # "NONE"
           /\ approval[a].status = "COMPLETE" /\ retained[approval[a].property] # {},
         \A a \in delivered' \ delivered :
           /\ a \in Approvals /\ approval[a].status # "NONE"
           /\ entitlement'[approval[a].property] # None \/ reservation'[a].status = "RELEASED"
  PROVE  PaidInv'
<1>1. ASSUME NEW a \in Approvals, approval[a].status # "NONE"
      PROVE  /\ approval'[a].status # "NONE" /\ approval'[a].property = approval[a].property
             /\ approval[a].property \in Properties
             /\ retained[approval[a].property] \subseteq retained'[approval'[a].property]
  BY <1>1 DEF Kept, RouteInv, ResearchInv, DocumentsOK, ApprovalsKnown
<1>2. ReservationsKnown'
  BY <1>1 DEF PaidInv, ReservationsKnown, CreditsKept
<1>3. DeliveredKnown'
  BY <1>1 DEF PaidInv, DeliveredKnown
<1>4. CreditBuysEvidence'
  <2> SUFFICES ASSUME NEW a \in Approvals, reservation'[a].status = "CONSUMED"
      PROVE  /\ approval'[a].status = "COMPLETE"
             /\ reservation'[a].property = approval'[a].property
             /\ retained'[approval'[a].property] # {}
    BY DEF CreditBuysEvidence
  <2>1. approval[a].status = "COMPLETE" /\ retained[approval[a].property] # {}
    BY DEF PaidInv, CreditBuysEvidence
  <2> QED BY <1>1, <1>2, <2>1 DEF CompletedStays, ReservationsKnown
<1>5. FreeOnlyAfterRelease'
  <2> SUFFICES ASSUME NEW a \in delivered'
      PROVE  entitlement'[approval'[a].property] # None \/ reservation'[a].status = "RELEASED"
    BY DEF FreeOnlyAfterRelease, Credits!AlreadyUnlocked
  <2>1. CASE a \in delivered
    <3>1. a \in Approvals /\ approval[a].status # "NONE"
      BY <2>1 DEF PaidInv, DeliveredKnown
    <3>2. entitlement[approval[a].property] # None \/ reservation[a].status = "RELEASED"
      BY <2>1 DEF PaidInv, FreeOnlyAfterRelease, Credits!AlreadyUnlocked
    <3> QED BY <1>1, <3>1, <3>2 DEF CreditsKept
  <2>2. CASE a \notin delivered
    BY <1>1, <2>2
  <2> QED BY <2>1, <2>2
<1> QED BY <1>2, <1>3, <1>4, <1>5 DEF PaidInv

-----------------------------------------------------------------------------
(* Every step of the route keeps PaidInv.                                  *)

LEMMA PaidStarts == PaidInit => PaidInv
<1> SUFFICES ASSUME PaidInit PROVE PaidInv
  OBVIOUS
<1>1. \A h \in Handlers : route[h].pc = "idle"
  BY WaitingType DEF PaidInit
<1>2. \A a \in Approvals : reservation[a].status = "NONE"
  BY DEF PaidInit, Credits!CreditInit, Credits!NoReservation
<1>3. delivered = {}
  BY DEF PaidInit
<1> QED BY <1>1, <1>2, <1>3
        DEF PaidInv, Covered, ReservationsKnown, DeliveredKnown, CreditBuysEvidence,
            FreeOnlyAfterRelease

\* What a step of the composition leaves of the credit documents.
LEMMA StepKeepsCredits ==
  ASSUME RouteInv, CP!LedgerInv, [PaidNext]_paidVars
  PROVE  CreditsKept
BY LedgerStep, SameLedger, CreditsStay

LEMMA ConsumeEffect ==
  ASSUME CreditTypes, NEW a \in Approvals, Credits!ConsumeReservation(a)
  PROVE  /\ reservation[a].status = "RESERVED"
         /\ \A b \in Approvals : b # a => reservation'[b] = reservation[b]
         /\ reservation[a].property \in Properties => entitlement'[reservation[a].property] = a
BY DEF Credits!ConsumeReservation, Credits!MayConsume, CreditTypes

\* An open reservation is released, or nothing changes.
Returns ==
  \A b \in Approvals :
    \/ reservation'[b] = reservation[b]
    \/ reservation[b].status = "RESERVED" /\ reservation'[b].status = "RELEASED"

LEMMA GiveBackReturns ==
  ASSUME CreditTypes, NEW h \in Handlers, GiveBack(h)
  PROVE  Returns
<1>1. CASE Credits!ReleaseReservation(Mine(h))
  BY <1>1 DEF Credits!ReleaseReservation, CreditTypes, Returns
<1>2. CASE UNCHANGED creditVars
  BY <1>2 DEF creditVars, Returns
<1> QED BY <1>1, <1>2 DEF GiveBack

LEMMA QuietReturns == UNCHANGED creditVars => Returns
BY DEF creditVars, Returns

\* A step that neither makes nor consumes a reservation and delivers nothing.
LEMMA PaidRests ==
  ASSUME RouteInv, PaidInv, Kept, CreditsKept, CompletedStays, Returns, delivered' = delivered,
         \A h \in Handlers : Covered(h)'
  PROVE  PaidInv'
<1>1. \A a \in Approvals : reservation'[a].status # "NONE" => reservation[a].status # "NONE"
  BY DEF Returns
<1>2. \A a \in Approvals : reservation'[a].status = "CONSUMED" => reservation[a].status = "CONSUMED"
  BY DEF Returns
<1> QED BY <1>1, <1>2, PaidStays

LEMMA OthersCovered ==
  ASSUME RouteInv, PaidInv, Kept, CreditsKept, NEW h \in Handlers, NEW r,
         route' = [route EXCEPT ![h] = r], NEW g \in Handlers, g # h
  PROVE  Covered(g)'
<1>1. route'[g] = route[g]
  BY DEF RouteInv
<1> QED BY <1>1, CoveredStays DEF PaidInv

LEMMA AnswerCovers ==
  ASSUME RouteInv, PaidInv, Kept, CreditsKept, NEW h \in Handlers, Answer(h)
  PROVE  \A g \in Handlers : Covered(g)'
<1>1. route'[h].pc = "idle"
  BY WaitingType DEF Answer, RouteInv
<1>2. Covered(h)'
  BY <1>1 DEF Covered
<1> QED BY <1>2, OthersCovered DEF Answer

\* A request that goes on after the reservation stays covered.
LEMMA AdvanceCovers ==
  ASSUME RouteInv, PaidInv, Kept, CreditsKept, NEW h \in Handlers,
         NEW pc \in {"await", "release"}, Advances(h, pc), route[h].pc \in {"research", "await"}
  PROVE  \A g \in Handlers : Covered(g)'
<1>1. \E r : route' = [route EXCEPT ![h] = r]
  BY DEF Advances
<1>2. /\ route'[h].pc = pc /\ route'[h].approval = route[h].approval
      /\ route'[h].reserved = route[h].reserved
  BY DEF Advances, RouteInv, RouteType
<1>3. Covered(h)'
  BY <1>2, CoveredStays DEF PaidInv
<1> QED BY <1>1, <1>3, OthersCovered

LEMMA CompletedQuiet == approval' = approval => CompletedStays
BY DEF CompletedStays

LEMMA CompletedFinal == FinalStays => CompletedStays
BY DEF FinalStays, CompletedStays

\* The steps that leave both services' documents alone.
LEMMA PaidMoves ==
  ASSUME RouteInv, PaidInv, CreditsKept, UNCHANGED <<approval, retained, creditVars, delivered>>,
         \A h \in Handlers : Covered(h)'
  PROVE  PaidInv'
BY KeptQuiet, CompletedQuiet, QuietReturns, PaidRests

LEMMA PaidSubmit ==
  ASSUME RouteInv, PaidInv, CreditsKept, NEW h \in Handlers, NEW a \in Approvals, NEW key \in Keys,
         Submit(h, a, key)
  PROVE  PaidInv'
<1>1. UNCHANGED <<approval, retained, creditVars, delivered>>
  BY DEF Submit, researchVars
<1>2. PICK r : /\ r = [pc |-> "reserve", approval |-> a, key |-> key, reserved |-> FALSE]
               /\ route' = [route EXCEPT ![h] = r]
  BY DEF Submit
<1>3. r.pc = "reserve" /\ ~r.reserved
  BY <1>2
<1>4. route'[h] = r
  BY <1>2 DEF RouteInv
<1>5. Covered(h)'
  BY <1>3, <1>4 DEF Covered
<1>6. Kept
  BY <1>1, KeptQuiet
<1> QED BY <1>1, <1>2, <1>5, <1>6, OthersCovered, PaidMoves

\* A reservation is made for the property of the approval, or found, or not needed.
LEMMA PaidReserve ==
  ASSUME RouteInv, CreditTypes, PaidInv, CreditsKept, NEW h \in Handlers, ReserveCredit(h)
  PROVE  PaidInv'
<1>1. /\ UNCHANGED <<approval, retained, delivered>> /\ route[h].pc = "reserve"
      /\ Mine(h) \in Approvals /\ approval[Mine(h)].status # "NONE"
      /\ ~route[h].reserved
  BY DEF ReserveCredit, InRoute, researchVars, RouteInv, RouteServes, PaidInv, Covered
<1>2. Kept /\ CompletedStays
  BY <1>1, KeptQuiet, CompletedQuiet
<1>3. Mine(h)' = Mine(h) /\ Property(h)' = Property(h) /\ route'[h].pc = "research"
  <2>1. route \in [Handlers -> RouteType]
    BY DEF RouteInv
  <2>2. route'[h].approval = route[h].approval /\ route'[h].pc = "research"
    <3>1. CASE Advances(h, "research")
      BY <2>1, <3>1 DEF Advances, RouteType
    <3>2. CASE route' = [route EXCEPT ![h].pc = "research", ![h].reserved = TRUE]
      BY <2>1, <3>2 DEF RouteType
    <3> QED BY <3>1, <3>2 DEF ReserveCredit
  <2>3. Mine(h)' = Mine(h)
    BY <2>2 DEF Mine
  <2> QED BY <1>1, <2>2, <2>3 DEF Property
<1>4. \E r : route' = [route EXCEPT ![h] = r]
  BY DEF ReserveCredit, Advances
<1>5. ASSUME Credits!AlreadyUnlocked(Property(h)), Advances(h, "research"), UNCHANGED creditVars
      PROVE  PaidInv'
  <2>1. ~route'[h].reserved /\ entitlement'[Property(h)] # None
    BY <1>1, <1>5 DEF Advances, RouteInv, RouteType, Credits!AlreadyUnlocked, creditVars
  <2>2. Covered(h)'
    BY <1>3, <2>1 DEF Covered
  <2> QED BY <1>1, <1>2, <1>4, <1>5, <2>2, OthersCovered, PaidMoves
<1>6. ASSUME Credits!AlreadyRequested(Mine(h)), UNCHANGED creditVars,
             route' = [route EXCEPT ![h].pc = "research", ![h].reserved = TRUE]
      PROVE  PaidInv'
  <2>1. route'[h].reserved /\ reservation'[Mine(h)].status # "NONE"
    BY <1>6 DEF RouteInv, RouteType, Credits!AlreadyRequested, creditVars
  <2>2. Covered(h)'
    BY <1>3, <2>1 DEF Covered
  <2> QED BY <1>1, <1>2, <1>4, <1>6, <2>2, OthersCovered, PaidMoves
<1>7. ASSUME Credits!NewReservation(Mine(h), Property(h)),
             route' = [route EXCEPT ![h].pc = "research", ![h].reserved = TRUE]
      PROVE  PaidInv'
  <2>1. /\ reservation'[Mine(h)].status = "RESERVED"
        /\ reservation'[Mine(h)].property = approval[Mine(h)].property
        /\ \A b \in Approvals : b # Mine(h) => reservation'[b] = reservation[b]
    BY <1>1, <1>7 DEF Credits!NewReservation, CreditTypes, Property
  <2>2. route'[h].reserved
    BY <1>7 DEF RouteInv, RouteType
  <2>3. Covered(h)'
    BY <1>3, <2>1, <2>2 DEF Covered
  <2>4. \A g \in Handlers : Covered(g)'
    BY <1>2, <1>4, <2>3, OthersCovered
  <2>5. \A b \in Approvals : reservation'[b].status = "CONSUMED" => reservation[b].status = "CONSUMED"
    BY <2>1
  <2>6. \A b \in Approvals : reservation'[b].status # "NONE" /\ reservation[b].status = "NONE" =>
          approval[b].status # "NONE" /\ reservation'[b].property = approval[b].property
    BY <1>1, <2>1
  <2> QED BY <1>1, <1>2, <2>4, <2>5, <2>6, PaidStays
<1> QED BY <1>5, <1>6, <1>7 DEF ReserveCredit

LEMMA PaidBegin ==
  ASSUME RouteInv, PaidInv, CreditsKept, NEW h \in Handlers,
         PaymentRequired(h) \/ BeginResearch(h)
  PROVE  PaidInv'
<1>1. UNCHANGED <<approval, retained, creditVars, delivered>>
  BY DEF PaymentRequired, BeginResearch, Call, researchVars, researchDocs
<1>2. Kept
  BY <1>1, KeptQuiet
<1>3. Answer(h) \/ (Advances(h, "await") /\ route[h].pc = "research")
  BY DEF PaymentRequired, BeginResearch, InRoute
<1> QED BY <1>1, <1>2, <1>3, AnswerCovers, AdvanceCovers, PaidMoves

\* What a usable result stands for.
LEMMA UsableResult ==
  ASSUME RouteInv, PaidInv, NEW h \in Handlers, Returned(h, UsableResults)
  PROVE  /\ Mine(h) \in Approvals /\ route[h].pc = "await"
         /\ approval[Mine(h)].status = "COMPLETE" /\ approval[Mine(h)].property \in Properties
         /\ retained[approval[Mine(h)].property] # {}
<1>1. route[h].pc = "await" /\ job[h].pc # "idle" /\ job[h].result = "usable"
  BY DEF Returned, InRoute, At, UsableResults
<1>2. job[h].approval = Mine(h)
  BY <1>1 DEF RouteInv, RouteServes
<1>3. JobUsable(job[h])
  BY DEF RouteInv, ResearchInv, JobOK
<1>4. /\ Mine(h) \in Approvals /\ approval[Mine(h)].status = "COMPLETE"
      /\ retained[approval[Mine(h)].property] # {}
  BY <1>1, <1>2, <1>3 DEF JobUsable
<1> QED BY <1>1, <1>4 DEF RouteInv, ResearchInv, DocumentsOK, ApprovalsKnown

\* A usable analysis is delivered on an unlocked property, or on a reservation that
\* was given back; the reservation that is consumed for it is its own.
LEMMA PaidUsable ==
  ASSUME RouteInv, CP!LedgerInv, PaidInv, CreditsKept, NEW h \in Handlers, SettleUsable(h)
  PROVE  PaidInv'
<1> DEFINE a == Mine(h)
           p == approval[a].property
<1>0. CreditTypes
  BY LedgerTypes
<1>1. /\ a \in Approvals /\ route[h].pc = "await" /\ approval[a].status = "COMPLETE"
      /\ p \in Properties /\ retained[p] # {}
  BY UsableResult DEF SettleUsable
<1>2. UNCHANGED <<approval, retained>> /\ Kept /\ CompletedStays
  BY KeptQuiet, CompletedQuiet DEF SettleUsable, researchDocs
<1>3. Property(h) = p
  BY DEF Property
<1>4. Covered(h)
  BY DEF PaidInv
<1> HIDE DEF a, p
<1>5. ASSUME Answer(h), delivered' = delivered \cup {a},
             \A b \in Approvals : reservation'[b] = reservation[b] \/ b = a,
             reservation[a].status = "NONE" => reservation'[a] = reservation[a],
             entitlement'[p] # None \/ reservation'[a].status = "RELEASED"
      PROVE  PaidInv'
  <2>1. \A g \in Handlers : Covered(g)'
    BY <1>2, <1>5, AnswerCovers
  <2>2. \A b \in Approvals : ~(reservation'[b].status # "NONE" /\ reservation[b].status = "NONE")
    BY <1>5
  <2>3. \A b \in Approvals : reservation'[b].status = "CONSUMED" /\ reservation[b].status # "CONSUMED" =>
          /\ reservation[b].status # "NONE"
          /\ approval[b].status = "COMPLETE" /\ retained[approval[b].property] # {}
    BY <1>1, <1>5, <2>2 DEF p
  <2>4. \A b \in delivered' \ delivered :
          /\ b \in Approvals /\ approval[b].status # "NONE"
          /\ entitlement'[approval[b].property] # None \/ reservation'[b].status = "RELEASED"
    BY <1>1, <1>5 DEF p
  <2> QED BY <1>2, <2>1, <2>2, <2>3, <2>4, PaidStays
<1>6. ASSUME UNCHANGED creditVars, Answer(h), delivered' = delivered \cup {a},
             entitlement[p] # None \/ reservation[a].status = "RELEASED"
      PROVE  PaidInv'
  BY <1>5, <1>6 DEF creditVars
<1>7. ASSUME route[h].reserved, Credits!ConsumeReservation(a), Answer(h),
             delivered' = delivered \cup {a}
      PROVE  PaidInv'
  <2>1. reservation[a].status = "RESERVED" /\ reservation[a].property = p
    BY <1>0, <1>1, <1>7, ConsumeEffect DEF PaidInv, ReservationsKnown, p
  <2>2. entitlement'[p] # None /\ \A b \in Approvals : reservation'[b] = reservation[b] \/ b = a
    BY <1>0, <1>1, <1>7, <2>1, ConsumeEffect, PaidAssumption
  <2> QED BY <1>5, <1>7, <2>1, <2>2
<1>8. ASSUME route[h].reserved, reservation[a].status # "RESERVED", UNCHANGED creditVars,
             Answer(h), delivered' = delivered \cup {a}
      PROVE  PaidInv'
  <2>1. reservation[a].status # "NONE"
    BY <1>1, <1>4, <1>8 DEF Covered, a
  <2>2. CASE reservation[a].status = "CONSUMED"
    <3>1. reservation[a].property = p
      BY <1>1, <2>2 DEF PaidInv, ReservationsKnown, p
    <3>2. entitlement[p] = a
      BY <1>1, <2>2, <3>1 DEF CP!LedgerInv, CP!ChargedOnce
    <3> QED BY <1>1, <1>6, <1>8, <3>2, PaidAssumption
  <2>3. CASE reservation[a].status # "CONSUMED"
    <3>1. reservation[a].status = "RELEASED"
      BY <1>0, <1>1, <1>8, <2>1, <2>3 DEF CreditTypes
    <3> QED BY <1>6, <1>8, <3>1
  <2> QED BY <2>2, <2>3
<1>9. ASSUME ~route[h].reserved, UNCHANGED creditVars, Answer(h), delivered' = delivered \cup {a}
      PROVE  PaidInv'
  <2>1. entitlement[p] # None
    BY <1>1, <1>3, <1>4, <1>9 DEF Covered
  <2> QED BY <1>6, <1>9, <2>1
<1>10. ASSUME Advances(h, "release"), UNCHANGED <<creditVars, delivered>> PROVE PaidInv'
  BY <1>1, <1>2, <1>10, AdvanceCovers, PaidMoves
<1> QED BY <1>7, <1>8, <1>9, <1>10 DEF SettleUsable, a

\* An unusable result, and a consume that threw, give an open reservation back.
LEMMA PaidGivesBack ==
  ASSUME RouteInv, CreditTypes, PaidInv, CreditsKept, NEW h \in Handlers,
         SettleUnusable(h) \/ ReleaseAfterError(h)
  PROVE  PaidInv'
<1>1. UNCHANGED <<approval, retained, delivered>> /\ Answer(h)
  BY DEF SettleUnusable, ReleaseAfterError, GiveBack, researchDocs, researchVars
<1>2. Returns
  BY GiveBackReturns, QuietReturns DEF SettleUnusable, ReleaseAfterError
<1> QED BY <1>1, <1>2, KeptQuiet, CompletedQuiet, AnswerCovers, PaidRests

LEMMA PaidFault ==
  ASSUME RouteInv, PaidInv, CreditsKept, NEW h \in Handlers, CreditFault(h) \/ LoseRoute(h)
  PROVE  PaidInv'
<1>1. UNCHANGED <<approval, retained, creditVars, delivered>>
  BY DEF CreditFault, LoseRoute, researchDocs
<1>2. Kept
  BY <1>1, KeptQuiet
<1>3. Answer(h) \/ (Advances(h, "release") /\ route[h].pc = "await")
  BY DEF CreditFault, LoseRoute, Abandon, Returned, InRoute
<1> QED BY <1>1, <1>2, <1>3, AnswerCovers, AdvanceCovers, PaidMoves

\* Steps of the research service keep every reservation and its cover.
LEMMA PaidService ==
  ASSUME RouteInv, PaidInv, CreditsKept, UNCHANGED <<creditVars, route, delivered>>,
         \/ Quoting \/ TimePasses
         \/ \E h \in Handlers : Advance(h) \/ Fault(h)
  PROVE  PaidInv'
<1>1. Kept
  BY ServiceStep
<1>2. CompletedStays
  <2>1. CASE Quoting \/ TimePasses
    BY <2>1, FinalOutside, CompletedFinal DEF RouteInv
  <2>2. ASSUME NEW h \in Handlers, Advance(h) PROVE CompletedStays
    BY <2>2, FinalAdvance, CompletedFinal DEF RouteInv
  <2>3. ASSUME NEW h \in Handlers, Fault(h) PROVE CompletedStays
    BY <2>3, CompletedQuiet DEF Fault, researchDocs
  <2> QED BY <2>1, <2>2, <2>3
<1>3. \A g \in Handlers : Covered(g)'
  BY <1>1, CoveredStays DEF PaidInv
<1> QED BY <1>1, <1>2, <1>3, QuietReturns, PaidRests

\* A grant makes no reservation, and neither does a step that changes nothing.
LEMMA PaidGrant ==
  ASSUME RouteInv, PaidInv, CreditsKept,
         UNCHANGED <<approval, retained, route, delivered, reservation, entitlement>>
  PROVE  PaidInv'
<1>1. Kept /\ CompletedStays /\ Returns
  BY KeptQuiet, CompletedQuiet DEF Returns
<1>2. \A g \in Handlers : Covered(g)'
  BY <1>1, CoveredStays DEF PaidInv
<1> QED BY <1>1, <1>2, PaidRests

LEMMA PaidStep ==
  ASSUME RouteInv, CP!LedgerInv, PaidInv, [PaidNext]_paidVars
  PROVE  PaidInv'
<1>0. CreditTypes /\ CreditsKept
  BY LedgerTypes, StepKeepsCredits
<1>1. CASE UNCHANGED paidVars
  BY <1>0, <1>1, PaidGrant DEF paidVars, researchVars, creditVars
<1>2. ASSUME NEW s \in Grants, NEW n \in Amounts, GrantCredits(s, n) PROVE PaidInv'
  <2>1. UNCHANGED <<reservation, entitlement>>
    BY <1>2 DEF GrantCredits, Credits!CreditEntry, Credits!creditVars
  <2> QED BY <1>0, <1>2, <2>1, PaidGrant DEF GrantCredits, researchVars
<1>3. CASE (Quoting \/ TimePasses) /\ UNCHANGED <<creditVars, route, delivered, orphaned>>
  BY <1>0, <1>3, PaidService
<1>4. ASSUME NEW h \in Handlers, NEW a \in Approvals, NEW key \in Keys, Submit(h, a, key)
      PROVE  PaidInv'
  BY <1>0, <1>4, PaidSubmit
<1>5. ASSUME NEW h \in Handlers, Serve(h) PROVE PaidInv'
  <2>1. CASE Advance(h) /\ UNCHANGED <<creditVars, route, delivered, orphaned>>
    BY <1>0, <2>1, PaidService
  <2> QED BY <1>0, <1>5, <2>1, PaidReserve, PaidBegin, PaidUsable, PaidGivesBack DEF Serve
<1>6. ASSUME NEW h \in Handlers, Fault(h) /\ UNCHANGED <<creditVars, route, delivered, orphaned>>
      PROVE  PaidInv'
  BY <1>0, <1>6, PaidService
<1>7. ASSUME NEW h \in Handlers, CreditFault(h) \/ LoseRoute(h) PROVE PaidInv'
  BY <1>0, <1>7, PaidFault
<1> QED BY <1>1, <1>2, <1>3, <1>4, <1>5, <1>6, <1>7 DEF PaidNext

-----------------------------------------------------------------------------
(* Who settles an open reservation.                                        *)

\* Every open reservation has a request that will settle it or was abandoned, and
\* a handler without a request has none.
OwnedInv ==
  /\ orphaned \subseteq Approvals
  /\ \A h \in Handlers : route[h].pc = "idle" => ~route[h].reserved
  /\ OpenIsOwned

\* A step of one request keeps the owners in order if it does with the reservations
\* what their owners should: what stays open is not its own, or stays its own, or is
\* given up.
LEMMA OwnedMoves ==
  ASSUME RouteInv, OwnedInv, NEW h \in Handlers, NEW r, route' = [route EXCEPT ![h] = r],
         r.pc = "idle" => ~r.reserved,
         orphaned \subseteq orphaned', orphaned' \subseteq Approvals,
         \A b \in Approvals : reservation'[b].status = "RESERVED" =>
           \/ reservation[b].status = "RESERVED" /\ (b # Mine(h) \/ ~route[h].reserved)
           \/ r.approval = b /\ r.reserved
           \/ b \in orphaned'
  PROVE  OwnedInv'
<1>1. route'[h] = r /\ \A g \in Handlers \ {h} : route'[g] = route[g]
  BY DEF RouteInv
<1>2. \A g \in Handlers : route'[g].pc = "idle" => ~route'[g].reserved
  BY <1>1 DEF OwnedInv
<1>3. ASSUME NEW b \in Approvals, reservation'[b].status = "RESERVED", b \notin orphaned'
      PROVE  \E g \in Handlers : route'[g].approval = b /\ route'[g].reserved
  <2>1. CASE r.approval = b /\ r.reserved
    BY <1>1, <2>1
  <2>2. CASE reservation[b].status = "RESERVED" /\ (b # Mine(h) \/ ~route[h].reserved)
    <3>1. b \notin orphaned
      BY <1>3
    <3>2. PICK g \in Handlers : route[g].approval = b /\ route[g].reserved
      BY <2>2, <3>1 DEF OwnedInv, OpenIsOwned
    <3>3. g # h
      BY <2>2, <3>2 DEF Mine
    <3> QED BY <1>1, <3>2, <3>3
  <2> QED BY <1>3, <2>1, <2>2
<1> QED BY <1>2, <1>3 DEF OwnedInv, OpenIsOwned

\* Steps that open no reservation and touch no request.
LEMMA OwnedRests ==
  ASSUME OwnedInv, UNCHANGED <<route, orphaned, reservation>>
  PROVE  OwnedInv'
BY DEF OwnedInv, OpenIsOwned

\* An answer leaves its own reservation settled, or in the open.
LEMMA OwnedAnswers ==
  ASSUME RouteInv, OwnedInv, NEW h \in Handlers, Answer(h),
         orphaned \subseteq orphaned', orphaned' \subseteq Approvals,
         \A b \in Approvals : b # Mine(h) => reservation'[b] = reservation[b],
         \/ ~route[h].reserved /\ reservation' = reservation
         \/ Mine(h) \in orphaned'
         \/ Mine(h) \in Approvals => reservation'[Mine(h)].status # "RESERVED"
  PROVE  OwnedInv'
<1>1. Waiting.pc = "idle" /\ ~Waiting.reserved
  BY DEF Waiting
<1>2. ASSUME NEW b \in Approvals, reservation'[b].status = "RESERVED", b \notin orphaned'
      PROVE  reservation[b].status = "RESERVED" /\ (b # Mine(h) \/ ~route[h].reserved)
  <2>1. CASE b = Mine(h)
    BY <1>2, <2>1
  <2>2. CASE b # Mine(h)
    BY <1>2, <2>2
  <2> QED BY <2>1, <2>2
<1>3. PICK r : r = Waiting
  OBVIOUS
<1>4. route' = [route EXCEPT ![h] = r] /\ (r.pc = "idle" => ~r.reserved)
  BY <1>1, <1>3 DEF Answer
<1> QED BY <1>2, <1>4, OwnedMoves

\* A request that goes on keeps its reservation.
LEMMA OwnedAdvances ==
  ASSUME RouteInv, OwnedInv, NEW h \in Handlers, NEW pc, pc # "idle", Advances(h, pc),
         UNCHANGED <<orphaned, reservation>>
  PROVE  OwnedInv'
<1>1. PICK r : r = [route[h] EXCEPT !.pc = pc]
  OBVIOUS
<1>2. route \in [Handlers -> RouteType] /\ route[h] \in RouteType
  BY DEF RouteInv
<1>3. r.pc = pc /\ r.approval = Mine(h) /\ r.reserved = route[h].reserved
  BY <1>1, <1>2 DEF RouteType, Mine
<1>4. route' = [route EXCEPT ![h] = r]
  BY <1>1, <1>2 DEF Advances
<1>5. orphaned' \subseteq Approvals
  BY DEF OwnedInv
<1> QED BY <1>3, <1>4, <1>5, OwnedMoves

\* A reservation that is made, or found, belongs to the request that asked for it.
LEMMA OwnedReserve ==
  ASSUME RouteInv, CreditTypes, PaidInv, OwnedInv, NEW h \in Handlers, ReserveCredit(h)
  PROVE  OwnedInv'
<1>1. ~route[h].reserved /\ orphaned' = orphaned /\ Mine(h) \in Approvals
  BY DEF ReserveCredit, InRoute, PaidInv, Covered, RouteInv, RouteServes
<1>2. CASE Advances(h, "research") /\ UNCHANGED creditVars
  BY <1>1, <1>2, OwnedAdvances DEF creditVars
<1>3. CASE route' = [route EXCEPT ![h].pc = "research", ![h].reserved = TRUE]
  <2>1. PICK r : r = [route[h] EXCEPT !.pc = "research", !.reserved = TRUE]
    OBVIOUS
  <2>2. route \in [Handlers -> RouteType] /\ route[h] \in RouteType
    BY DEF RouteInv
  <2>3. r.pc = "research" /\ r.approval = Mine(h) /\ r.reserved
    BY <2>1, <2>2 DEF RouteType, Mine
  <2>4. route' = [route EXCEPT ![h] = r]
    BY <1>3, <2>1, <2>2
  <2>5. \A b \in Approvals : b # Mine(h) => reservation'[b] = reservation[b]
    BY <1>1, <1>3 DEF ReserveCredit, Credits!NewReservation, CreditTypes, creditVars
  <2>6. orphaned' \subseteq Approvals
    BY <1>1 DEF OwnedInv
  <2> QED BY <1>1, <2>3, <2>4, <2>5, <2>6, OwnedMoves
<1> QED BY <1>2, <1>3 DEF ReserveCredit

\* Giving back settles the reservation of the request, whoever made it.
LEMMA GiveBackSettles ==
  ASSUME CreditTypes, NEW h \in Handlers, GiveBack(h)
  PROVE  /\ \A b \in Approvals : b # Mine(h) => reservation'[b] = reservation[b]
         /\ Mine(h) \in Approvals => reservation'[Mine(h)].status # "RESERVED"
BY DEF GiveBack, Credits!ReleaseReservation, creditVars, CreditTypes

\* So does a usable analysis, unless its consume aborts and the catch clause follows.
LEMMA OwnedUsable ==
  ASSUME RouteInv, CreditTypes, OwnedInv, NEW h \in Handlers, SettleUsable(h)
  PROVE  OwnedInv'
<1>1. orphaned' = orphaned /\ orphaned' \subseteq Approvals
  BY DEF SettleUsable, OwnedInv
<1>2. CASE Advances(h, "release") /\ UNCHANGED creditVars
  BY <1>1, <1>2, OwnedAdvances DEF creditVars
<1>3. CASE Answer(h) /\ Credits!ConsumeReservation(Mine(h))
  <2>1. \A b \in Approvals : b # Mine(h) => reservation'[b] = reservation[b]
    BY <1>3 DEF Credits!ConsumeReservation, CreditTypes
  <2>2. Mine(h) \in Approvals => reservation'[Mine(h)].status # "RESERVED"
    BY <1>3 DEF Credits!ConsumeReservation, CreditTypes
  <2> QED BY <1>1, <1>3, <2>1, <2>2, OwnedAnswers
<1>4. CASE /\ Answer(h) /\ UNCHANGED creditVars
           /\ ~route[h].reserved \/ reservation[Mine(h)].status # "RESERVED"
  BY <1>1, <1>4, OwnedAnswers DEF creditVars
<1> QED BY <1>2, <1>3, <1>4 DEF SettleUsable

LEMMA OwnedReturns ==
  ASSUME RouteInv, CreditTypes, OwnedInv, NEW h \in Handlers,
         SettleUnusable(h) \/ ReleaseAfterError(h)
  PROVE  OwnedInv'
<1>1. orphaned' = orphaned /\ orphaned' \subseteq Approvals
  BY DEF SettleUnusable, ReleaseAfterError, OwnedInv
<1>2. CASE GiveBack(h)
  <2>1. Answer(h)
    BY <1>2 DEF GiveBack
  <2> QED BY <1>1, <1>2, <2>1, GiveBackSettles, OwnedAnswers
<1>3. CASE Answer(h) /\ ~route[h].reserved /\ UNCHANGED creditVars
  BY <1>1, <1>3, OwnedAnswers DEF creditVars
<1> QED BY <1>2, <1>3 DEF SettleUnusable, ReleaseAfterError

\* A request that ends without settling gives its reservation up.
LEMMA OwnedAbandon ==
  ASSUME RouteInv, OwnedInv, NEW h \in Handlers, route[h].pc # "idle", Abandon(h),
         UNCHANGED reservation
  PROVE  OwnedInv'
<1>1. Mine(h) \in Approvals
  BY DEF RouteInv, RouteServes
<1>2. orphaned \subseteq orphaned' /\ orphaned' \subseteq Approvals
  BY <1>1 DEF Abandon, OwnedInv
<1>3. ~route[h].reserved \/ Mine(h) \in orphaned'
  BY DEF Abandon
<1> QED BY <1>2, <1>3, OwnedAnswers DEF Abandon

LEMMA OwnedStep ==
  ASSUME RouteInv, CP!LedgerInv, PaidInv, OwnedInv, [PaidNext]_paidVars
  PROVE  OwnedInv'
<1>0. CreditTypes
  BY LedgerTypes
<1>1. CASE UNCHANGED <<route, orphaned, reservation>>
  BY <1>1, OwnedRests
<1>2. ASSUME NEW s \in Grants, NEW n \in Amounts, GrantCredits(s, n)
      PROVE  UNCHANGED <<route, orphaned, reservation>>
  BY <1>2 DEF GrantCredits, Credits!CreditEntry, Credits!creditVars
<1>3. ASSUME NEW h \in Handlers, NEW a \in Approvals, NEW key \in Keys, Submit(h, a, key)
      PROVE  OwnedInv'
  <2>1. PICK r : r = [pc |-> "reserve", approval |-> a, key |-> key, reserved |-> FALSE]
    OBVIOUS
  <2>2. r.pc = "reserve" /\ route' = [route EXCEPT ![h] = r]
    BY <1>3, <2>1 DEF Submit
  <2>3. UNCHANGED <<orphaned, reservation>> /\ ~route[h].reserved /\ orphaned' \subseteq Approvals
    BY <1>3 DEF Submit, InRoute, creditVars, OwnedInv
  <2> QED BY <2>2, <2>3, OwnedMoves
<1>4. ASSUME NEW h \in Handlers, PaymentRequired(h) PROVE OwnedInv'
  <2>1. ~route[h].reserved
    BY <1>4 DEF PaymentRequired, InRoute, PaidInv, Covered
  <2>2. Answer(h) /\ UNCHANGED <<orphaned, reservation>> /\ orphaned' \subseteq Approvals
    BY <1>4 DEF PaymentRequired, creditVars, OwnedInv
  <2> QED BY <2>1, <2>2, OwnedAnswers
<1>5. ASSUME NEW h \in Handlers, BeginResearch(h) PROVE OwnedInv'
  BY <1>5, OwnedAdvances DEF BeginResearch, creditVars
<1>6. ASSUME NEW h \in Handlers, Serve(h) PROVE OwnedInv'
  <2>1. CASE Advance(h) /\ UNCHANGED <<creditVars, route, delivered, orphaned>>
    BY <1>1, <2>1 DEF creditVars
  <2> QED BY <1>0, <1>4, <1>5, <1>6, <2>1, OwnedReserve, OwnedUsable, OwnedReturns DEF Serve
<1>7. ASSUME NEW h \in Handlers, CreditFault(h) PROVE OwnedInv'
  <2>1. UNCHANGED reservation /\ route[h].pc # "idle"
    BY <1>7 DEF CreditFault, creditVars, Returned, InRoute
  <2>2. CASE Advances(h, "release") /\ UNCHANGED orphaned
    BY <2>1, <2>2, OwnedAdvances
  <2> QED BY <1>7, <2>1, <2>2, OwnedAbandon DEF CreditFault
<1>8. ASSUME NEW h \in Handlers, LoseRoute(h) PROVE OwnedInv'
  <2>1. UNCHANGED reservation /\ route[h].pc # "idle" /\ Abandon(h)
    BY <1>8 DEF LoseRoute, creditVars, InRoute
  <2> QED BY <2>1, OwnedAbandon
<1>9. CASE UNCHANGED <<creditVars, route, delivered, orphaned>>
  BY <1>1, <1>9 DEF creditVars
<1>10. CASE UNCHANGED paidVars
  BY <1>1, <1>10 DEF paidVars, creditVars
<1> QED BY <1>1, <1>2, <1>3, <1>6, <1>7, <1>8, <1>9, <1>10 DEF PaidNext

LEMMA OwnedStarts == PaidInit => OwnedInv
<1> SUFFICES ASSUME PaidInit PROVE OwnedInv
  OBVIOUS
<1>1. \A h \in Handlers : ~route[h].reserved
  BY DEF PaidInit, Waiting
<1>2. \A a \in Approvals : reservation[a].status = "NONE"
  BY DEF PaidInit, Credits!CreditInit, Credits!NoReservation
<1>3. orphaned = {}
  BY DEF PaidInit
<1> QED BY <1>1, <1>2, <1>3 DEF OwnedInv, OpenIsOwned

LEMMA PaidInvariant == PaidSpec => [](RouteInv /\ CP!LedgerInv /\ PaidInv /\ OwnedInv)
<1>1. PaidInit => PaidInv /\ OwnedInv
  BY PaidStarts, OwnedStarts
<1>2. RouteInv /\ CP!LedgerInv /\ PaidInv /\ OwnedInv /\ [PaidNext]_paidVars
        => PaidInv' /\ OwnedInv'
  BY PaidStep, OwnedStep
<1> QED BY <1>1, <1>2, PaidRoute, PaidLedger, PTL DEF PaidSpec

-----------------------------------------------------------------------------
(* What follows.                                                           *)

\* The composition has the types of its parts and of the route's own state.
THEOREM PaidTypeCorrect == PaidSpec => []PaidTypeOK
<1>1. CP!TypeOK => Credits!TypeOK
  BY DEF CP!TypeOK, Credits!TypeOK, CP!Entry, Credits!Entry, CP!Sources, Credits!Sources,
         CP!Events, Credits!Events, CP!ReservationStatus, Credits!ReservationStatus
<1>2. PaidInv => delivered \subseteq Approvals
  BY DEF PaidInv, DeliveredKnown
<1>3. RouteInv /\ CP!LedgerInv /\ PaidInv /\ OwnedInv => PaidTypeOK
  BY <1>1, <1>2 DEF OwnedInv, RouteInv, ResearchInv, CP!LedgerInv, PaidTypeOK, RouteType
<1> QED BY <1>3, PaidInvariant, PTL

\* completeReservation consumes a credit only for an analysis that exists: the
\* approval it was reserved for is finished, and evidence for the property it
\* unlocked is retained, whichever handlers ran, failed or were lost on the way.
THEOREM CreditBoughtEvidence == PaidSpec => []CreditBuysEvidence
BY PaidInvariant, PTL DEF PaidInv

\* reserveCredit, consumeCredit and releaseCredit leave no credit behind: one that is
\* still held belongs to a request under way, or to one that was lost or could not
\* give it back, whichever requests shared it.
THEOREM OpenReservationsOwned == PaidSpec => []OpenIsOwned
<1>1. OwnedInv => OpenIsOwned
  BY DEF OwnedInv
<1> QED BY <1>1, PaidInvariant, PTL

\* An analysis delivered without unlocking its property went out on a reservation
\* that had been given back: the route never delivers on an open one.
THEOREM FreeOnlyOnRelease == PaidSpec => []FreeOnlyAfterRelease
BY PaidInvariant, PTL DEF PaidInv

\* What is proved of the research service alone holds on the paid route as well: one
\* use of an approval, one lease holder, recorded requests, and backed evidence.
THEOREM RouteKeepsResearch ==
  PaidSpec => [](OneUse /\ LeaseExclusive /\ RequestsAccounted /\ EvidenceBacked)
<1>1. RouteInv => OneUse /\ LeaseExclusive /\ RequestsAccounted /\ EvidenceBacked
  BY OneUseFollows, LeaseExclusiveFollows, RequestsAccountedFollows
     DEF RouteInv, ResearchInv, DocumentsOK
<1> QED BY <1>1, PaidRoute, PTL

\* A finished approval and a recorded outcome stay as they are on the paid route too.
THEOREM RouteOutcomesFinal == PaidSpec => OutcomesFinal
<1>1. RouteInv /\ [PaidNext]_paidVars => FinalStays
  <2> SUFFICES ASSUME RouteInv, [PaidNext]_paidVars PROVE FinalStays
    OBVIOUS
  <2>1. CASE UNCHANGED <<approval, request>>
    BY <2>1, FinalQuiet
  <2>2. CASE Quoting \/ TimePasses
    BY <2>2, FinalOutside DEF RouteInv
  <2>3. ASSUME NEW h \in Handlers, Serve(h) PROVE FinalStays
    <3>1. CASE Advance(h)
      BY <3>1, FinalAdvance DEF RouteInv
    <3>2. CASE ~Advance(h)
      <4>1. UNCHANGED <<approval, request>>
        BY <2>3, <3>2 DEF Serve, ReserveCredit, PaymentRequired, BeginResearch, Call, SettleUsable,
                          SettleUnusable, ReleaseAfterError, researchVars, researchDocs
      <4> QED BY <4>1, <2>1
    <3> QED BY <3>1, <3>2
  <2>4. CASE UNCHANGED paidVars \/ \E s \in Grants, n \in Amounts : GrantCredits(s, n)
    BY <2>1, <2>4 DEF paidVars, GrantCredits, researchVars
  <2>5. CASE \/ \E h \in Handlers, a \in Approvals, key \in Keys : Submit(h, a, key)
             \/ \E h \in Handlers : CreditFault(h) \/ LoseRoute(h) \/ Fault(h)
    BY <2>1, <2>5 DEF Submit, CreditFault, LoseRoute, Fault, researchVars, researchDocs
  <2> QED BY <2>2, <2>3, <2>4, <2>5 DEF PaidNext
<1>2. PaidSpec => [][FinalStays]_researchVars
  BY <1>1, PaidRoute, PTL DEF PaidSpec
<1> QED BY <1>2, PTL DEF OutcomesFinal, FinalStays

\* No credit is made or lost on the paid route, the entitlement of a property names
\* the one reservation that paid for it, and the immutable entries add up to the
\* balance and the credits held, however many handlers raced.
THEOREM RouteConservesCredits ==
  PaidSpec => [](Credits!BalanceConserved /\ Credits!ChargedOnce /\ Credits!LedgerAgrees)
<1>1. Credits!Held = CP!Held /\ Credits!Unlocked = CP!Unlocked
  BY DEF Credits!Held, CP!Held, Credits!Unlocked, CP!Unlocked
<1>2. Credits!Spendable = CP!Spendable
  BY <1>1, SameCardinality DEF Credits!Spendable, CP!Spendable
<1>3. CP!LedgerInv => Credits!BalanceConserved /\ Credits!ChargedOnce
  BY <1>2 DEF CP!LedgerInv, CP!BalanceConserved, Credits!BalanceConserved, CP!ChargedOnce,
              Credits!ChargedOnce
<1>4. PaidInit => CP!LedgerAgrees
  <2>1. PaidInit => CP!Init
    BY SameLedger DEF PaidInit, Credits!Init
  <2> QED BY <2>1, LedgerAssumptions, CP!AgreesInit
<1>5. CP!LedgerInv /\ CP!LedgerAgrees /\ [CP!Next]_CP!vars => CP!LedgerAgrees'
  BY LedgerAssumptions, CP!AgreesStep
<1>6. RouteInv /\ [PaidNext]_paidVars => [CP!Next]_CP!vars
  BY LedgerStep, SameLedger
<1>7. CP!LedgerAgrees => Credits!LedgerAgrees
  <2>1. Credits!EntrySum(ledger) = CP!EntrySum(ledger)
    BY DEF Credits!EntrySum, CP!EntrySum, Credits!MapThenSumSet, CP!MapThenSumSet,
           Credits!MapThenFoldSet, CP!MapThenFoldSet
  <2> QED BY <1>1, <2>1, SameCardinality DEF CP!LedgerAgrees, Credits!LedgerAgrees
<1> QED BY <1>3, <1>4, <1>5, <1>6, <1>7, PaidRoute, PaidLedger, PaidInvariant, PTL DEF PaidSpec
=============================================================================
