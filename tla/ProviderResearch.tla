--------------------------- MODULE ProviderResearch ---------------------------
(***************************************************************************)
(* Approved provider research of one organization:                         *)
(* src/src/investment-workspace/firestore-production-research.js with the  *)
(* RentCast client and the retained-evidence store it calls.               *)
(*                                                                         *)
(* A user first gets a quote, which creates a PENDING approval that names  *)
(* the address, the planned operations and the provider activity disclosed *)
(* to the user.  research() then runs in an HTTP handler: it reads the     *)
(* approval, compares the provider activity with the disclosed one, takes  *)
(* a lease on the address and the operation set, starts the approval,      *)
(* performs the operations in order (each from the evidence in hand, from  *)
(* the shared cache, or by a recorded provider request), stores the        *)
(* evidence, finishes the approval and gives the lease back.  Every await  *)
(* of a document or of the provider ends an action, so that handlers on    *)
(* any number of function instances interleave between them; an instance   *)
(* may be lost at any point and a call to the database may throw.          *)
(***************************************************************************)
EXTENDS Integers, Sequences, FiniteSets

CONSTANTS
  Handlers,      \* request handlers of all function instances
  Approvals,     \* approval identities
  Properties,    \* normalized addresses
  Operations,    \* "propertyRecords", "valuation", "comparableSales"
  Plans,         \* the operation sequences a quote is asked for
  Refreshes,     \* the values of the quote's refresh flag
  Keys,          \* idempotency keys sent by clients
  ValidKeys,     \* the keys that pass the format check
  MinuteLimit,   \* provider requests per minute (10 in the code)
  MaxMishaps,    \* bound on lost handlers and failing writes together
  MaxLost,       \* how many of them may be handlers lost with their instance
  Nobody         \* no lease holder

Records == "propertyRecords"

ASSUME PlanAssumption ==
  /\ Records \in Operations
  /\ \A plan \in Plans : /\ plan \in Seq(Operations)
                         /\ Len(plan) \in 1..3
                         /\ \A i, j \in 1..Len(plan) : plan[i] = plan[j] => i = j

ASSUME ResearchAssumption ==
  /\ Refreshes \subseteq BOOLEAN
  /\ ValidKeys \subseteq Keys
  /\ MinuteLimit \in Nat \ {0}
  /\ MaxLost \in Nat /\ MaxMishaps \in Nat
  /\ Nobody \notin Handlers

VARIABLES
  approval,    \* providerResearchApprovals
  lease,       \* providerResearchLocks: the holder of each lease
  live,        \* the leases that have not passed their 50 seconds
  request,     \* providerResearchRequests: status by approval and operation
  minute,      \* providerResearchUsage of the current minute
  responses,   \* providerResearchResponses: immutable, by property, operation, match
  cache,       \* providerResearchCacheIndexes: the match of the latest response
  retained,    \* retained evidence: the immutable snapshots of a property
  job,         \* the local state of each handler inside research(); leased is
               \* auxiliary: the fifty seconds of its own lease are not over
  calls,       \* auxiliary: HTTP requests sent to the provider
  undisclosed, \* auxiliary: requests reserved against an outdated disclosure
  lost,        \* handlers lost so far
  faults       \* database calls that threw so far

researchDocs == <<approval, lease, live, request, minute, responses, cache, retained>>
researchAux  == <<calls, undisclosed, lost, faults>>
researchVars == <<approval, lease, live, request, minute, responses, cache,
                  retained, job, calls, undisclosed, lost, faults>>

-----------------------------------------------------------------------------
(* Documents and handlers.                                                 *)

OpsOf(plan) == {plan[i] : i \in 1..Len(plan)}

NoApproval == [status |-> "NONE", property |-> "", plan |-> <<>>, refresh |-> FALSE,
               known |-> {}, seen |-> {}, billable |-> FALSE, expired |-> FALSE]

Idle == [pc |-> "idle", approval |-> "", key |-> "", todo |-> <<>>, have |-> {},
         touched |-> FALSE, ok |-> FALSE, got |-> "", leased |-> FALSE,
         result |-> "none"]

RequestKeys == Approvals \X Operations
LeaseKeys   == Properties \X {OpsOf(plan) : plan \in Plans}

\* The property, the lease and the pending operation of a handler's approval.
MyApproval(h) == approval[job[h].approval]
MyProperty(h) == MyApproval(h).property
MyLease(h)    == <<MyProperty(h), OpsOf(MyApproval(h).plan)>>
MyOp(h)       == Head(job[h].todo)
MyRequest(h)  == <<job[h].approval, MyOp(h)>>

\* recentActivity: the recorded requests for an address, with their outcomes.
\* (The seven-day window never closes within a behaviour of the model.)
Activity(p) ==
  {<<k, request[k]>> : k \in {x \in RequestKeys : /\ approval[x[1]].property = p
                                                  /\ request[x] # "NONE"}}

Init ==
  /\ approval = [a \in Approvals |-> NoApproval]
  /\ lease = [k \in LeaseKeys |-> Nobody]
  /\ live = {}
  /\ request = [k \in RequestKeys |-> "NONE"]
  /\ minute = 0
  /\ responses = {}
  /\ cache = [c \in Properties \X Operations |-> "none"]
  /\ retained = [p \in Properties |-> {}]
  /\ job = [h \in Handlers |-> Idle]
  /\ calls = [k \in RequestKeys |-> 0]
  /\ undisclosed = {}
  /\ lost = 0
  /\ faults = 0

-----------------------------------------------------------------------------
(* The quote, and the passing of time.                                     *)

\* quote: what the plan needs is decided on the evidence the user starts from
\* (a retained snapshot, or none) and on the cache; if a provider request is
\* needed, the recent activity is disclosed and kept with the approval.
Quote(a, p, plan, refresh, known) ==
  LET atHand(op) == ~refresh /\ (op \in known \/ cache[<<p, op>>] # "none")
      needed     == \E op \in OpsOf(plan) : ~atHand(op)
  IN  /\ approval[a].status = "NONE"
      /\ known \in retained[p] \cup {{}}
      /\ approval' = [approval EXCEPT ![a] =
           [status |-> "PENDING", property |-> p, plan |-> plan, refresh |-> refresh,
            known |-> known, seen |-> IF needed THEN Activity(p) ELSE {},
            billable |-> needed, expired |-> FALSE]]
      /\ UNCHANGED <<lease, live, request, minute, responses, cache, retained, job, researchAux>>

\* Ten minutes have passed since the quote.
ExpireApproval(a) ==
  /\ approval[a].status = "PENDING"
  /\ ~approval[a].expired
  /\ approval' = [approval EXCEPT ![a].expired = TRUE]
  /\ UNCHANGED <<lease, live, request, minute, responses, cache, retained, job, researchAux>>

\* Fifty seconds have passed since a lease was taken.
ExpireLease(k) ==
  /\ k \in live
  /\ live' = live \ {k}
  /\ job' = [h \in Handlers |->
               [job[h] EXCEPT !.leased = @ /\ MyLease(h) # k]]
  /\ UNCHANGED <<approval, lease, request, minute, responses, cache, retained, researchAux>>

\* The usage document of a new minute starts at zero.
NextMinute ==
  /\ minute > 0
  /\ minute' = 0
  /\ UNCHANGED <<approval, lease, live, request, responses, cache, retained, job, researchAux>>

-----------------------------------------------------------------------------
(* research(), up to the start of the approval.                            *)

At(h, pc)    == job[h].pc = pc
Usable(a)    == approval[a].status = "PENDING" /\ ~approval[a].expired
Goto(h, pc)  == job' = [job EXCEPT ![h].pc = pc]
Refuse(h)    == job' = [job EXCEPT ![h].pc = "done", ![h].result = "error"]

\* getApproval: only a pending, unexpired approval goes on, to the comparison of
\* the activity if it needs a provider request.
Call(h, a, key) ==
  /\ At(h, "idle")
  /\ LET entered == [Idle EXCEPT !.approval = a, !.key = key]
     IN  job' = [job EXCEPT ![h] =
                   IF ~Usable(a) THEN [entered EXCEPT !.pc = "done", !.result = "error"]
                   ELSE [entered EXCEPT !.pc = IF approval[a].billable THEN "activity"
                                                                      ELSE "acquire"]]
  /\ UNCHANGED <<researchDocs, researchAux>>

\* RECENT_PROVIDER_ACTIVITY_CHANGED unless the activity is the disclosed one.
CheckActivity(h) ==
  /\ At(h, "activity")
  /\ IF Activity(MyProperty(h)) = MyApproval(h).seen THEN Goto(h, "acquire")
                                                     ELSE Refuse(h)
  /\ UNCHANGED <<researchDocs, researchAux>>

\* acquire: RESEARCH_ALREADY_IN_PROGRESS while somebody's lease is live.
Acquire(h) ==
  /\ At(h, "acquire")
  /\ IF lease[MyLease(h)] # Nobody /\ MyLease(h) \in live
     THEN Refuse(h) /\ UNCHANGED <<lease, live>>
     ELSE /\ lease' = [lease EXCEPT ![MyLease(h)] = h]
          /\ live' = live \cup {MyLease(h)}
          /\ job' = [job EXCEPT ![h].pc = "start", ![h].leased = TRUE]
  /\ UNCHANGED <<approval, request, minute, responses, cache, retained, researchAux>>

\* Mutant: the approval's status is not read again.
MayStartAgain(h) == job[h].key \in ValidKeys

\* startApproval: the transaction that makes an approval one-use.
MayStart(h) == job[h].key \in ValidKeys /\ Usable(job[h].approval)

\* Mutant: an approval that could not be started counts as started.
StartMarked(h) ==
  /\ At(h, "start")
  /\ IF MayStart(h)
     THEN /\ approval' = [approval EXCEPT ![job[h].approval].status = "IN_FLIGHT"]
          /\ job' = [job EXCEPT ![h].pc = "perform", ![h].todo = MyApproval(h).plan,
                                ![h].have = MyApproval(h).known]
     ELSE /\ Goto(h, "fail")
          /\ UNCHANGED approval
  /\ UNCHANGED <<lease, live, request, minute, responses, cache, retained, researchAux>>

Start(h) ==
  /\ At(h, "start")
  /\ IF MayStart(h)
     THEN /\ approval' = [approval EXCEPT ![job[h].approval].status = "IN_FLIGHT"]
          /\ job' = [job EXCEPT ![h].pc = "perform", ![h].todo = MyApproval(h).plan,
                                ![h].have = MyApproval(h).known]
     ELSE /\ job' = [job EXCEPT ![h].pc = "unlock", ![h].result = "error"]
          /\ UNCHANGED approval
  /\ UNCHANGED <<lease, live, request, minute, responses, cache, retained, researchAux>>

-----------------------------------------------------------------------------
(* The loop over the planned operations.                                   *)

\* Without property records there is nothing to merge another operation into.
NoSubject(h)  == MyOp(h) # Records /\ Records \notin job[h].have
InHand(h)     == ~MyApproval(h).refresh /\ MyOp(h) \in job[h].have
Cached(h)     == ~MyApproval(h).refresh /\ cache[<<MyProperty(h), MyOp(h)>>] # "none"

\* An operation succeeded: its response is merged into the evidence.  New
\* property records replace the evidence in hand.
Merged(h) == [job[h] EXCEPT
  !.pc = "perform", !.todo = Tail(job[h].todo), !.ok = TRUE, !.touched = TRUE,
  !.have = IF MyOp(h) = Records THEN {Records} ELSE job[h].have \cup {MyOp(h)}]

\* An operation is unavailable; without property records the evidence is dropped.
Unavailable(h) == [job[h] EXCEPT
  !.pc = "perform", !.todo = Tail(job[h].todo),
  !.have = IF MyOp(h) = Records THEN {} ELSE job[h].have]

\* Mutant: the match of a response is not looked at.
MergeAnything(h, response) == Merged(h)

\* A cached response is merged unless it does not match the address.
Merge(h, response) == IF response = "good" THEN Merged(h) ELSE Unavailable(h)

Performing(h) == At(h, "perform") /\ job[h].todo # <<>>

\* The operation cannot be done, is answered by the evidence in hand, or is
\* answered by the cache.
PerformLocally(h) ==
  /\ Performing(h)
  /\ \/ /\ NoSubject(h)
        /\ job' = [job EXCEPT ![h].todo = Tail(job[h].todo)]
     \/ /\ ~NoSubject(h) /\ InHand(h)
        /\ job' = [job EXCEPT ![h].todo = Tail(job[h].todo), ![h].ok = TRUE]
     \/ /\ ~NoSubject(h) /\ ~InHand(h) /\ Cached(h)
        /\ job' = [job EXCEPT ![h] = Merge(h, cache[<<MyProperty(h), MyOp(h)>>])]
  /\ UNCHANGED <<researchDocs, researchAux>>

MustRequest(h) == Performing(h) /\ ~NoSubject(h) /\ ~InHand(h) /\ ~Cached(h)

\* Requests of other approvals that the user of this one was not told about.
Undisclosed(h) ==
  {x \in Activity(MyProperty(h)) \ MyApproval(h).seen : x[1][1] # job[h].approval}

\* Mutant: the limit of the minute is off by one.
ReserveBeyond(h) ==
  /\ MustRequest(h)
  /\ minute <= MinuteLimit
  /\ minute' = minute + 1
  /\ request' = [request EXCEPT ![MyRequest(h)] = "RESERVED"]
  /\ Goto(h, "call")
  /\ UNCHANGED <<approval, lease, live, responses, cache, retained, researchAux>>

\* reserve: the usage is counted and a request record created.
Reserve(h) ==
  /\ MustRequest(h)
  /\ minute < MinuteLimit
  /\ minute' = minute + 1
  /\ request' = [request EXCEPT ![MyRequest(h)] = "RESERVED"]
  /\ undisclosed' = IF Undisclosed(h) = {} THEN undisclosed
                                           ELSE undisclosed \cup {job[h].approval}
  /\ Goto(h, "call")
  /\ UNCHANGED <<approval, lease, live, responses, cache, retained, calls, lost, faults>>

\* RATE_LIMIT_STOP: no record, the operation is unavailable.
RateLimited(h) ==
  /\ MustRequest(h)
  /\ minute >= MinuteLimit
  /\ job' = [job EXCEPT ![h] = Unavailable(h)]
  /\ UNCHANGED <<researchDocs, researchAux>>

\* The client looks into the cache itself, whatever the approval's refresh flag.
AnsweredByCache(h) ==
  /\ At(h, "call")
  /\ cache[<<MyProperty(h), MyOp(h)>>] # "none"
  /\ job' = [job EXCEPT ![h].pc = "complete", ![h].got = cache[<<MyProperty(h), MyOp(h)>>]]
  /\ UNCHANGED <<researchDocs, researchAux>>

\* The client found nothing in the cache and sends the HTTP request.
Transmit(h) ==
  /\ At(h, "call")
  /\ cache[<<MyProperty(h), MyOp(h)>>] = "none"
  /\ calls' = [calls EXCEPT ![MyRequest(h)] = @ + 1]
  /\ Goto(h, "wire")
  /\ UNCHANGED <<researchDocs, undisclosed, lost, faults>>

\* A response with status 200 is stored and indexed, whether it matches the
\* address ("good") or not ("bad"); an error or a timeout leaves nothing.
Receive(h) ==
  /\ At(h, "wire")
  /\ \/ \E match \in {"good", "bad"} :
          /\ responses' = responses \cup {<<MyProperty(h), MyOp(h), match>>}
          /\ cache' = [cache EXCEPT ![<<MyProperty(h), MyOp(h)>>] = match]
          /\ job' = [job EXCEPT ![h].pc = "complete", ![h].got = match]
     \/ /\ job' = [job EXCEPT ![h].pc = "complete", ![h].got = "none"]
        /\ UNCHANGED <<responses, cache>>
  /\ UNCHANGED <<approval, lease, live, request, minute, retained, researchAux>>

\* QUOTA_BUDGET_STOP: the instance's client has used up its calls.
ClientStops(h) ==
  /\ At(h, "call")
  /\ cache[<<MyProperty(h), MyOp(h)>>] = "none"
  /\ job' = [job EXCEPT ![h].pc = "complete", ![h].got = "none"]
  /\ UNCHANGED <<researchDocs, researchAux>>

\* Mutant: the outcome of a failed request is not written.
CompleteSuccess(h) ==
  /\ At(h, "complete")
  /\ request' = [request EXCEPT ![MyRequest(h)] =
                   IF job[h].got = "good" THEN "COMPLETE" ELSE @]
  /\ job' = [job EXCEPT ![h] = [Merge(h, job[h].got) EXCEPT !.got = ""]]
  /\ UNCHANGED <<approval, lease, live, minute, responses, cache, retained, researchAux>>

\* complete: the outcome is written to the request record.
Complete(h) ==
  /\ At(h, "complete")
  /\ request' = [request EXCEPT ![MyRequest(h)] =
                   IF job[h].got = "good" THEN "COMPLETE" ELSE "FAILED"]
  /\ job' = [job EXCEPT ![h] = [Merge(h, job[h].got) EXCEPT !.got = ""]]
  /\ UNCHANGED <<approval, lease, live, minute, responses, cache, retained, researchAux>>

-----------------------------------------------------------------------------
(* The end of research().                                                  *)

\* Changed evidence is stored as a new immutable snapshot of the property.
Persist(h) ==
  /\ At(h, "perform") /\ job[h].todo = <<>>
  /\ retained' = IF job[h].have # {} /\ job[h].touched
                 THEN [retained EXCEPT ![MyProperty(h)] = @ \cup {job[h].have}]
                 ELSE retained
  /\ Goto(h, "finish")
  /\ UNCHANGED <<approval, lease, live, request, minute, responses, cache, researchAux>>

\* The outcome is usable when it names a property and some operation was
\* available (COMPLETE or PARTIAL).
Finish(h) ==
  /\ At(h, "finish")
  /\ approval' = [approval EXCEPT ![job[h].approval].status = "COMPLETE"]
  /\ job' = [job EXCEPT ![h].pc = "unlock",
                        ![h].result = IF job[h].have # {} /\ job[h].ok
                                      THEN "usable" ELSE "unusable"]
  /\ UNCHANGED <<lease, live, request, minute, responses, cache, retained, researchAux>>

\* A call to the database throws (and has changed nothing).  Before the lease is
\* taken research() just throws.
FailsEarly(h) ==
  /\ job[h].pc \in {"activity", "acquire"}
  /\ Refuse(h)

\* In the loop: a cache lookup ends research(), a reservation that fails makes the
\* operation unavailable.  When the success of a request cannot be recorded, its
\* response has been merged already and the failure is recorded next; when a
\* failure cannot be recorded, research() ends.
FailsInLoop(h) ==
  \/ /\ Performing(h) /\ ~NoSubject(h) /\ ~InHand(h) /\ ~MyApproval(h).refresh
     /\ Goto(h, "fail")
  \/ /\ MustRequest(h)
     /\ job' = [job EXCEPT ![h] = Unavailable(h)]
  \/ /\ At(h, "complete") /\ job[h].got = "good"
     /\ job' = [job EXCEPT ![h].got = "unsaved", ![h].touched = TRUE,
                           ![h].have = Merged(h).have]
  \/ /\ At(h, "complete") /\ job[h].got # "good"
     /\ Goto(h, "fail")

\* After the loop: the evidence or the outcome is not written.  The lease is given
\* back whatever throws, unless giving it back is what throws.
FailsLate(h) ==
  \/ /\ At(h, "finish") \/ (At(h, "perform") /\ job[h].todo = <<>>)
     /\ Goto(h, "fail")
  \/ /\ job[h].pc \in {"start", "fail"}
     /\ job' = [job EXCEPT ![h].pc = "unlock", ![h].result = "error"]
  \/ /\ At(h, "unlock")
     /\ Refuse(h)

Fault(h) ==
  /\ lost + faults < MaxMishaps
  /\ faults' = faults + 1
  /\ FailsEarly(h) \/ FailsInLoop(h) \/ FailsLate(h)
  /\ UNCHANGED <<researchDocs, calls, undisclosed, lost>>

\* Mutant: the catch clause does not finish the approval.
FailSilently(h) ==
  /\ At(h, "fail")
  /\ job' = [job EXCEPT ![h].pc = "unlock", ![h].result = "error"]
  /\ UNCHANGED <<researchDocs, researchAux>>

\* The catch clause marks a started approval as failed.
Fail(h) ==
  /\ At(h, "fail")
  /\ approval' = [approval EXCEPT ![job[h].approval].status = "FAILED"]
  /\ job' = [job EXCEPT ![h].pc = "unlock", ![h].result = "error"]
  /\ UNCHANGED <<lease, live, request, minute, responses, cache, retained, researchAux>>

\* Mutant: the lease is deleted whoever holds it.
UnlockAnybody(h) ==
  /\ At(h, "unlock")
  /\ lease' = [lease EXCEPT ![MyLease(h)] = Nobody]
  /\ live' = live \ {MyLease(h)}
  /\ job' = [job EXCEPT ![h].pc = "done", ![h].leased = FALSE]
  /\ UNCHANGED <<approval, request, minute, responses, cache, retained, researchAux>>

\* The finally clause deletes the lease, if it is still this handler's.
Unlock(h) ==
  /\ At(h, "unlock")
  /\ IF lease[MyLease(h)] = h
     THEN /\ lease' = [lease EXCEPT ![MyLease(h)] = Nobody]
          /\ live' = live \ {MyLease(h)}
     ELSE UNCHANGED <<lease, live>>
  /\ job' = [job EXCEPT ![h].pc = "done", ![h].leased = FALSE]
  /\ UNCHANGED <<approval, request, minute, responses, cache, retained, researchAux>>

Return(h) ==
  /\ At(h, "done")
  /\ job' = [job EXCEPT ![h] = Idle]
  /\ UNCHANGED <<researchDocs, researchAux>>

\* The function instance is lost with everything its handler remembers.
Lose(h) ==
  /\ ~At(h, "idle")
  /\ lost < MaxLost /\ lost + faults < MaxMishaps
  /\ lost' = lost + 1
  /\ job' = [job EXCEPT ![h] = Idle]
  /\ UNCHANGED <<researchDocs, calls, undisclosed, faults>>

-----------------------------------------------------------------------------

\* What a handler does inside research() when nothing fails.
Advance(h) ==
  \/ CheckActivity(h) \/ Acquire(h) \/ Start(h)
  \/ PerformLocally(h) \/ Reserve(h) \/ RateLimited(h)
  \/ AnsweredByCache(h) \/ Transmit(h) \/ Receive(h) \/ ClientStops(h) \/ Complete(h)
  \/ Persist(h) \/ Finish(h) \/ Fail(h) \/ Unlock(h)

Quoting ==
  \E a \in Approvals, p \in Properties, plan \in Plans, refresh \in Refreshes :
    \E known \in retained[p] \cup {{}} : Quote(a, p, plan, refresh, known)

TimePasses ==
  \/ \E a \in Approvals : ExpireApproval(a)
  \/ \E k \in LeaseKeys : ExpireLease(k)
  \/ NextMinute

Next ==
  \/ Quoting
  \/ TimePasses
  \/ \E h \in Handlers, a \in Approvals, key \in Keys : Call(h, a, key)
  \/ \E h \in Handlers : Advance(h) \/ Fault(h) \/ Return(h) \/ Lose(h)

Spec == Init /\ [][Next]_researchVars

\* A handler that is not lost runs on: every await it is in returns or throws.
FairSpec == Spec /\ \A h \in Handlers : WF_researchVars(Advance(h))

-----------------------------------------------------------------------------
(* Properties.                                                             *)

ApprovalStatus == {"NONE", "PENDING", "IN_FLIGHT", "COMPLETE", "FAILED"}
RequestStatus  == {"NONE", "RESERVED", "COMPLETE", "FAILED"}
Places == {"idle", "activity", "acquire", "start", "perform", "call", "wire",
           "complete", "finish", "fail", "unlock", "done"}

\* Every document and every handler's local state has its shape.
TypeOK ==
  /\ approval \in [Approvals -> [status : ApprovalStatus,
                                 property : Properties \cup {""},
                                 plan : Plans \cup {<<>>},
                                 refresh : BOOLEAN,
                                 known : SUBSET Operations,
                                 seen : SUBSET (RequestKeys \X RequestStatus),
                                 billable : BOOLEAN,
                                 expired : BOOLEAN]]
  /\ lease \in [LeaseKeys -> Handlers \cup {Nobody}]
  /\ live \subseteq LeaseKeys
  /\ request \in [RequestKeys -> RequestStatus]
  /\ minute \in 0..MinuteLimit
  /\ responses \subseteq Properties \X Operations \X {"good", "bad"}
  /\ cache \in [Properties \X Operations -> {"none", "good", "bad"}]
  /\ retained \in [Properties -> SUBSET (SUBSET Operations)]
  /\ job \in [Handlers -> [pc : Places,
                           approval : Approvals \cup {""},
                           key : Keys \cup {""},
                           todo : Seq(Operations),
                           have : SUBSET Operations,
                           touched : BOOLEAN,
                           ok : BOOLEAN,
                           got : {"", "good", "bad", "none", "unsaved"},
                           leased : BOOLEAN,
                           result : {"none", "error", "usable", "unusable"}]]
  /\ calls \in [RequestKeys -> Nat]
  /\ undisclosed \subseteq Approvals
  /\ lost \in Nat /\ faults \in Nat

\* Between startApproval and the end of the loop: the provider may be called.
Running(h) == job[h].pc \in {"perform", "call", "wire", "complete", "finish", "fail"}

\* An approval is one-use: however often it is submitted and whatever fails, no
\* two handlers run it, and the provider gets each of its operations once.
OneUse ==
  /\ \A g, h \in Handlers :
       Running(g) /\ Running(h) /\ job[g].approval = job[h].approval => g = h
  /\ \A k \in RequestKeys : calls[k] <= 1

\* The lease: of two handlers at work on one address and operation set, one has
\* outlived its fifty seconds.  Giving back an outlived lease must not free the
\* lease of the handler that took over.
LeaseExclusive ==
  \A g, h \in Handlers :
    (/\ g # h /\ Running(g) /\ Running(h) /\ MyLease(g) = MyLease(h))
      => ~(job[g].leased /\ job[h].leased)

\* A completed approval leaves no request record open, and an approval under way
\* has recorded every call to the provider before it was made.  A failed approval
\* may keep records that say RESERVED: nobody completes them after the exception.
RequestsAccounted ==
  \A a \in Approvals, op \in Operations :
    /\ approval[a].status = "COMPLETE" => request[<<a, op>>] # "RESERVED"
    /\ calls[<<a, op>>] > 0 => request[<<a, op>>] # "NONE"
    /\ request[<<a, op>>] # "NONE" => /\ approval[a].billable
                                      /\ op \in OpsOf(approval[a].plan)

\* Every retained snapshot rests on immutable responses that match the address,
\* and on property records; a failed lookup never leaves evidence behind.
EvidenceBacked ==
  \A p \in Properties : \A snapshot \in retained[p] :
    /\ Records \in snapshot
    /\ \A op \in snapshot : <<p, op, "good">> \in responses

\* A finished approval is never reopened, and a recorded outcome never changes.
OutcomesFinal ==
  [][/\ \A a \in Approvals :
          approval[a].status \in {"COMPLETE", "FAILED"} => approval'[a] = approval[a]
     /\ \A k \in RequestKeys :
          request[k] \in {"COMPLETE", "FAILED"} => request'[k] = request[k]]_researchVars

\* An approval that was started is concluded, wherever the database throws on the
\* way, as long as its handler is not lost and the catch clause's own write does
\* not fail as well: nothing else leaves it in flight for ever.
ResearchConcludes ==
  \A a \in Approvals :
    approval[a].status = "IN_FLIGHT"
      ~> approval[a].status \in {"COMPLETE", "FAILED"} \/ faults > 1

\* What the test suite says of the activity check: a user is warned afresh when
\* another request for the same property appeared after the approval.
FreshWarning == undisclosed = {}
=============================================================================
