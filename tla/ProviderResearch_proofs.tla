------------------------ MODULE ProviderResearch_proofs ------------------------
(***************************************************************************)
(* Proofs about ProviderResearch, for any number of handlers, approvals,   *)
(* addresses and operations.                                               *)
(*                                                                         *)
(* The inductive invariant is ResearchInv.  It says of each handler what   *)
(* its place in research() promises (JobOK), of the documents what they    *)
(* promise each other (DocumentsOK), and that nobody runs an approval or   *)
(* holds a lease twice.  A step of one handler does not disturb another    *)
(* one, because the documents only grow (Grows) and because the requests   *)
(* of an approval belong to the one handler that runs it (Steady).         *)
(***************************************************************************)
EXTENDS ProviderResearch, TLAPS

-----------------------------------------------------------------------------
(* Shapes.                                                                 *)

ApprovalType ==
  [status : ApprovalStatus, property : Properties \cup {""}, plan : Plans \cup {<<>>},
   refresh : BOOLEAN, known : SUBSET Operations,
   seen : SUBSET (RequestKeys \X RequestStatus), billable : BOOLEAN, expired : BOOLEAN]

JobType ==
  [pc : Places, approval : Approvals \cup {""}, key : Keys \cup {""},
   todo : Seq(Operations), have : SUBSET Operations, touched : BOOLEAN, ok : BOOLEAN,
   got : {"", "good", "bad", "none", "unsaved"}, leased : BOOLEAN,
   result : {"none", "error", "usable", "unusable"}]

\* Everything TypeOK says but the types of the handlers.
DocumentsTypeOK ==
  /\ approval \in [Approvals -> ApprovalType]
  /\ lease \in [LeaseKeys -> Handlers \cup {Nobody}]
  /\ live \subseteq LeaseKeys
  /\ request \in [RequestKeys -> RequestStatus]
  /\ minute \in 0..MinuteLimit
  /\ responses \subseteq Properties \X Operations \X {"good", "bad"}
  /\ cache \in [Properties \X Operations -> {"none", "good", "bad"}]
  /\ retained \in [Properties -> SUBSET (SUBSET Operations)]
  /\ calls \in [RequestKeys -> Nat]
  /\ undisclosed \subseteq Approvals
  /\ lost \in Nat /\ faults \in Nat

\* TypeOK in two parts.
LEMMA TypeParts == TypeOK <=> DocumentsTypeOK /\ job \in [Handlers -> JobType]
BY DEF TypeOK, DocumentsTypeOK, ApprovalType, JobType

-----------------------------------------------------------------------------
(* What the documents promise.                                             *)

\* An approval that exists is for a property and a plan, and starts from evidence
\* that is retained, or from none.
ApprovalsKnown ==
  \A a \in Approvals : approval[a].status # "NONE" =>
    /\ approval[a].property \in Properties
    /\ approval[a].plan \in Plans
    /\ approval[a].known \in retained[approval[a].property] \cup {{}}

\* Requests are made for approvals that were started and needed them, once for
\* each planned operation, and a call to the provider was recorded before.
RequestsKnown ==
  \A a \in Approvals, op \in Operations :
    /\ approval[a].status \in {"NONE", "PENDING"} => request[<<a, op>>] = "NONE"
    /\ request[<<a, op>>] = "NONE" => calls[<<a, op>>] = 0
    /\ calls[<<a, op>>] <= 1
    /\ approval[a].status = "COMPLETE" => request[<<a, op>>] # "RESERVED"
    /\ request[<<a, op>>] # "NONE" => /\ approval[a].billable
                                      /\ op \in OpsOf(approval[a].plan)

\* The cache points at responses that were stored.
CacheBacked ==
  \A p \in Properties, op \in Operations :
    cache[<<p, op>>] = "good" => <<p, op, "good">> \in responses

\* A plan that was quoted as free of provider requests needs none: each operation
\* is part of the evidence it starts from or is cached.
FreePlans ==
  \A a \in Approvals : approval[a].status # "NONE" /\ ~approval[a].billable =>
    /\ ~approval[a].refresh
    /\ \A op \in OpsOf(approval[a].plan) :
         \/ op \in approval[a].known
         \/ cache[<<approval[a].property, op>>] # "none"

DocumentsOK ==
  ApprovalsKnown /\ RequestsKnown /\ CacheBacked /\ EvidenceBacked /\ FreePlans

-----------------------------------------------------------------------------
(* What the place of a handler promises.  These speak of a local state j,  *)
(* so that they can be carried from one state of the documents to another. *)

Working == {"perform", "call", "wire", "complete", "finish", "fail"}
Asking  == {"call", "wire", "complete"}

\* A handler that is not idle serves an approval, one that exists until it is
\* done; an idle one remembers nothing.
JobServes(j) ==
  /\ j.pc = "idle" => j = Idle
  /\ j.pc # "idle" => j.approval \in Approvals
  /\ j.pc \notin {"idle", "done"} => approval[j.approval].status # "NONE"

\* A usable result stands for a finished approval with evidence.
JobUsable(j) ==
  j.result = "usable" =>
    /\ j.approval \in Approvals
    /\ approval[j.approval].status = "COMPLETE"
    /\ retained[approval[j.approval].property] # {}

\* The operations left are operations of the plan, each of them once.
JobPlan(j) ==
  j.pc \in Working =>
    /\ approval[j.approval].status = "IN_FLIGHT"
    /\ \A i \in 1..Len(j.todo) : j.todo[i] \in OpsOf(approval[j.approval].plan)
    /\ \A i, k \in 1..Len(j.todo) : j.todo[i] = j.todo[k] => i = k
    /\ j.pc \in Asking => j.todo # <<>>

\* Nothing ahead has been requested; the only open request is the one asked now.
JobRequests(j) ==
  j.pc \in Working =>
    /\ \A i \in 1..Len(j.todo) :
         j.pc = "perform" \/ i > 1 => request[<<j.approval, j.todo[i]>>] = "NONE"
    /\ j.pc \in Asking => request[<<j.approval, Head(j.todo)>>] = "RESERVED"
    /\ j.pc = "call" => calls[<<j.approval, Head(j.todo)>>] = 0
    /\ j.pc # "fail" =>
         \A op \in Operations : request[<<j.approval, op>>] = "RESERVED" =>
           j.pc \in Asking /\ op = Head(j.todo)

\* The evidence in hand rests on responses that match and on property records.
JobEvidence(j) ==
  j.pc \in Working =>
    LET p == approval[j.approval].property
    IN  /\ j.have # {} => Records \in j.have
        /\ \A op \in j.have : <<p, op, "good">> \in responses
        /\ j.pc \in Asking /\ Head(j.todo) # Records => Records \in j.have
        /\ j.pc = "complete" /\ j.got \in {"good", "unsaved"}
             => <<p, Head(j.todo), "good">> \in responses
        /\ j.have # {} /\ (~j.touched \/ j.pc = "finish") => retained[p] # {}

\* A plan that was quoted as free of requests asks for none, because it never
\* loses the evidence it started from.
JobFree(j) ==
  j.pc \in Working /\ ~approval[j.approval].billable =>
    /\ j.pc \notin Asking
    /\ approval[j.approval].known \subseteq j.have

JobOK(j) ==
  /\ JobServes(j) /\ JobUsable(j) /\ JobPlan(j) /\ JobRequests(j)
  /\ JobEvidence(j) /\ JobFree(j)

\* Whoever has not outlived its lease holds it.
LeaseHeld(j, h) ==
  j.leased => LET k == <<approval[j.approval].property, OpsOf(approval[j.approval].plan)>>
              IN  /\ approval[j.approval].status # "NONE"
                  /\ k \in live /\ lease[k] = h

OneRunner ==
  \A g, h \in Handlers :
    job[g].pc \in Working /\ job[h].pc \in Working /\ job[g].approval = job[h].approval
      => g = h

ResearchInv ==
  /\ TypeOK
  /\ DocumentsOK
  /\ OneRunner
  /\ \A h \in Handlers : JobOK(job[h])
  /\ \A h \in Handlers : LeaseHeld(job[h], h)

-----------------------------------------------------------------------------
(* The documents only grow.                                                *)

\* A quote that was made stays what it is, a finished approval stays as it is,
\* responses, cache entries and retained evidence stay.
Grows ==
  /\ \A a \in Approvals : approval[a].status # "NONE" =>
       /\ approval'[a].status # "NONE"
       /\ approval'[a].property = approval[a].property
       /\ approval'[a].plan = approval[a].plan
       /\ approval'[a].refresh = approval[a].refresh
       /\ approval'[a].known = approval[a].known
       /\ approval'[a].billable = approval[a].billable
  /\ \A a \in Approvals :
       approval[a].status \in {"COMPLETE", "FAILED"} => approval'[a] = approval[a]
  /\ responses \subseteq responses'
  /\ \A p \in Properties, op \in Operations :
       cache[<<p, op>>] # "none" => cache'[<<p, op>>] # "none"
  /\ \A p \in Properties : retained[p] \subseteq retained'[p]

\* The approval and its requests are left alone.
Steady(a) ==
  /\ approval'[a].status = approval[a].status
  /\ \A op \in Operations : /\ request'[<<a, op>>] = request[<<a, op>>]
                             /\ calls'[<<a, op>>] = calls[<<a, op>>]

\* What a local state promises stays true while the documents grow, if the
\* approval it works on is left to it.
LEMMA JobStays ==
  ASSUME DocumentsTypeOK, ApprovalsKnown, Grows, NEW j \in JobType, JobOK(j),
         j.pc \in Working => Steady(j.approval)
  PROVE  JobOK(j)'
<1> DEFINE a == j.approval
<1>1. JobServes(j)'
  BY DEF JobOK, JobServes, Grows
<1>2. JobUsable(j)'
  <2> SUFFICES ASSUME j.result = "usable"
      PROVE  a \in Approvals /\ approval'[a].status = "COMPLETE" /\ retained'[approval'[a].property] # {}
    BY DEF JobUsable
  <2>1. a \in Approvals /\ approval[a].status = "COMPLETE" /\ retained[approval[a].property] # {}
    BY DEF JobOK, JobUsable
  <2>2. approval'[a] = approval[a] /\ approval[a].property \in Properties
    BY <2>1 DEF Grows, ApprovalsKnown
  <2> QED BY <2>1, <2>2 DEF Grows
<1>3. ASSUME j.pc \in Working
      PROVE  /\ a \in Approvals /\ approval[a].status = "IN_FLIGHT"
             /\ approval[a].property \in Properties
             /\ approval'[a].status = "IN_FLIGHT"
             /\ approval'[a].property = approval[a].property
             /\ approval'[a].plan = approval[a].plan
             /\ approval'[a].known = approval[a].known
             /\ approval'[a].billable = approval[a].billable
             /\ \A op \in Operations : /\ request'[<<a, op>>] = request[<<a, op>>]
                                        /\ calls'[<<a, op>>] = calls[<<a, op>>]
  <2>1. a \in Approvals
    BY <1>3 DEF Working, JobOK, JobServes
  <2>2. approval[a].status = "IN_FLIGHT"
    BY <1>3 DEF JobOK, JobPlan
  <2> QED BY <1>3, <2>1, <2>2 DEF Grows, Steady, ApprovalsKnown
<1>4. JobPlan(j)'
  BY <1>3 DEF JobOK, JobPlan
<1>5. JobRequests(j)'
  <2> SUFFICES ASSUME j.pc \in Working PROVE JobRequests(j)'
    BY DEF JobRequests
  <2>0. j.todo \in Seq(Operations)
    BY DEF JobType
  <2>1. \A i \in 1..Len(j.todo) : j.todo[i] \in Operations
    BY <2>0
  <2>2. j.pc \in Asking => Head(j.todo) \in Operations
    BY <2>0 DEF JobOK, JobPlan
  <2>3. /\ \A op \in Operations : request'[<<a, op>>] = request[<<a, op>>]
        /\ \A op \in Operations : calls'[<<a, op>>] = calls[<<a, op>>]
    BY <1>3
  <2>4. \A i \in 1..Len(j.todo) :
          j.pc = "perform" \/ i > 1 => request'[<<a, j.todo[i]>>] = "NONE"
    BY <2>1, <2>3 DEF JobOK, JobRequests
  <2>5. /\ j.pc \in Asking => request'[<<a, Head(j.todo)>>] = "RESERVED"
        /\ j.pc = "call" => calls'[<<a, Head(j.todo)>>] = 0
    BY <2>2, <2>3 DEF JobOK, JobRequests, Asking
  <2>6. j.pc # "fail" =>
          \A op \in Operations : request'[<<a, op>>] = "RESERVED" =>
            j.pc \in Asking /\ op = Head(j.todo)
    BY <2>3 DEF JobOK, JobRequests
  <2> QED BY <2>4, <2>5, <2>6 DEF JobRequests
<1>6. JobEvidence(j)'
  BY <1>3 DEF JobOK, JobEvidence, Grows
<1>7. JobFree(j)'
  BY <1>3 DEF JobOK, JobFree
<1> QED BY <1>1, <1>2, <1>4, <1>5, <1>6, <1>7 DEF JobOK

\* A lease that is held stays held while leases are left alone.
LEMMA LeaseStays ==
  ASSUME Grows, NEW g \in Handlers, NEW j \in JobType, LeaseHeld(j, g), JobServes(j),
         UNCHANGED <<lease, live>>
  PROVE  LeaseHeld(j, g)'
<1> SUFFICES ASSUME j.leased PROVE LeaseHeld(j, g)'
  BY DEF LeaseHeld
<1>1. j.pc # "idle"
  <2> SUFFICES ASSUME j = Idle PROVE FALSE
    BY DEF JobServes
  <2> QED BY DEF Idle
<1>2. j.approval \in Approvals
  BY <1>1 DEF JobServes
<1> QED BY <1>2 DEF LeaseHeld, Grows

\* What a local state promises is promised by the handler that is in it.
LEMMA SameJob ==
  ASSUME NEW g, NEW j, job'[g] = j, JobOK(j)'
  PROVE  JobOK(job[g])'
<1>1. JobServes(job[g])' /\ JobUsable(job[g])'
  BY DEF JobOK, JobServes, JobUsable
<1>2. JobPlan(job[g])'
  BY DEF JobOK, JobPlan
<1>3. JobRequests(job[g])'
  BY DEF JobOK, JobRequests
<1>4. JobEvidence(job[g])' /\ JobFree(job[g])'
  BY DEF JobOK, JobEvidence, JobFree
<1> QED BY <1>1, <1>2, <1>3, <1>4 DEF JobOK

\* One handler gets the local state r, and leaves the others their approvals.
LEMMA OneJob ==
  ASSUME ResearchInv, Grows, DocumentsTypeOK', DocumentsOK',
         NEW h \in Handlers, NEW r \in JobType, job' = [job EXCEPT ![h] = r], JobOK(r)',
         \A g \in Handlers : g # h /\ job[g].pc \in Working =>
           Steady(job[g].approval) /\ (r.pc \in Working => r.approval # job[g].approval),
         LeaseHeld(r, h)',
         \A g \in Handlers : g # h => LeaseHeld(job[g], g)'
  PROVE  ResearchInv'
<1>1. job \in [Handlers -> JobType] /\ DocumentsTypeOK /\ ApprovalsKnown
  BY TypeParts DEF ResearchInv, DocumentsOK
<1>2. job' \in [Handlers -> JobType]
  BY <1>1
<1>3. TypeOK'
  BY <1>2 DEF TypeOK, DocumentsTypeOK, ApprovalType, JobType
<1>4. ASSUME NEW g \in Handlers PROVE JobOK(job[g])'
  <2>1. CASE g = h
    <3>1. job'[g] = r
      BY <1>1, <2>1
    <3> QED BY <3>1, SameJob
  <2>2. CASE g # h
    <3>1. PICK j \in JobType : j = job[g]
      BY <1>1
    <3>2. JobOK(j)'
      BY <1>1, <2>2, <3>1, JobStays DEF ResearchInv
    <3>3. job'[g] = j
      BY <1>1, <2>2, <3>1
    <3> QED BY <3>2, <3>3, SameJob
  <2> QED BY <2>1, <2>2
<1>5. ASSUME NEW g \in Handlers PROVE LeaseHeld(job[g], g)'
  <2>1. CASE g = h
    BY <1>1, <2>1 DEF LeaseHeld
  <2>2. CASE g # h
    BY <1>1, <2>2 DEF LeaseHeld
  <2> QED BY <2>1, <2>2
<1>6. OneRunner'
  BY <1>1 DEF ResearchInv, OneRunner
<1> QED BY <1>3, <1>4, <1>5, <1>6 DEF ResearchInv

\* A step that leaves the documents alone.
LEMMA LocalStep ==
  ASSUME ResearchInv, UNCHANGED <<researchDocs, calls>>, DocumentsTypeOK',
         NEW h \in Handlers, NEW r \in JobType, job' = [job EXCEPT ![h] = r], JobOK(r),
         r.pc \in Working => job[h].pc \in Working /\ r.approval = job[h].approval,
         r.leased => job[h].leased /\ r.approval = job[h].approval
  PROVE  ResearchInv'
<1>1. Grows /\ \A a : Steady(a)
  BY DEF Grows, Steady, researchDocs
<1>2. DocumentsOK'
  BY DEF ResearchInv, DocumentsOK, ApprovalsKnown, RequestsKnown, CacheBacked, EvidenceBacked,
         FreePlans, researchDocs
<1>3. JobOK(r)'
  BY DEF JobOK, JobServes, JobUsable, JobPlan, JobRequests, JobEvidence, JobFree, researchDocs
<1>4. \A g \in Handlers : LeaseHeld(job[g], g) /\ (g # h => LeaseHeld(job[g], g)')
  BY DEF ResearchInv, LeaseHeld, researchDocs
<1>5. LeaseHeld(r, h)'
  BY <1>4 DEF LeaseHeld, researchDocs
<1>6. \A g \in Handlers : g # h /\ job[g].pc \in Working /\ r.pc \in Working =>
        r.approval # job[g].approval
  BY DEF ResearchInv, OneRunner
<1> QED BY <1>1, <1>2, <1>3, <1>4, <1>5, <1>6, OneJob

-----------------------------------------------------------------------------
(* The local states a handler moves to.                                    *)

\* What is known of a handler at work.
LEMMA AtWork ==
  ASSUME ResearchInv, NEW h \in Handlers, job[h].pc \notin {"idle", "done"}
  PROVE  /\ job \in [Handlers -> JobType] /\ job[h] \in JobType /\ JobOK(job[h])
         /\ job[h].approval \in Approvals
         /\ approval \in [Approvals -> ApprovalType]
         /\ MyApproval(h) \in ApprovalType
         /\ MyApproval(h).status # "NONE"
         /\ MyApproval(h).property \in Properties
         /\ MyApproval(h).plan \in Plans
         /\ MyLease(h) \in LeaseKeys
         /\ job[h].todo \in Seq(Operations)
         /\ DocumentsTypeOK
<1>1. job \in [Handlers -> JobType] /\ JobOK(job[h]) /\ DocumentsTypeOK
  BY TypeParts DEF ResearchInv
<1>2. job[h].approval \in Approvals /\ MyApproval(h).status # "NONE"
  BY <1>1 DEF JobOK, JobServes, MyApproval
<1>3. MyApproval(h) \in ApprovalType
  BY <1>1, <1>2 DEF DocumentsTypeOK, MyApproval
<1>4. MyApproval(h).property \in Properties /\ MyApproval(h).plan \in Plans
  BY <1>2 DEF ResearchInv, DocumentsOK, ApprovalsKnown, MyApproval
<1>5. MyLease(h) \in LeaseKeys
  BY <1>4 DEF MyLease, MyProperty, LeaseKeys
<1>6. job[h].todo \in Seq(Operations)
  BY <1>1 DEF JobType
<1> QED BY <1>1, <1>2, <1>3, <1>4, <1>5, <1>6 DEF DocumentsTypeOK

\* A handler that goes on with its approval still serves it.
LEMMA StillServes ==
  ASSUME NEW j, JobOK(j), j.pc \notin {"idle", "done"},
         NEW r, r.approval = j.approval, r.pc # "idle", r.result \in {j.result, "error", "unusable"}
  PROVE  JobServes(r) /\ JobUsable(r)
BY DEF JobOK, JobServes, JobUsable

\* A handler that is not in the loop promises nothing of the loop.
LEMMA OutOfLoop ==
  ASSUME NEW r, JobServes(r), JobUsable(r), r.pc \notin Working
  PROVE  JobOK(r)
BY DEF JobOK, JobPlan, JobRequests, JobEvidence, JobFree

\* The sequence without its head.
LEMMA TailIndex ==
  ASSUME NEW s \in Seq(Operations), s # <<>>
  PROVE  /\ Tail(s) \in Seq(Operations) /\ Len(Tail(s)) = Len(s) - 1 /\ Len(s) \in Nat \ {0}
         /\ Head(s) = s[1] /\ Head(s) \in Operations
         /\ \A i \in 1..Len(Tail(s)) : Tail(s)[i] = s[i + 1] /\ i + 1 \in 2..Len(s)
OBVIOUS

\* The loop goes on with the next operation, when none is asked any more.
LEMMA NextOperation ==
  ASSUME NEW j, JobOK(j), j.todo \in Seq(Operations), j.todo # <<>>, j.pc = "perform",
         NEW r, r.approval = j.approval, r.pc = "perform", r.todo = Tail(j.todo)
  PROVE  JobPlan(r) /\ JobRequests(r)
<1>1. /\ Len(r.todo) = Len(j.todo) - 1 /\ Len(j.todo) \in Nat \ {0}
      /\ \A i \in 1..Len(r.todo) : r.todo[i] = j.todo[i + 1] /\ i + 1 \in 2..Len(j.todo)
  BY TailIndex
<1>2. JobPlan(j) /\ JobRequests(j)
  BY DEF JobOK
<1>3. JobPlan(r)
  BY <1>1, <1>2 DEF JobPlan, Working, Asking
<1>4. JobRequests(r)
  BY <1>1, <1>2 DEF JobRequests, Working, Asking
<1> QED BY <1>3, <1>4

\* A plan that needs no requests never gives up the records it starts from.
LEMMA FreeRecords ==
  ASSUME ResearchInv, NEW h \in Handlers, job[h].pc = "perform", job[h].todo # <<>>, ~InHand(h)
  PROVE  ~MyApproval(h).billable => MyOp(h) # Records \/ MyApproval(h).known = {}
<1> SUFFICES ASSUME ~MyApproval(h).billable, MyOp(h) = Records, MyApproval(h).known # {}
    PROVE  FALSE
  OBVIOUS
<1> DEFINE a == job[h].approval
<1>1. /\ a \in Approvals /\ approval[a].status # "NONE" /\ approval[a].property \in Properties
      /\ JobOK(job[h]) /\ ~approval[a].billable
  BY AtWork DEF MyApproval
<1>2. approval[a].known \subseteq job[h].have /\ ~approval[a].refresh
  BY <1>1 DEF ResearchInv, DocumentsOK, FreePlans, JobOK, JobFree, Working
<1>3. Records \in approval[a].known
  BY <1>1 DEF ResearchInv, DocumentsOK, ApprovalsKnown, EvidenceBacked, MyApproval
<1> QED BY <1>2, <1>3 DEF InHand, MyApproval

\* Whoever must ask the provider has an approval that told the user so.
LEMMA AskedIsBillable ==
  ASSUME ResearchInv, NEW h \in Handlers, MustRequest(h)
  PROVE  MyApproval(h).billable /\ MyOp(h) \in OpsOf(MyApproval(h).plan)
<1> DEFINE a == job[h].approval
<1>1. /\ a \in Approvals /\ approval[a].status # "NONE" /\ approval[a].property \in Properties
      /\ JobOK(job[h]) /\ job[h].todo \in Seq(Operations) /\ job[h].todo # <<>>
      /\ job[h].pc = "perform"
  BY AtWork DEF MyApproval, MustRequest, Performing, At
<1>2. MyOp(h) = job[h].todo[1] /\ 1 \in 1..Len(job[h].todo)
  BY <1>1, TailIndex DEF MyOp
<1>3. MyOp(h) \in OpsOf(approval[a].plan)
  BY <1>1, <1>2 DEF JobOK, JobPlan, Working
<1>4. ASSUME ~approval[a].billable PROVE FALSE
  <2>1. approval[a].known \subseteq job[h].have /\ ~approval[a].refresh
    BY <1>1, <1>4 DEF ResearchInv, DocumentsOK, FreePlans, JobOK, JobFree, Working
  <2>2. MyOp(h) \in approval[a].known \/ cache[<<approval[a].property, MyOp(h)>>] # "none"
    BY <1>1, <1>3, <1>4 DEF ResearchInv, DocumentsOK, FreePlans
  <2> QED BY <2>1, <2>2 DEF MustRequest, InHand, Cached, MyApproval, MyProperty
<1> QED BY <1>3, <1>4, <1>1, AtWork DEF MyApproval, ApprovalType

\* Merging a response that matches keeps the evidence backed.
LEMMA MergedOK ==
  ASSUME ResearchInv, NEW h \in Handlers, job[h].pc \in {"perform", "complete"},
         job[h].todo # <<>>, MyOp(h) # Records => Records \in job[h].have,
         <<MyProperty(h), MyOp(h), "good">> \in responses,
         ~MyApproval(h).billable => MyOp(h) # Records \/ MyApproval(h).known = {}
  PROVE  /\ Merged(h) \in JobType
         /\ JobEvidence(Merged(h)) /\ JobFree(Merged(h))
         /\ JobServes(Merged(h)) /\ JobUsable(Merged(h))
<1>1. /\ job[h] \in JobType /\ JobOK(job[h]) /\ MyOp(h) \in Operations
      /\ Tail(job[h].todo) \in Seq(Operations)
  BY AtWork, TailIndex DEF MyOp
<1>2. PICK r : r = Merged(h)
  OBVIOUS
<1>3. /\ r \in JobType /\ r.pc = "perform" /\ r.approval = job[h].approval
      /\ r.touched /\ r.result = job[h].result
      /\ r.have = IF MyOp(h) = Records THEN {Records} ELSE job[h].have \cup {MyOp(h)}
  BY <1>1, <1>2 DEF Merged, JobType, Places
<1>4. JobEvidence(r)
  BY <1>1, <1>3 DEF JobOK, JobEvidence, Working, Asking, MyProperty, MyApproval
<1>5. JobFree(r)
  BY <1>1, <1>3 DEF JobOK, JobFree, Working, Asking, MyApproval
<1>6. JobServes(r) /\ JobUsable(r)
  BY <1>1, <1>3, StillServes
<1> QED BY <1>2, <1>3, <1>4, <1>5, <1>6

\* Giving an operation up keeps the evidence backed.
LEMMA UnavailableOK ==
  ASSUME ResearchInv, NEW h \in Handlers, job[h].pc \in {"perform", "complete"},
         job[h].todo # <<>>,
         ~MyApproval(h).billable => MyOp(h) # Records \/ MyApproval(h).known = {}
  PROVE  /\ Unavailable(h) \in JobType
         /\ JobEvidence(Unavailable(h)) /\ JobFree(Unavailable(h))
         /\ JobServes(Unavailable(h)) /\ JobUsable(Unavailable(h))
<1>1. /\ job[h] \in JobType /\ JobOK(job[h]) /\ MyOp(h) \in Operations
      /\ Tail(job[h].todo) \in Seq(Operations)
  BY AtWork, TailIndex DEF MyOp
<1>2. PICK r : r = Unavailable(h)
  OBVIOUS
<1>3. /\ r \in JobType /\ r.pc = "perform" /\ r.approval = job[h].approval
      /\ r.touched = job[h].touched /\ r.result = job[h].result
      /\ r.have = IF MyOp(h) = Records THEN {} ELSE job[h].have
  BY <1>1, <1>2 DEF Unavailable, JobType, Places
<1>4. JobEvidence(r)
  BY <1>1, <1>3 DEF JobOK, JobEvidence, Working, Asking, MyProperty, MyApproval
<1>5. JobFree(r)
  BY <1>1, <1>3 DEF JobOK, JobFree, Working, Asking, MyApproval
<1>6. JobServes(r) /\ JobUsable(r)
  BY <1>1, <1>3, StillServes
<1> QED BY <1>2, <1>3, <1>4, <1>5, <1>6

-----------------------------------------------------------------------------
(* Steps that leave the documents alone.                                   *)

\* The types of the documents when nothing but the auxiliary counters changes.
LEMMA LocalTypes ==
  ASSUME DocumentsTypeOK, UNCHANGED <<researchDocs, calls>>, undisclosed' \subseteq Approvals,
         lost' \in Nat, faults' \in Nat
  PROVE  DocumentsTypeOK'
BY DEF DocumentsTypeOK, researchDocs

\* The handler goes to another place outside the loop, with an error or not.
LEMMA LeavesLoop ==
  ASSUME ResearchInv, NEW h \in Handlers, job[h].pc \notin {"idle", "done"},
         UNCHANGED <<researchDocs, calls>>, DocumentsTypeOK',
         NEW r \in JobType, job' = [job EXCEPT ![h] = r],
         r.pc \in {"acquire", "unlock", "done"}, r.approval = job[h].approval,
         r.leased = job[h].leased, r.result \in {job[h].result, "error"}
  PROVE  ResearchInv'
<1>1. JobServes(r) /\ JobUsable(r)
  BY AtWork, StillServes
<1>2. JobOK(r)
  BY <1>1, OutOfLoop DEF Working
<1> QED BY <1>2, LocalStep DEF Working

\* The catch clause is next, from anywhere in the loop.
LEMMA GoesToCatch ==
  ASSUME ResearchInv, NEW h \in Handlers, job[h].pc \in Working,
         UNCHANGED <<researchDocs, calls>>, DocumentsTypeOK', Goto(h, "fail")
  PROVE  ResearchInv'
<1> DEFINE r == [job[h] EXCEPT !.pc = "fail"]
<1>0. job[h] \in JobType /\ JobOK(job[h]) /\ job \in [Handlers -> JobType]
  BY AtWork DEF Working
<1>1. r \in JobType /\ r.pc = "fail" /\ r.approval = job[h].approval /\ r.result = job[h].result
      /\ r.todo = job[h].todo /\ r.have = job[h].have /\ r.touched = job[h].touched
      /\ r.leased = job[h].leased
  BY <1>0 DEF JobType, Places
<1>2. job' = [job EXCEPT ![h] = r]
  BY <1>0 DEF Goto
<1> HIDE DEF r
<1>3. JobServes(r) /\ JobUsable(r)
  BY <1>0, <1>1, StillServes DEF Working
<1>4. JobPlan(r) /\ JobFree(r)
  BY <1>0, <1>1 DEF JobOK, JobPlan, JobFree, Working, Asking
<1>5. JobRequests(r)
  BY <1>0, <1>1 DEF JobOK, JobRequests, Working, Asking
<1>6. JobEvidence(r)
  BY <1>0, <1>1 DEF JobOK, JobEvidence, Working, Asking
<1>7. JobOK(r)
  BY <1>3, <1>4, <1>5, <1>6 DEF JobOK
<1> QED BY <1>1, <1>2, <1>7, LocalStep

\* The state of an idle handler.
LEMMA IdleType ==
  /\ Idle \in JobType
  /\ Idle.pc = "idle" /\ Idle.result = "none" /\ Idle.leased = FALSE
<1>1. "idle" \in Places /\ {} \in SUBSET Operations
  BY DEF Places
<1>2. <<>> \in Seq(Operations)
  OBVIOUS
<1> QED BY <1>1, <1>2, Zenon DEF Idle, JobType

\* A handler forgets everything: it has returned, or its instance is lost.
LEMMA ForgetStep ==
  ASSUME ResearchInv, NEW h \in Handlers, UNCHANGED <<researchDocs, calls>>, DocumentsTypeOK',
         job' = [job EXCEPT ![h] = Idle]
  PROVE  ResearchInv'
<1>1. JobOK(Idle)
  BY IdleType, OutOfLoop DEF JobServes, JobUsable, Working
<1> QED BY <1>1, IdleType, LocalStep DEF Working

\* A step that leaves the handlers alone as well.
LEMMA NoStep ==
  ASSUME ResearchInv, UNCHANGED <<researchDocs, calls, job>>, DocumentsTypeOK'
  PROVE  ResearchInv'
<1>1. TypeOK'
  BY DEF TypeOK, ResearchInv, DocumentsTypeOK, ApprovalType
<1>2. DocumentsOK' /\ OneRunner'
  BY DEF ResearchInv, DocumentsOK, ApprovalsKnown, RequestsKnown, CacheBacked, EvidenceBacked,
         FreePlans, OneRunner, researchDocs
<1>3. ASSUME NEW h \in Handlers PROVE JobOK(job[h])' /\ LeaseHeld(job[h], h)'
  <2>1. JobOK(job[h]) /\ LeaseHeld(job[h], h)
    BY DEF ResearchInv
  <2>2. PICK j : j = job[h] /\ job'[h] = j
    OBVIOUS
  <2>3. JobOK(j) /\ LeaseHeld(j, h)
    BY <2>1, <2>2
  <2>4. JobServes(j)' /\ JobUsable(j)' /\ JobPlan(j)'
    BY <2>3 DEF JobOK, JobServes, JobUsable, JobPlan, researchDocs
  <2>5. JobRequests(j)' /\ JobEvidence(j)' /\ JobFree(j)'
    BY <2>3 DEF JobOK, JobRequests, JobEvidence, JobFree, researchDocs
  <2>6. LeaseHeld(j, h)'
    BY <2>3 DEF LeaseHeld, researchDocs
  <2>7. LeaseHeld(job[h], h)'
    BY <2>2, <2>6 DEF LeaseHeld
  <2> QED BY <2>2, <2>4, <2>5, <2>7, SameJob DEF JobOK
<1> QED BY <1>1, <1>2, <1>3 DEF ResearchInv

LEMMA CallStep ==
  ASSUME ResearchInv, NEW h \in Handlers, NEW a \in Approvals, NEW key \in Keys, Call(h, a, key)
  PROVE  ResearchInv'
<1> DEFINE e == [Idle EXCEPT !.approval = a, !.key = key]
           r == IF ~Usable(a) THEN [e EXCEPT !.pc = "done", !.result = "error"]
                ELSE [e EXCEPT !.pc = IF approval[a].billable THEN "activity" ELSE "acquire"]
<1>1. job' = [job EXCEPT ![h] = r] /\ UNCHANGED <<researchDocs, researchAux>>
  BY DEF Call
<1>2. /\ r.approval = a /\ r.leased = FALSE /\ r.result \in {"none", "error"}
      /\ r.pc \in {"done", "activity", "acquire"}
      /\ r.pc # "done" => Usable(a)
  BY DEF Idle
<1>a. r \in JobType
  <2>1. e \in JobType
    BY IdleType DEF JobType
  <2> HIDE DEF e
  <2>2. r \in JobType
    BY <2>1 DEF JobType, Places
  <2> QED BY <2>2
<1> HIDE DEF r
<1>3. DocumentsTypeOK'
  BY <1>1, LocalTypes, TypeParts DEF ResearchInv, researchAux, DocumentsTypeOK
<1>4. JobOK(r)
  BY <1>2, OutOfLoop DEF JobServes, JobUsable, Usable, Working
<1> QED BY <1>1, <1>2, <1>a, <1>3, <1>4, LocalStep DEF Working, researchAux

LEMMA CheckActivityStep ==
  ASSUME ResearchInv, NEW h \in Handlers, CheckActivity(h)
  PROVE  ResearchInv'
<1> DEFINE r == [job[h] EXCEPT !.pc = "acquire"]
           q == [job[h] EXCEPT !.pc = "done", !.result = "error"]
<1>1. job[h] \in JobType /\ job \in [Handlers -> JobType] /\ DocumentsTypeOK /\ job[h].pc = "activity"
  BY AtWork DEF CheckActivity, At
<1>2. UNCHANGED <<researchDocs, calls, researchAux>> /\ DocumentsTypeOK'
  BY <1>1, LocalTypes DEF CheckActivity, researchAux, DocumentsTypeOK
<1>3. r \in JobType /\ q \in JobType
  BY <1>1 DEF JobType, Places
<1>4. job' = [job EXCEPT ![h] = r] \/ job' = [job EXCEPT ![h] = q]
  BY <1>1 DEF CheckActivity, Goto, Refuse
<1>5. /\ r.pc = "acquire" /\ r.approval = job[h].approval /\ r.leased = job[h].leased
      /\ r.result = job[h].result
      /\ q.pc = "done" /\ q.approval = job[h].approval /\ q.leased = job[h].leased
      /\ q.result = "error"
  BY <1>1 DEF JobType
<1> HIDE DEF r, q
<1> QED BY <1>1, <1>2, <1>3, <1>4, <1>5, LeavesLoop

-----------------------------------------------------------------------------
(* The loop.                                                               *)

\* A step that leaves approvals, requests, leases and retained evidence alone, and
\* stores responses at most.
LEMMA StoreStep ==
  ASSUME ResearchInv, UNCHANGED <<approval, lease, live, request, retained, calls>>,
         DocumentsTypeOK', Grows, CacheBacked',
         NEW h \in Handlers, NEW r \in JobType, job' = [job EXCEPT ![h] = r], JobOK(r)',
         r.pc \in Working => job[h].pc \in Working /\ r.approval = job[h].approval,
         r.leased => job[h].leased /\ r.approval = job[h].approval
  PROVE  ResearchInv'
<1>1. \A a : Steady(a)
  BY DEF Steady
<1>2. DocumentsOK'
  <2>1. DocumentsOK
    BY DEF ResearchInv
  <2>2. ApprovalsKnown' /\ RequestsKnown'
    BY <2>1 DEF DocumentsOK, ApprovalsKnown, RequestsKnown
  <2>3. EvidenceBacked'
    BY <2>1 DEF DocumentsOK, EvidenceBacked, Grows
  <2>4. FreePlans'
    <3> SUFFICES ASSUME NEW a \in Approvals, approval[a].status # "NONE", ~approval[a].billable
        PROVE  /\ ~approval[a].refresh
               /\ \A op \in OpsOf(approval[a].plan) :
                    op \in approval[a].known \/ cache'[<<approval[a].property, op>>] # "none"
      BY DEF FreePlans
    <3>1. approval[a].property \in Properties /\ approval[a].plan \in Plans
      BY <2>1 DEF DocumentsOK, ApprovalsKnown
    <3>2. OpsOf(approval[a].plan) \subseteq Operations
      BY <3>1, PlanAssumption DEF OpsOf
    <3> QED BY <2>1, <3>1, <3>2 DEF DocumentsOK, FreePlans, Grows
  <2> QED BY <2>2, <2>3, <2>4 DEF DocumentsOK
<1>3. \A g \in Handlers : LeaseHeld(job[g], g) /\ (g # h => LeaseHeld(job[g], g)')
  <2>1. ASSUME NEW g \in Handlers PROVE LeaseHeld(job[g], g)
    BY DEF ResearchInv
  <2>2. ASSUME NEW g \in Handlers, g # h PROVE LeaseHeld(job[g], g)'
    <3>1. job'[g] = job[g]
      BY <2>2, TypeParts DEF ResearchInv
    <3> QED BY <2>1, <3>1 DEF LeaseHeld
  <2> QED BY <2>1, <2>2
<1>4. LeaseHeld(r, h)'
  BY <1>3 DEF LeaseHeld
<1>5. \A g \in Handlers : g # h /\ job[g].pc \in Working /\ r.pc \in Working =>
        r.approval # job[g].approval
  BY DEF ResearchInv, OneRunner
<1> QED BY <1>1, <1>2, <1>3, <1>4, <1>5, OneJob

\* The handler has an answer to its request, or knows that there is none.
LEMMA AnswerStep ==
  ASSUME ResearchInv, UNCHANGED <<approval, lease, live, request, retained, calls>>,
         DocumentsTypeOK', Grows, CacheBacked',
         NEW h \in Handlers, job[h].pc \in {"call", "wire"},
         NEW g \in {"good", "bad", "none"},
         g = "good" => <<MyProperty(h), MyOp(h), "good">> \in responses',
         job' = [job EXCEPT ![h].pc = "complete", ![h].got = g]
  PROVE  ResearchInv'
<1>0. job[h] \in JobType /\ JobOK(job[h]) /\ job \in [Handlers -> JobType] /\ ApprovalsKnown
      /\ DocumentsTypeOK
  BY AtWork DEF ResearchInv, DocumentsOK
<1>a. PICK r : r = [job[h] EXCEPT !.pc = "complete", !.got = g]
  OBVIOUS
<1>1. r \in JobType /\ r.pc = "complete" /\ r.approval = job[h].approval
      /\ r.result = job[h].result /\ r.got = g /\ r.leased = job[h].leased
      /\ r.todo = job[h].todo /\ r.have = job[h].have /\ r.touched = job[h].touched
  BY <1>0, <1>a DEF JobType, Places
<1>2. job' = [job EXCEPT ![h] = r]
  BY <1>0, <1>a
<1>3. JobServes(r) /\ JobUsable(r)
  BY <1>0, <1>1, StillServes
<1>4. JobServes(r)' /\ JobUsable(r)'
  BY <1>3 DEF JobServes, JobUsable
<1>5. JobPlan(r)' /\ JobFree(r)'
  BY <1>0, <1>1 DEF JobOK, JobPlan, JobFree, Working, Asking
<1>6. JobRequests(r)'
  BY <1>0, <1>1 DEF JobOK, JobRequests, Working, Asking
<1>7. JobEvidence(r)'
  BY <1>0, <1>1 DEF JobOK, JobEvidence, Working, Asking, Grows, MyProperty, MyApproval, MyOp
<1>8. JobOK(r)'
  BY <1>4, <1>5, <1>6, <1>7 DEF JobOK
<1> QED BY <1>0, <1>1, <1>2, <1>8, StoreStep DEF Working

LEMMA AnsweredByCacheStep ==
  ASSUME ResearchInv, NEW h \in Handlers, AnsweredByCache(h)
  PROVE  ResearchInv'
<1>1. /\ job[h].pc = "call" /\ job[h] \in JobType /\ DocumentsTypeOK
      /\ MyProperty(h) \in Properties /\ job[h].todo \in Seq(Operations) /\ job[h].todo # <<>>
  BY AtWork DEF AnsweredByCache, At, MyProperty, JobOK, JobPlan, Working, Asking
<1>2. MyOp(h) \in Operations
  BY <1>1, TailIndex DEF MyOp
<1> DEFINE g == cache[<<MyProperty(h), MyOp(h)>>]
<1>3. g \in {"good", "bad", "none"}
  BY <1>1, <1>2 DEF DocumentsTypeOK
<1>4. g = "good" => <<MyProperty(h), MyOp(h), "good">> \in responses
  BY <1>1, <1>2 DEF ResearchInv, DocumentsOK, CacheBacked
<1>5. /\ UNCHANGED <<approval, lease, live, request, retained, calls, responses, cache>>
      /\ DocumentsTypeOK' /\ job' = [job EXCEPT ![h].pc = "complete", ![h].got = g]
  BY <1>1, LocalTypes DEF AnsweredByCache, researchDocs, researchAux, DocumentsTypeOK
<1> HIDE DEF g
<1>6. Grows /\ CacheBacked'
  BY <1>5 DEF Grows, CacheBacked, ResearchInv, DocumentsOK
<1> QED BY <1>1, <1>3, <1>4, <1>5, <1>6, AnswerStep

LEMMA ClientStopsStep ==
  ASSUME ResearchInv, NEW h \in Handlers, ClientStops(h)
  PROVE  ResearchInv'
<1>1. job[h].pc = "call" /\ DocumentsTypeOK
  BY AtWork DEF ClientStops, At
<1>2. /\ UNCHANGED <<approval, lease, live, request, retained, calls, responses, cache>>
      /\ DocumentsTypeOK' /\ job' = [job EXCEPT ![h].pc = "complete", ![h].got = "none"]
  BY <1>1, LocalTypes DEF ClientStops, researchDocs, researchAux, DocumentsTypeOK
<1>3. Grows /\ CacheBacked'
  BY <1>2 DEF Grows, CacheBacked, ResearchInv, DocumentsOK
<1> QED BY <1>1, <1>2, <1>3, AnswerStep

LEMMA ReceiveStep ==
  ASSUME ResearchInv, NEW h \in Handlers, Receive(h)
  PROVE  ResearchInv'
<1> DEFINE k == <<MyProperty(h), MyOp(h)>>
<1>1. /\ job[h].pc = "wire" /\ job[h] \in JobType /\ DocumentsTypeOK
      /\ MyProperty(h) \in Properties /\ job[h].todo \in Seq(Operations) /\ job[h].todo # <<>>
  BY AtWork DEF Receive, At, MyProperty, JobOK, JobPlan, Working, Asking
<1>2. MyOp(h) \in Operations
  BY <1>1, TailIndex DEF MyOp
<1>3. /\ UNCHANGED <<approval, lease, live, request, minute, retained, calls, undisclosed, lost, faults>>
      /\ CacheBacked
  BY DEF Receive, researchAux, ResearchInv, DocumentsOK
<1>4. CASE /\ job' = [job EXCEPT ![h].pc = "complete", ![h].got = "none"]
           /\ UNCHANGED <<responses, cache>>
  <2>1. DocumentsTypeOK' /\ Grows /\ CacheBacked'
    BY <1>1, <1>3, <1>4 DEF DocumentsTypeOK, Grows, CacheBacked
  <2> QED BY <1>1, <1>3, <1>4, <2>1, AnswerStep
<1>5. ASSUME NEW match \in {"good", "bad"},
             responses' = responses \cup {<<MyProperty(h), MyOp(h), match>>},
             cache' = [cache EXCEPT ![k] = match],
             job' = [job EXCEPT ![h].pc = "complete", ![h].got = match]
      PROVE  ResearchInv'
  <2>1. /\ cache \in [Properties \X Operations -> {"none", "good", "bad"}]
        /\ k \in Properties \X Operations
    BY <1>1, <1>2 DEF DocumentsTypeOK
  <2>2. \A c \in Properties \X Operations : cache'[c] = IF c = k THEN match ELSE cache[c]
    BY <1>5, <2>1
  <2>3. DocumentsTypeOK'
    <3>1. responses' \subseteq Properties \X Operations \X {"good", "bad"}
      BY <1>1, <1>2, <1>5 DEF DocumentsTypeOK
    <3>2. cache' \in [Properties \X Operations -> {"none", "good", "bad"}]
      BY <1>5, <2>1
    <3> QED BY <1>1, <1>3, <3>1, <3>2 DEF DocumentsTypeOK
  <2>4. Grows
    BY <1>3, <1>5, <2>2 DEF Grows
  <2>5. CacheBacked'
    BY <1>3, <1>5, <2>2 DEF CacheBacked
  <2> QED BY <1>1, <1>3, <1>5, <2>3, <2>4, <2>5, AnswerStep
<1> QED BY <1>4, <1>5 DEF Receive

\* The loop goes on with the next operation and no request has been made.
LEMMA NextLocally ==
  ASSUME ResearchInv, NEW h \in Handlers, Performing(h),
         UNCHANGED <<researchDocs, calls>>, DocumentsTypeOK',
         NEW r \in JobType, job' = [job EXCEPT ![h] = r],
         r.approval = job[h].approval, r.pc = "perform", r.todo = Tail(job[h].todo),
         r.leased = job[h].leased, r.result = job[h].result, JobEvidence(r), JobFree(r)
  PROVE  ResearchInv'
<1>1. /\ job[h].pc = "perform" /\ job[h].todo # <<>> /\ job[h].todo \in Seq(Operations)
      /\ JobOK(job[h])
  BY AtWork DEF Performing, At
<1>2. JobServes(r) /\ JobUsable(r)
  BY <1>1, StillServes
<1>3. JobPlan(r) /\ JobRequests(r)
  BY <1>1, NextOperation
<1>4. JobOK(r)
  BY <1>2, <1>3 DEF JobOK
<1> QED BY <1>1, <1>4, LocalStep DEF Working

\* An operation is given up without a request.
LEMMA GivesUp ==
  ASSUME ResearchInv, NEW h \in Handlers, Performing(h), ~InHand(h),
         UNCHANGED <<researchDocs, calls>>, DocumentsTypeOK',
         job' = [job EXCEPT ![h] = Unavailable(h)]
  PROVE  ResearchInv'
<1>1. job[h].pc = "perform" /\ job[h].todo # <<>> /\ job[h] \in JobType
  BY AtWork DEF Performing, At
<1>2. ~MyApproval(h).billable => MyOp(h) # Records \/ MyApproval(h).known = {}
  BY <1>1, FreeRecords
<1>3. PICK r : r = Unavailable(h)
  OBVIOUS
<1>4. r \in JobType /\ JobEvidence(r) /\ JobFree(r)
  BY <1>1, <1>2, <1>3, UnavailableOK
<1>5. /\ r.approval = job[h].approval /\ r.pc = "perform" /\ r.todo = Tail(job[h].todo)
      /\ r.leased = job[h].leased /\ r.result = job[h].result
  BY <1>1, <1>3 DEF Unavailable, JobType
<1> QED BY <1>3, <1>4, <1>5, NextLocally

LEMMA PerformLocallyStep ==
  ASSUME ResearchInv, NEW h \in Handlers, PerformLocally(h)
  PROVE  ResearchInv'
<1>1. /\ job[h].pc = "perform" /\ job[h].todo # <<>> /\ job[h] \in JobType
      /\ job \in [Handlers -> JobType] /\ JobOK(job[h]) /\ DocumentsTypeOK
      /\ Performing(h) /\ MyProperty(h) \in Properties
  BY AtWork DEF PerformLocally, Performing, At, MyProperty
<1>2. Tail(job[h].todo) \in Seq(Operations) /\ MyOp(h) \in Operations
  <2>1. job[h].todo \in Seq(Operations)
    BY <1>1 DEF JobType
  <2> QED BY <1>1, <2>1, TailIndex DEF MyOp
<1>3. UNCHANGED <<researchDocs, calls>> /\ DocumentsTypeOK'
  BY <1>1, LocalTypes DEF PerformLocally, researchAux, DocumentsTypeOK
<1>4. ASSUME NEW b \in BOOLEAN,
             job' = [job EXCEPT ![h] = [job[h] EXCEPT !.todo = Tail(job[h].todo), !.ok = b]]
      PROVE  ResearchInv'
  <2>1. PICK r : r = [job[h] EXCEPT !.todo = Tail(job[h].todo), !.ok = b]
    OBVIOUS
  <2>2. /\ r \in JobType /\ r.pc = "perform" /\ r.approval = job[h].approval
        /\ r.todo = Tail(job[h].todo) /\ r.have = job[h].have /\ r.touched = job[h].touched
        /\ r.leased = job[h].leased /\ r.result = job[h].result
    BY <1>1, <1>2, <2>1 DEF JobType
  <2>3. JobEvidence(r) /\ JobFree(r)
    BY <1>1, <2>2 DEF JobOK, JobEvidence, JobFree, Working, Asking
  <2> QED BY <1>1, <1>3, <1>4, <2>1, <2>2, <2>3, NextLocally
<1>5. CASE job' = [job EXCEPT ![h].todo = Tail(job[h].todo)]
  <2>1. job[h] = [job[h] EXCEPT !.ok = job[h].ok] /\ job[h].ok \in BOOLEAN
    BY <1>1 DEF JobType
  <2>2. job' = [job EXCEPT ![h] = [job[h] EXCEPT !.todo = Tail(job[h].todo), !.ok = job[h].ok]]
    BY <1>1, <1>5, <2>1 DEF JobType
  <2> QED BY <1>4, <2>1, <2>2
<1>6. CASE job' = [job EXCEPT ![h].todo = Tail(job[h].todo), ![h].ok = TRUE]
  <2>1. job' = [job EXCEPT ![h] = [job[h] EXCEPT !.todo = Tail(job[h].todo), !.ok = TRUE]]
    BY <1>1, <1>6
  <2> QED BY <1>4, <2>1
<1>7. CASE /\ ~NoSubject(h) /\ ~InHand(h) /\ Cached(h)
           /\ job' = [job EXCEPT ![h] = Merge(h, cache[<<MyProperty(h), MyOp(h)>>])]
  <2>1. CASE cache[<<MyProperty(h), MyOp(h)>>] = "good"
    <3>1. <<MyProperty(h), MyOp(h), "good">> \in responses
      BY <1>1, <1>2, <2>1 DEF ResearchInv, DocumentsOK, CacheBacked
    <3>2. ~MyApproval(h).billable => MyOp(h) # Records \/ MyApproval(h).known = {}
      BY <1>1, <1>7, FreeRecords
    <3>3. PICK r : r = Merged(h)
      OBVIOUS
    <3>4. r \in JobType /\ JobEvidence(r) /\ JobFree(r)
      BY <1>1, <1>7, <3>1, <3>2, <3>3, MergedOK DEF NoSubject
    <3>5. /\ r.approval = job[h].approval /\ r.pc = "perform" /\ r.todo = Tail(job[h].todo)
          /\ r.leased = job[h].leased /\ r.result = job[h].result
      BY <1>1, <3>3 DEF Merged, JobType
    <3>6. job' = [job EXCEPT ![h] = r]
      BY <1>7, <2>1, <3>3 DEF Merge
    <3> QED BY <1>1, <1>3, <3>4, <3>5, <3>6, NextLocally
  <2>2. CASE cache[<<MyProperty(h), MyOp(h)>>] # "good"
    <3>1. job' = [job EXCEPT ![h] = Unavailable(h)]
      BY <1>7, <2>2 DEF Merge
    <3> QED BY <1>1, <1>3, <1>7, <3>1, GivesUp
  <2> QED BY <2>1, <2>2
<1> QED BY <1>5, <1>6, <1>7 DEF PerformLocally

LEMMA RateLimitedStep ==
  ASSUME ResearchInv, NEW h \in Handlers, RateLimited(h)
  PROVE  ResearchInv'
<1>1. DocumentsTypeOK
  BY TypeParts DEF ResearchInv
<1>2. UNCHANGED <<researchDocs, calls>> /\ DocumentsTypeOK'
  BY <1>1, LocalTypes DEF RateLimited, researchAux, DocumentsTypeOK
<1> QED BY <1>2, GivesUp DEF RateLimited, MustRequest

-----------------------------------------------------------------------------
(* Requests to the provider.                                               *)

\* A step that leaves everything alone but the requests of the handler's approval.
LEMMA RequestStep ==
  ASSUME ResearchInv, UNCHANGED <<approval, lease, live, responses, cache, retained>>,
         DocumentsTypeOK', RequestsKnown',
         NEW h \in Handlers, job[h].pc \in Working,
         NEW r \in JobType, job' = [job EXCEPT ![h] = r], JobOK(r)',
         r.pc \in Working, r.approval = job[h].approval, r.leased = job[h].leased,
         \A a \in Approvals, op \in Operations : a # job[h].approval =>
           /\ request'[<<a, op>>] = request[<<a, op>>]
           /\ calls'[<<a, op>>] = calls[<<a, op>>]
  PROVE  ResearchInv'
<1>1. Grows
  BY DEF Grows
<1>2. DocumentsOK'
  BY DEF ResearchInv, DocumentsOK, ApprovalsKnown, CacheBacked, EvidenceBacked, FreePlans
<1>3. \A g \in Handlers : LeaseHeld(job[g], g) /\ (g # h => LeaseHeld(job[g], g)')
  <2>1. ASSUME NEW g \in Handlers PROVE LeaseHeld(job[g], g)
    BY DEF ResearchInv
  <2>2. ASSUME NEW g \in Handlers, g # h PROVE LeaseHeld(job[g], g)'
    <3>1. job'[g] = job[g]
      BY <2>2, TypeParts DEF ResearchInv
    <3> QED BY <2>1, <3>1 DEF LeaseHeld
  <2> QED BY <2>1, <2>2
<1>4. LeaseHeld(r, h)'
  <2>1. LeaseHeld(job[h], h)
    BY <1>3
  <2> QED BY <2>1 DEF LeaseHeld
<1>5. ASSUME NEW g \in Handlers, g # h, job[g].pc \in Working
      PROVE  r.approval # job[g].approval /\ Steady(job[g].approval)
  <2>1. job[g].approval # job[h].approval /\ job[g].approval \in Approvals
    BY <1>5, AtWork DEF ResearchInv, OneRunner, Working
  <2> QED BY <2>1 DEF Steady
<1> QED BY <1>1, <1>2, <1>3, <1>4, <1>5, OneJob

\* The request of the handler at its first operation.
LEMMA RequestOf ==
  ASSUME ResearchInv, NEW h \in Handlers, job[h].pc \in Working, job[h].todo # <<>>
  PROVE  /\ job[h] \in JobType /\ job \in [Handlers -> JobType] /\ JobOK(job[h])
         /\ DocumentsTypeOK /\ job[h].approval \in Approvals
         /\ MyApproval(h).status = "IN_FLIGHT" /\ MyOp(h) \in Operations
         /\ MyOp(h) = job[h].todo[1] /\ job[h].todo \in Seq(Operations)
         /\ 1 \in 1..Len(job[h].todo) /\ MyRequest(h) \in RequestKeys
         /\ \A k \in RequestKeys : k = <<k[1], k[2]>> /\ k[1] \in Approvals /\ k[2] \in Operations
<1>1. /\ job[h] \in JobType /\ job \in [Handlers -> JobType] /\ JobOK(job[h])
      /\ DocumentsTypeOK /\ job[h].approval \in Approvals /\ job[h].todo \in Seq(Operations)
  BY AtWork DEF Working
<1>2. /\ MyOp(h) \in Operations /\ MyOp(h) = job[h].todo[1] /\ 1 \in 1..Len(job[h].todo)
  BY <1>1, TailIndex DEF MyOp
<1>3. MyApproval(h).status = "IN_FLIGHT"
  BY <1>1 DEF JobOK, JobPlan, MyApproval
<1> QED BY <1>1, <1>2, <1>3 DEF MyRequest, RequestKeys

LEMMA TransmitStep ==
  ASSUME ResearchInv, NEW h \in Handlers, Transmit(h)
  PROVE  ResearchInv'
<1> DEFINE a == job[h].approval
           o == MyOp(h)
<1>0. job[h].pc = "call" /\ job[h].todo # <<>>
  BY AtWork DEF Transmit, At, JobOK, JobPlan, Working, Asking
<1>1. /\ job[h] \in JobType /\ job \in [Handlers -> JobType] /\ JobOK(job[h])
      /\ DocumentsTypeOK /\ a \in Approvals /\ o \in Operations /\ MyRequest(h) = <<a, o>>
      /\ MyRequest(h) \in RequestKeys /\ o = Head(job[h].todo)
  BY <1>0, RequestOf DEF Working, MyRequest, MyOp
<1>2. /\ UNCHANGED <<approval, lease, live, request, minute, responses, cache, retained, undisclosed,
                     lost, faults>>
      /\ calls' = [calls EXCEPT ![<<a, o>>] = @ + 1]
  BY <1>1 DEF Transmit, researchDocs
<1>3. calls[<<a, o>>] = 0 /\ request[<<a, o>>] = "RESERVED" /\ calls \in [RequestKeys -> Nat]
  BY <1>0, <1>1 DEF JobOK, JobRequests, Working, Asking, DocumentsTypeOK
<1>4. \A b \in Approvals, op \in Operations :
        calls'[<<b, op>>] = IF b = a /\ op = o THEN 1 ELSE calls[<<b, op>>]
  BY <1>2, <1>3 DEF RequestKeys
<1>5. DocumentsTypeOK'
  <2>1. calls' \in [RequestKeys -> Nat]
    <3>1. calls' = [calls EXCEPT ![<<a, o>>] = 1]
      BY <1>2, <1>3
    <3> QED BY <1>3, <3>1
  <2> QED BY <1>1, <1>2, <2>1 DEF DocumentsTypeOK
<1>6. RequestsKnown'
  <2>1. RequestsKnown
    BY DEF ResearchInv, DocumentsOK
  <2> HIDE DEF a, o
  <2> SUFFICES ASSUME NEW b \in Approvals, NEW op \in Operations
      PROVE  /\ request[<<b, op>>] = "NONE" => calls'[<<b, op>>] = 0
             /\ calls'[<<b, op>>] <= 1
    BY <1>2, <2>1 DEF RequestsKnown
  <2> QED BY <1>3, <1>4, <2>1 DEF RequestsKnown
<1>7. PICK r : r = [job[h] EXCEPT !.pc = "wire"]
  OBVIOUS
<1>8. /\ r \in JobType /\ r.pc = "wire" /\ r.approval = a /\ r.leased = job[h].leased
      /\ r.result = job[h].result /\ r.todo = job[h].todo /\ r.have = job[h].have
      /\ r.touched = job[h].touched
      /\ job' = [job EXCEPT ![h] = r]
  BY <1>1, <1>7 DEF JobType, Places, Transmit, Goto
<1>9. JobOK(r)'
  <2>1. JobServes(r) /\ JobUsable(r)
    BY <1>0, <1>1, <1>8, StillServes
  <2>2. JobServes(r)' /\ JobUsable(r)'
    BY <2>1, <1>2 DEF JobServes, JobUsable
  <2>3. JobPlan(r)' /\ JobFree(r)'
    BY <1>0, <1>1, <1>2, <1>8 DEF JobOK, JobPlan, JobFree, Working, Asking
  <2>4. JobRequests(r)'
    BY <1>0, <1>1, <1>2, <1>8 DEF JobOK, JobRequests, Working, Asking
  <2>5. JobEvidence(r)'
    BY <1>0, <1>1, <1>2, <1>8 DEF JobOK, JobEvidence, Working, Asking
  <2> QED BY <2>2, <2>3, <2>4, <2>5 DEF JobOK
<1>10. job[h].pc \in Working /\ r.pc \in Working /\ r.approval = job[h].approval
  BY <1>0, <1>8 DEF Working
<1>11. \A b \in Approvals, op \in Operations : b # job[h].approval =>
         /\ request'[<<b, op>>] = request[<<b, op>>]
         /\ calls'[<<b, op>>] = calls[<<b, op>>]
  <2> SUFFICES ASSUME NEW b \in Approvals, NEW op \in Operations, b # a
      PROVE  request'[<<b, op>>] = request[<<b, op>>] /\ calls'[<<b, op>>] = calls[<<b, op>>]
    OBVIOUS
  <2> HIDE DEF a, o
  <2> QED BY <1>2, <1>4
<1>12. UNCHANGED <<approval, lease, live, responses, cache, retained>>
  BY <1>2
<1> HIDE DEF a, o
<1> QED BY <1>1, <1>5, <1>6, <1>8, <1>9, <1>10, <1>11, <1>12, RequestStep

LEMMA ReserveStep ==
  ASSUME ResearchInv, NEW h \in Handlers, Reserve(h)
  PROVE  ResearchInv'
<1> DEFINE a == job[h].approval
           o == MyOp(h)
<1>0. job[h].pc = "perform" /\ job[h].todo # <<>> /\ MustRequest(h)
  BY DEF Reserve, MustRequest, Performing, At
<1>1. /\ job[h] \in JobType /\ job \in [Handlers -> JobType] /\ JobOK(job[h])
      /\ DocumentsTypeOK /\ a \in Approvals /\ o \in Operations /\ MyRequest(h) = <<a, o>>
      /\ MyRequest(h) \in RequestKeys /\ o = Head(job[h].todo) /\ o = job[h].todo[1]
      /\ 1 \in 1..Len(job[h].todo) /\ approval[a].status = "IN_FLIGHT"
      /\ job[h].todo \in Seq(Operations)
  BY <1>0, RequestOf DEF Working, MyRequest, MyOp, MyApproval
<1>2. /\ UNCHANGED <<approval, lease, live, responses, cache, retained, calls, lost, faults>>
      /\ request' = [request EXCEPT ![<<a, o>>] = "RESERVED"]
      /\ undisclosed' \in {undisclosed, undisclosed \cup {a}}
  BY <1>1 DEF Reserve
<1>3. request[<<a, o>>] = "NONE" /\ calls[<<a, o>>] = 0 /\ request \in [RequestKeys -> RequestStatus]
  <2>1. request[<<a, o>>] = "NONE"
    BY <1>0, <1>1 DEF JobOK, JobRequests, Working
  <2> QED BY <2>1, <1>1 DEF ResearchInv, DocumentsOK, RequestsKnown, DocumentsTypeOK
<1>4. \A b \in Approvals, op \in Operations :
        request'[<<b, op>>] = IF b = a /\ op = o THEN "RESERVED" ELSE request[<<b, op>>]
  BY <1>2, <1>3 DEF RequestKeys
<1>5. DocumentsTypeOK'
  <2>1. request' \in [RequestKeys -> RequestStatus]
    BY <1>2, <1>3 DEF RequestStatus
  <2>2. minute' \in 0..MinuteLimit
    BY <1>1, ResearchAssumption DEF Reserve, DocumentsTypeOK
  <2> QED BY <1>1, <1>2, <2>1, <2>2 DEF DocumentsTypeOK
<1>6. RequestsKnown'
  <2>1. approval[a].billable /\ o \in OpsOf(approval[a].plan)
    BY <1>0, AskedIsBillable DEF MyApproval
  <2>2. RequestsKnown /\ approval[a].status = "IN_FLIGHT"
    BY <1>1 DEF ResearchInv, DocumentsOK
  <2> HIDE DEF a, o
  <2> SUFFICES ASSUME NEW b \in Approvals, NEW op \in Operations
      PROVE  /\ approval[b].status \in {"NONE", "PENDING"} => request'[<<b, op>>] = "NONE"
             /\ request'[<<b, op>>] = "NONE" => calls[<<b, op>>] = 0
             /\ calls[<<b, op>>] <= 1
             /\ approval[b].status = "COMPLETE" => request'[<<b, op>>] # "RESERVED"
             /\ request'[<<b, op>>] # "NONE" => /\ approval[b].billable
                                                /\ op \in OpsOf(approval[b].plan)
    BY <1>2 DEF RequestsKnown
  <2>3. CASE b = a /\ op = o
    BY <1>3, <1>4, <2>1, <2>2, <2>3
  <2>4. CASE ~(b = a /\ op = o)
    BY <1>4, <2>2, <2>4 DEF RequestsKnown
  <2> QED BY <2>3, <2>4
<1>7. PICK r : r = [job[h] EXCEPT !.pc = "call"]
  OBVIOUS
<1>8. /\ r \in JobType /\ r.pc = "call" /\ r.approval = a /\ r.leased = job[h].leased
      /\ r.result = job[h].result /\ r.todo = job[h].todo /\ r.have = job[h].have
      /\ r.touched = job[h].touched
      /\ job' = [job EXCEPT ![h] = r]
  BY <1>1, <1>7 DEF JobType, Places, Reserve, Goto
<1>9. JobOK(r)'
  <2>1. JobServes(r) /\ JobUsable(r)
    BY <1>0, <1>1, <1>8, StillServes
  <2>2. JobServes(r)' /\ JobUsable(r)'
    BY <2>1, <1>2 DEF JobServes, JobUsable
  <2>3. JobPlan(r)'
    BY <1>0, <1>1, <1>2, <1>8 DEF JobOK, JobPlan, Working, Asking
  <2>a. JobFree(r)'
    BY <1>0, <1>2, <1>8, AskedIsBillable DEF JobFree, MyApproval
  <2>4. JobRequests(r)'
    <3>1. \A i \in 1..Len(r.todo) : i > 1 => request'[<<a, r.todo[i]>>] = "NONE"
      <4> SUFFICES ASSUME NEW i \in 1..Len(r.todo), i > 1
          PROVE  request'[<<a, r.todo[i]>>] = "NONE"
        OBVIOUS
      <4>1. i \in 1..Len(job[h].todo) /\ r.todo[i] = job[h].todo[i]
        BY <1>8
      <4>2. r.todo[i] \in Operations /\ request[<<a, r.todo[i]>>] = "NONE"
        <5>1. job[h].todo \in Seq(Operations)
          BY <1>1
        <5>2. job[h].todo[i] \in Operations
          BY <4>1, <5>1
        <5>3. request[<<a, job[h].todo[i]>>] = "NONE"
          BY <1>0, <1>1, <4>1 DEF JobOK, JobRequests, Working
        <5> QED BY <4>1, <5>2, <5>3
      <4>3. \A k, m \in 1..Len(job[h].todo) : job[h].todo[k] = job[h].todo[m] => k = m
        <5>1. JobPlan(job[h]) /\ job[h].pc \in Working
          BY <1>0, <1>1 DEF JobOK, Working
        <5> QED BY <5>1, Zenon DEF JobPlan
      <4>4. r.todo[i] # o
        <5>1. i # 1
          OBVIOUS
        <5> HIDE DEF a, o
        <5> QED BY <1>1, <4>1, <4>3, <5>1
      <4> QED BY <4>2, <4>4, <1>1, <1>4
    <3>2. request'[<<a, o>>] = "RESERVED" /\ calls'[<<a, o>>] = 0
      BY <1>1, <1>2, <1>3, <1>4
    <3>3. \A op \in Operations : request'[<<a, op>>] = "RESERVED" => op = o
      BY <1>0, <1>1, <1>4 DEF JobOK, JobRequests, Working, Asking
    <3> QED BY <1>1, <1>8, <3>1, <3>2, <3>3 DEF JobRequests, Asking
  <2>5. JobEvidence(r)'
    BY <1>0, <1>1, <1>2, <1>8 DEF JobOK, JobEvidence, Working, Asking, MustRequest, NoSubject
  <2> QED BY <2>2, <2>3, <2>a, <2>4, <2>5 DEF JobOK
<1>10. job[h].pc \in Working /\ r.pc \in Working /\ r.approval = job[h].approval
  BY <1>0, <1>8 DEF Working
<1>11. \A b \in Approvals, op \in Operations : b # job[h].approval =>
         /\ request'[<<b, op>>] = request[<<b, op>>]
         /\ calls'[<<b, op>>] = calls[<<b, op>>]
  <2> SUFFICES ASSUME NEW b \in Approvals, NEW op \in Operations, b # a
      PROVE  request'[<<b, op>>] = request[<<b, op>>] /\ calls'[<<b, op>>] = calls[<<b, op>>]
    OBVIOUS
  <2> HIDE DEF a, o
  <2> QED BY <1>2, <1>4
<1>12. UNCHANGED <<approval, lease, live, responses, cache, retained>>
  BY <1>2
<1> HIDE DEF a, o
<1> QED BY <1>1, <1>5, <1>6, <1>8, <1>9, <1>10, <1>11, <1>12, RequestStep

\* What the handler holds once the outcome of its request is merged.
LEMMA MergeOK ==
  ASSUME ResearchInv, NEW h \in Handlers, job[h].pc = "complete"
  PROVE  \E r \in JobType :
           /\ r = [Merge(h, job[h].got) EXCEPT !.got = ""]
           /\ r.approval = job[h].approval /\ r.pc = "perform" /\ r.todo = Tail(job[h].todo)
           /\ r.leased = job[h].leased /\ r.result = job[h].result
           /\ JobEvidence(r) /\ JobFree(r) /\ JobServes(r) /\ JobUsable(r)
<1>0. job[h].todo # <<>> /\ job[h] \in JobType /\ JobOK(job[h])
  BY AtWork DEF JobOK, JobPlan, Working, Asking
<1>1. MyApproval(h).billable
  <2>1. MyApproval(h).billable \in BOOLEAN
    BY <1>0, AtWork DEF ApprovalType
  <2> QED BY <1>0, <2>1 DEF JobOK, JobFree, Working, Asking, MyApproval
<1>2. MyOp(h) # Records => Records \in job[h].have
  BY <1>0 DEF JobOK, JobEvidence, Working, Asking, MyOp
<1>3. CASE job[h].got = "good"
  <2>1. <<MyProperty(h), MyOp(h), "good">> \in responses
    BY <1>0, <1>3 DEF JobOK, JobEvidence, Working, Asking, MyOp, MyProperty, MyApproval
  <2>2. PICK q : q = Merged(h)
    OBVIOUS
  <2>3. q \in JobType /\ JobEvidence(q) /\ JobFree(q) /\ JobServes(q) /\ JobUsable(q)
    BY <1>0, <1>1, <1>2, <2>1, <2>2, MergedOK
  <2>4. /\ q.approval = job[h].approval /\ q.pc = "perform" /\ q.todo = Tail(job[h].todo)
        /\ q.leased = job[h].leased /\ q.result = job[h].result
    BY <1>0, <2>2 DEF Merged, JobType
  <2>5. PICK r : r = [q EXCEPT !.got = ""]
    OBVIOUS
  <2>6. /\ r \in JobType /\ r.approval = q.approval /\ r.pc = q.pc /\ r.todo = q.todo
        /\ r.leased = q.leased /\ r.result = q.result /\ r.have = q.have /\ r.touched = q.touched
    BY <2>3, <2>5 DEF JobType
  <2>7. JobEvidence(r) /\ JobFree(r)
    BY <2>3, <2>4, <2>6 DEF JobEvidence, JobFree, Asking
  <2>8. JobServes(r) /\ JobUsable(r)
    BY <2>3, <2>4, <2>6 DEF JobServes, JobUsable
  <2> QED BY <1>3, <2>2, <2>4, <2>5, <2>6, <2>7, <2>8 DEF Merge
<1>4. CASE job[h].got # "good"
  <2>2. PICK q : q = Unavailable(h)
    OBVIOUS
  <2>3. q \in JobType /\ JobEvidence(q) /\ JobFree(q) /\ JobServes(q) /\ JobUsable(q)
    BY <1>0, <1>1, <2>2, UnavailableOK
  <2>4. /\ q.approval = job[h].approval /\ q.pc = "perform" /\ q.todo = Tail(job[h].todo)
        /\ q.leased = job[h].leased /\ q.result = job[h].result
    BY <1>0, <2>2 DEF Unavailable, JobType
  <2>5. PICK r : r = [q EXCEPT !.got = ""]
    OBVIOUS
  <2>6. /\ r \in JobType /\ r.approval = q.approval /\ r.pc = q.pc /\ r.todo = q.todo
        /\ r.leased = q.leased /\ r.result = q.result /\ r.have = q.have /\ r.touched = q.touched
    BY <2>3, <2>5 DEF JobType
  <2>7. JobEvidence(r) /\ JobFree(r)
    BY <2>3, <2>4, <2>6 DEF JobEvidence, JobFree, Asking
  <2>8. JobServes(r) /\ JobUsable(r)
    BY <2>3, <2>4, <2>6 DEF JobServes, JobUsable
  <2> QED BY <1>4, <2>2, <2>4, <2>5, <2>6, <2>7, <2>8 DEF Merge
<1> QED BY <1>3, <1>4

LEMMA CompleteStep ==
  ASSUME ResearchInv, NEW h \in Handlers, Complete(h)
  PROVE  ResearchInv'
<1> DEFINE a == job[h].approval
           o == MyOp(h)
<1>0. job[h].pc = "complete" /\ job[h].todo # <<>>
  BY AtWork DEF Complete, At, JobOK, JobPlan, Working, Asking
<1>1. /\ job[h] \in JobType /\ job \in [Handlers -> JobType] /\ JobOK(job[h])
      /\ DocumentsTypeOK /\ a \in Approvals /\ o \in Operations /\ MyRequest(h) = <<a, o>>
      /\ MyRequest(h) \in RequestKeys /\ o = Head(job[h].todo) /\ o = job[h].todo[1]
      /\ 1 \in 1..Len(job[h].todo) /\ approval[a].status = "IN_FLIGHT"
      /\ job[h].todo \in Seq(Operations)
  BY <1>0, RequestOf DEF Working, MyRequest, MyOp, MyApproval
<1> DEFINE s == IF job[h].got = "good" THEN "COMPLETE" ELSE "FAILED"
<1>2. /\ UNCHANGED <<approval, lease, live, minute, responses, cache, retained, calls, undisclosed,
                     lost, faults>>
      /\ request' = [request EXCEPT ![<<a, o>>] = s] /\ s \in {"COMPLETE", "FAILED"}
  BY <1>1 DEF Complete, researchAux
<1>3. request[<<a, o>>] = "RESERVED" /\ request \in [RequestKeys -> RequestStatus]
  BY <1>0, <1>1 DEF JobOK, JobRequests, Working, Asking, DocumentsTypeOK
<1> HIDE DEF s
<1>4. \A b \in Approvals, op \in Operations :
        request'[<<b, op>>] = IF b = a /\ op = o THEN s ELSE request[<<b, op>>]
  BY <1>2, <1>3 DEF RequestKeys
<1>5. DocumentsTypeOK'
  <2>1. request' \in [RequestKeys -> RequestStatus]
    BY <1>2, <1>3 DEF RequestStatus
  <2> QED BY <1>1, <1>2, <2>1 DEF DocumentsTypeOK
<1>6. RequestsKnown'
  <2>1. RequestsKnown
    BY DEF ResearchInv, DocumentsOK
  <2>2. approval[a].status = "IN_FLIGHT"
    BY <1>1
  <2> HIDE DEF a, o
  <2> SUFFICES ASSUME NEW b \in Approvals, NEW op \in Operations
      PROVE  /\ approval[b].status \in {"NONE", "PENDING"} => request'[<<b, op>>] = "NONE"
             /\ request'[<<b, op>>] = "NONE" => calls[<<b, op>>] = 0
             /\ calls[<<b, op>>] <= 1
             /\ approval[b].status = "COMPLETE" => request'[<<b, op>>] # "RESERVED"
             /\ request'[<<b, op>>] # "NONE" => /\ approval[b].billable
                                                /\ op \in OpsOf(approval[b].plan)
    BY <1>2 DEF RequestsKnown
  <2>3. CASE b = a /\ op = o
    BY <1>2, <1>3, <1>4, <2>1, <2>2, <2>3 DEF RequestsKnown
  <2>4. CASE ~(b = a /\ op = o)
    BY <1>4, <2>1, <2>4 DEF RequestsKnown
  <2> QED BY <2>3, <2>4
<1>7. PICK r \in JobType :
           /\ r = [Merge(h, job[h].got) EXCEPT !.got = ""]
           /\ r.approval = job[h].approval /\ r.pc = "perform" /\ r.todo = Tail(job[h].todo)
           /\ r.leased = job[h].leased /\ r.result = job[h].result
           /\ JobEvidence(r) /\ JobFree(r) /\ JobServes(r) /\ JobUsable(r)
  BY <1>0, MergeOK
<1>8. job' = [job EXCEPT ![h] = r]
  BY <1>7 DEF Complete
<1>9. JobOK(r)'
  <2>1. JobServes(r)' /\ JobUsable(r)' /\ JobEvidence(r)' /\ JobFree(r)'
    BY <1>2, <1>7 DEF JobServes, JobUsable, JobEvidence, JobFree
  <2>2. /\ Len(r.todo) = Len(job[h].todo) - 1 /\ Len(job[h].todo) \in Nat \ {0}
        /\ \A i \in 1..Len(r.todo) : r.todo[i] = job[h].todo[i + 1] /\ i + 1 \in 2..Len(job[h].todo)
    BY <1>0, <1>1, <1>7, TailIndex
  <2>3. PICK t \in Seq(Operations) : t = job[h].todo
    BY <1>1
  <2>4. /\ \A i \in 1..Len(t) : t[i] \in OpsOf(approval[a].plan)
        /\ \A i, k \in 1..Len(t) : t[i] = t[k] => i = k
        /\ \A i \in 1..Len(t) : i > 1 => request[<<a, t[i]>>] = "NONE"
        /\ \A op \in Operations : request[<<a, op>>] = "RESERVED" => op = o
    <3>1. JobPlan(job[h]) /\ JobRequests(job[h]) /\ job[h].pc \in Working /\ job[h].pc # "fail"
          /\ job[h].pc # "perform"
      BY <1>0, <1>1 DEF JobOK, Working
    <3>2. /\ \A i \in 1..Len(t) : t[i] \in OpsOf(approval[a].plan)
          /\ \A i, k \in 1..Len(t) : t[i] = t[k] => i = k
      BY <2>3, <3>1, Zenon DEF JobPlan
    <3>3. /\ \A i \in 1..Len(t) : i > 1 => request[<<a, t[i]>>] = "NONE"
          /\ \A op \in Operations : request[<<a, op>>] = "RESERVED" => op = o
      BY <2>3, <3>1, Zenon DEF JobRequests, MyOp
    <3> QED BY <3>2, <3>3
  <2>5. JobPlan(r)'
    <3>1. /\ r.approval = a /\ r.pc = "perform" /\ approval'[a].status = "IN_FLIGHT"
          /\ approval'[a].plan = approval[a].plan
      BY <1>1, <1>2, <1>7
    <3>2. \A i \in 1..Len(r.todo) : r.todo[i] = t[i + 1] /\ i + 1 \in 1..Len(t)
      BY <2>2, <2>3
    <3> HIDE DEF a, o
    <3>3. \A i \in 1..Len(r.todo) : r.todo[i] \in OpsOf(approval'[a].plan)
      BY <3>1, <3>2, <2>4
    <3>4. \A i, k \in 1..Len(r.todo) : r.todo[i] = r.todo[k] => i = k
      <4> SUFFICES ASSUME NEW i \in 1..Len(r.todo), NEW k \in 1..Len(r.todo), r.todo[i] = r.todo[k]
          PROVE  i = k
        OBVIOUS
      <4>1. i + 1 = k + 1
        BY <3>2, <2>4
      <4> QED BY <4>1
    <3> QED BY <3>1, <3>3, <3>4 DEF JobPlan, Asking
  <2>6. JobRequests(r)'
    <3>1. r.approval = a /\ o = t[1] /\ r.pc = "perform"
      BY <1>1, <1>7, <2>3
    <3> HIDE DEF a, o
    <3>2. \A i \in 1..Len(r.todo) : request'[<<a, r.todo[i]>>] = "NONE"
      <4> SUFFICES ASSUME NEW i \in 1..Len(r.todo) PROVE request'[<<a, r.todo[i]>>] = "NONE"
        OBVIOUS
      <4>1. PICK k \in 2..Len(t) : r.todo[i] = t[k]
        BY <2>2, <2>3
      <4>2. t[k] \in Operations /\ request[<<a, t[k]>>] = "NONE" /\ t[k] # t[1]
        BY <2>4
      <4> QED BY <1>1, <1>4, <3>1, <4>1, <4>2
    <3>3. ASSUME NEW op \in Operations, request'[<<a, op>>] = "RESERVED" PROVE FALSE
      <4>1. a \in Approvals
        BY <1>1
      <4>2. request'[<<a, op>>] = IF op = o THEN s ELSE request[<<a, op>>]
        BY <4>1, <1>4
      <4>3. request[<<a, op>>] = "RESERVED" => op = o
        BY <2>4
      <4> QED BY <3>3, <4>2, <4>3, <1>2
    <3> QED BY <3>1, <3>2, <3>3 DEF JobRequests, Asking
  <2> QED BY <2>1, <2>5, <2>6 DEF JobOK
<1>10. job[h].pc \in Working /\ r.pc \in Working /\ r.approval = job[h].approval
  BY <1>0, <1>7 DEF Working
<1>11. \A b \in Approvals, op \in Operations : b # job[h].approval =>
         /\ request'[<<b, op>>] = request[<<b, op>>]
         /\ calls'[<<b, op>>] = calls[<<b, op>>]
  <2> SUFFICES ASSUME NEW b \in Approvals, NEW op \in Operations, b # a
      PROVE  request'[<<b, op>>] = request[<<b, op>>] /\ calls'[<<b, op>>] = calls[<<b, op>>]
    OBVIOUS
  <2> HIDE DEF a, o
  <2> QED BY <1>2, <1>4
<1>12. UNCHANGED <<approval, lease, live, responses, cache, retained>>
  BY <1>2
<1> HIDE DEF a, o
<1> QED BY <1>1, <1>5, <1>6, <1>7, <1>8, <1>9, <1>10, <1>11, <1>12, RequestStep

-----------------------------------------------------------------------------
(* The life of an approval.                                                *)

\* A handler moves its approval on, to a status from which nothing returns.
LEMMA StatusStep ==
  ASSUME ResearchInv, NEW h \in Handlers, job[h].pc \notin {"idle", "done"},
         UNCHANGED <<lease, live, request, minute, responses, cache, retained, researchAux>>,
         NEW s \in {"IN_FLIGHT", "COMPLETE", "FAILED"},
         approval' = [approval EXCEPT ![job[h].approval].status = s],
         MyApproval(h).status \in {"PENDING", "IN_FLIGHT"},
         s = "COMPLETE" => \A op \in Operations : request[<<job[h].approval, op>>] # "RESERVED",
         \A g \in Handlers : g # h /\ job[g].pc \in Working => job[g].approval # job[h].approval,
         NEW r \in JobType, job' = [job EXCEPT ![h] = r], JobOK(r)',
         r.approval = job[h].approval, r.leased = job[h].leased
  PROVE  ResearchInv'
<1>1. /\ job \in [Handlers -> JobType] /\ job[h].approval \in Approvals /\ DocumentsTypeOK
      /\ approval \in [Approvals -> ApprovalType] /\ MyApproval(h) \in ApprovalType
  BY AtWork
<1>2. PICK a \in Approvals : a = job[h].approval
  BY <1>1
<1>3. \A b \in Approvals :
        /\ approval'[b].status = IF b = a THEN s ELSE approval[b].status
        /\ approval'[b].property = approval[b].property
        /\ approval'[b].plan = approval[b].plan
        /\ approval'[b].refresh = approval[b].refresh
        /\ approval'[b].known = approval[b].known
        /\ approval'[b].billable = approval[b].billable
        /\ b # a => approval'[b] = approval[b]
  BY <1>1, <1>2 DEF ApprovalType
<1>4. approval[a].status \in {"PENDING", "IN_FLIGHT"}
  BY <1>2 DEF MyApproval
<1>5. Grows
  <2>1. \A b \in Approvals : approval[b].status \in {"COMPLETE", "FAILED"} => approval'[b] = approval[b]
    BY <1>3, <1>4
  <2> QED BY <1>3, <1>4, <2>1 DEF Grows
<1>6. DocumentsTypeOK'
  <2>1. approval' \in [Approvals -> ApprovalType]
    <3>1. [approval[a] EXCEPT !.status = s] \in ApprovalType
      <4>1. s \in ApprovalStatus
        BY DEF ApprovalStatus
      <4>2. approval[a] \in ApprovalType
        BY <1>1
      <4> QED BY <4>1, <4>2 DEF ApprovalType
    <3>2. approval' = [approval EXCEPT ![a] = [approval[a] EXCEPT !.status = s]]
      BY <1>1, <1>2
    <3> QED BY <1>1, <3>1, <3>2
  <2> QED BY <1>1, <2>1 DEF DocumentsTypeOK, researchAux
<1>7. DocumentsOK'
  <2>1. DocumentsOK
    BY DEF ResearchInv
  <2>2. ApprovalsKnown' /\ FreePlans'
    BY <1>3, <1>4, <2>1 DEF DocumentsOK, ApprovalsKnown, FreePlans
  <2>3. RequestsKnown'
    <3>1. RequestsKnown /\ calls' = calls /\ request' = request
      BY <2>1 DEF DocumentsOK, researchAux
    <3> SUFFICES ASSUME NEW b \in Approvals, NEW op \in Operations
        PROVE  /\ approval'[b].status \in {"NONE", "PENDING"} => request'[<<b, op>>] = "NONE"
               /\ request'[<<b, op>>] = "NONE" => calls'[<<b, op>>] = 0
               /\ calls'[<<b, op>>] <= 1
               /\ approval'[b].status = "COMPLETE" => request'[<<b, op>>] # "RESERVED"
               /\ request'[<<b, op>>] # "NONE" => /\ approval'[b].billable
                                                 /\ op \in OpsOf(approval'[b].plan)
      BY Zenon DEF RequestsKnown
    <3>2. b = a => (approval'[b].status = "COMPLETE" => request[<<b, op>>] # "RESERVED")
      BY <1>2, <1>3
    <3>3. approval'[b].billable = approval[b].billable /\ approval'[b].plan = approval[b].plan
      BY <1>3
    <3>4. /\ approval'[b].status \in {"NONE", "PENDING"} => approval[b].status \in {"NONE", "PENDING"}
          /\ b # a => approval'[b].status = approval[b].status
      BY <1>3, <1>4
    <3>5. /\ approval[b].status \in {"NONE", "PENDING"} => request[<<b, op>>] = "NONE"
          /\ request[<<b, op>>] = "NONE" => calls[<<b, op>>] = 0
          /\ calls[<<b, op>>] <= 1
          /\ approval[b].status = "COMPLETE" => request[<<b, op>>] # "RESERVED"
          /\ request[<<b, op>>] # "NONE" => /\ approval[b].billable
                                            /\ op \in OpsOf(approval[b].plan)
      BY <3>1 DEF RequestsKnown
    <3> QED BY <3>1, <3>2, <3>3, <3>4, <3>5
  <2>4. CacheBacked' /\ EvidenceBacked'
    BY <2>1 DEF DocumentsOK, CacheBacked, EvidenceBacked
  <2> QED BY <2>2, <2>3, <2>4 DEF DocumentsOK
<1>8. ASSUME NEW g \in Handlers, g # h, job[g].pc \in Working
      PROVE  Steady(job[g].approval) /\ r.approval # job[g].approval
  <2>1. job[g].approval # job[h].approval /\ job[g].approval \in Approvals
    BY <1>8, AtWork DEF Working
  <2> QED BY <1>2, <1>3, <2>1 DEF Steady, researchAux
<1>9. \A g \in Handlers : LeaseHeld(job[g], g) /\ JobServes(job[g])
  BY DEF ResearchInv, JobOK
<1>10. ASSUME NEW g \in Handlers, g # h PROVE LeaseHeld(job[g], g)'
  <2>1. PICK j \in JobType : j = job[g]
    BY <1>1
  <2>2. LeaseHeld(j, g)'
    BY <1>5, <1>9, <2>1, LeaseStays
  <2>3. job'[g] = j
    BY <1>1, <1>10, <2>1
  <2> QED BY <2>2, <2>3 DEF LeaseHeld
<1>11. LeaseHeld(r, h)'
  <2>1. LeaseHeld(r, h) /\ r.approval \in Approvals
    BY <1>1, <1>9 DEF LeaseHeld
  <2> QED BY <1>5, <2>1 DEF LeaseHeld, Grows
<1> QED BY <1>1, <1>5, <1>6, <1>7, <1>8, <1>10, <1>11, OneJob

LEMMA StartStep ==
  ASSUME ResearchInv, NEW h \in Handlers, Start(h)
  PROVE  ResearchInv'
<1>0. /\ job[h].pc = "start" /\ job[h].pc \notin {"idle", "done"}
      /\ UNCHANGED <<lease, live, request, minute, responses, cache, retained, researchAux>>
  BY DEF Start, At
<1>1. /\ job[h] \in JobType /\ job \in [Handlers -> JobType] /\ JobOK(job[h])
      /\ DocumentsTypeOK /\ job[h].approval \in Approvals
  BY <1>0, AtWork
<1>2. CASE ~MayStart(h)
  <2>1. PICK r : r = [job[h] EXCEPT !.pc = "unlock", !.result = "error"]
    OBVIOUS
  <2>2. r \in JobType /\ r.pc = "unlock" /\ r.approval = job[h].approval
        /\ r.leased = job[h].leased /\ r.result = "error" /\ job' = [job EXCEPT ![h] = r]
    BY <1>1, <1>2, <2>1 DEF JobType, Places, Start
  <2>3. UNCHANGED <<researchDocs, calls>> /\ DocumentsTypeOK'
    BY <1>0, <1>1, <1>2, LocalTypes DEF Start, researchDocs, researchAux, DocumentsTypeOK
  <2> QED BY <1>0, <2>2, <2>3, LeavesLoop
<1>3. CASE MayStart(h)
  <2>1. PICK a \in Approvals : a = job[h].approval
    BY <1>1
  <2>2. /\ approval[a].status = "PENDING" /\ approval[a].property \in Properties
        /\ approval[a].plan \in Plans /\ approval[a].known \in SUBSET Operations
        /\ approval[a].plan \in Seq(Operations)
        /\ approval[a].known \in retained[approval[a].property] \cup {{}}
        /\ approval[a] \in ApprovalType
    <3>1. approval[a].status = "PENDING"
      BY <1>3, <2>1 DEF MayStart, Usable
    <3>2. approval[a] \in ApprovalType
      BY <1>1 DEF DocumentsTypeOK
    <3> QED BY <3>1, <3>2, PlanAssumption
            DEF ResearchInv, DocumentsOK, ApprovalsKnown, ApprovalType
  <2>3. approval' = [approval EXCEPT ![job[h].approval].status = "IN_FLIGHT"]
    BY <1>3 DEF Start
  <2>4. PICK r : r = [job[h] EXCEPT !.pc = "perform", !.todo = MyApproval(h).plan,
                                    !.have = MyApproval(h).known]
    OBVIOUS
  <2>5. /\ r \in JobType /\ r.pc = "perform" /\ r.approval = a /\ r.leased = job[h].leased
        /\ r.result = job[h].result /\ r.todo = approval[a].plan /\ r.have = approval[a].known
        /\ job' = [job EXCEPT ![h] = r]
    BY <1>1, <1>3, <2>1, <2>2, <2>4 DEF JobType, Places, Start, MyApproval
  <2>6. /\ approval'[a].status = "IN_FLIGHT" /\ approval'[a].property = approval[a].property
        /\ approval'[a].plan = approval[a].plan /\ approval'[a].known = approval[a].known
        /\ approval'[a].billable = approval[a].billable
        /\ \A b \in Approvals : b # a => approval'[b] = approval[b]
    BY <1>1, <2>1, <2>2, <2>3 DEF DocumentsTypeOK, ApprovalType
  <2>7. JobOK(r)'
    <3>1. JobServes(r)'
      BY <2>5, <2>6 DEF JobServes
    <3>2. JobUsable(r)'
      BY <1>0, <1>1, <2>1, <2>2, <2>5 DEF JobOK, JobUsable
    <3>3. JobPlan(r)'
      <4>1. \A i, k \in 1..Len(r.todo) : r.todo[i] = r.todo[k] => i = k
        BY <2>2, <2>5, PlanAssumption
      <4>2. \A i \in 1..Len(r.todo) : r.todo[i] \in OpsOf(approval'[a].plan)
        BY <2>5, <2>6 DEF OpsOf
      <4> QED BY <2>5, <2>6, <4>1, <4>2 DEF JobPlan, Asking
    <3>4. JobRequests(r)'
      <4>1. \A op \in Operations : request'[<<a, op>>] = "NONE"
        BY <1>0, <2>2 DEF ResearchInv, DocumentsOK, RequestsKnown
      <4>2. \A i \in 1..Len(r.todo) : r.todo[i] \in Operations
        BY <2>2, <2>5
      <4> QED BY <2>5, <4>1, <4>2 DEF JobRequests, Asking
    <3>5. JobEvidence(r)'
      <4>1. ASSUME approval[a].known # {}
            PROVE  /\ Records \in approval[a].known
                   /\ \A op \in approval[a].known : <<approval[a].property, op, "good">> \in responses
                   /\ retained[approval[a].property] # {}
        BY <2>2, <4>1 DEF ResearchInv, DocumentsOK, EvidenceBacked
      <4> QED BY <1>0, <2>5, <2>6, <4>1 DEF JobEvidence, Asking
    <3>6. JobFree(r)'
      BY <2>5, <2>6 DEF JobFree, Asking
    <3> QED BY <3>1, <3>2, <3>3, <3>4, <3>5, <3>6 DEF JobOK
  <2>8. \A g \in Handlers : g # h /\ job[g].pc \in Working => job[g].approval # job[h].approval
    <3> SUFFICES ASSUME NEW g \in Handlers, job[g].pc \in Working PROVE job[g].approval # a
      BY <2>1
    <3>1. approval[job[g].approval].status = "IN_FLIGHT"
      BY DEF ResearchInv, JobOK, JobPlan
    <3> QED BY <2>2, <3>1
  <2>9. MyApproval(h).status = "PENDING"
    BY <2>1, <2>2 DEF MyApproval
  <2> QED BY <1>0, <2>1, <2>3, <2>5, <2>7, <2>8, <2>9, StatusStep
<1> QED BY <1>2, <1>3

LEMMA FinishStep ==
  ASSUME ResearchInv, NEW h \in Handlers, Finish(h)
  PROVE  ResearchInv'
<1>0. /\ job[h].pc = "finish" /\ job[h].pc \in Working
      /\ UNCHANGED <<lease, live, request, minute, responses, cache, retained, researchAux>>
      /\ approval' = [approval EXCEPT ![job[h].approval].status = "COMPLETE"]
  BY DEF Finish, At, Working
<1>1. /\ job[h] \in JobType /\ job \in [Handlers -> JobType] /\ JobOK(job[h])
      /\ DocumentsTypeOK /\ job[h].approval \in Approvals
      /\ approval \in [Approvals -> ApprovalType]
  BY <1>0, AtWork DEF Working
<1>2. PICK a \in Approvals : a = job[h].approval
  BY <1>1
<1> DEFINE w == IF job[h].have # {} /\ job[h].ok THEN "usable" ELSE "unusable"
<1>3. PICK r : r = [job[h] EXCEPT !.pc = "unlock", !.result = w]
  OBVIOUS
<1>4. /\ r \in JobType /\ r.pc = "unlock" /\ r.approval = a /\ r.leased = job[h].leased
      /\ job' = [job EXCEPT ![h] = r]
      /\ r.result = "usable" => job[h].have # {}
  BY <1>1, <1>2, <1>3 DEF JobType, Places, Finish
<1>5. approval'[a].status = "COMPLETE" /\ approval'[a].property = approval[a].property
  BY <1>0, <1>1, <1>2 DEF ApprovalType
<1>6. job[h].have # {} => retained[approval[a].property] # {}
  BY <1>0, <1>1, <1>2 DEF JobOK, JobEvidence
<1>7. JobOK(r)'
  <2>1. JobServes(r)' /\ JobUsable(r)'
    BY <1>0, <1>2, <1>4, <1>5, <1>6 DEF JobServes, JobUsable
  <2> QED BY <1>4, <2>1 DEF JobOK, JobPlan, JobRequests, JobEvidence, JobFree, Working
<1>8. \A op \in Operations : request[<<job[h].approval, op>>] # "RESERVED"
  BY <1>0, <1>1 DEF JobOK, JobRequests, Asking
<1>9. MyApproval(h).status = "IN_FLIGHT"
  BY <1>0, <1>1 DEF JobOK, JobPlan, MyApproval
<1>10. \A g \in Handlers : g # h /\ job[g].pc \in Working => job[g].approval # job[h].approval
  BY <1>0 DEF ResearchInv, OneRunner
<1>11. job[h].pc \notin {"idle", "done"}
  BY <1>0
<1> QED BY <1>0, <1>2, <1>4, <1>7, <1>8, <1>9, <1>10, <1>11, StatusStep

LEMMA FailStep ==
  ASSUME ResearchInv, NEW h \in Handlers, Fail(h)
  PROVE  ResearchInv'
<1>0. /\ job[h].pc = "fail" /\ job[h].pc \in Working /\ job[h].pc \notin {"idle", "done"}
      /\ UNCHANGED <<lease, live, request, minute, responses, cache, retained, researchAux>>
      /\ approval' = [approval EXCEPT ![job[h].approval].status = "FAILED"]
  BY DEF Fail, At, Working
<1>1. /\ job[h] \in JobType /\ job \in [Handlers -> JobType] /\ JobOK(job[h])
      /\ DocumentsTypeOK /\ job[h].approval \in Approvals
      /\ approval \in [Approvals -> ApprovalType]
  BY <1>0, AtWork DEF Working
<1>2. PICK a \in Approvals : a = job[h].approval
  BY <1>1
<1>3. PICK r : r = [job[h] EXCEPT !.pc = "unlock", !.result = "error"]
  OBVIOUS
<1>4. /\ r \in JobType /\ r.pc = "unlock" /\ r.approval = a /\ r.leased = job[h].leased
      /\ job' = [job EXCEPT ![h] = r] /\ r.result = "error"
  BY <1>1, <1>2, <1>3 DEF JobType, Places, Fail
<1>5. approval'[a].status = "FAILED"
  <2>1. approval'[a] = [approval[a] EXCEPT !.status = "FAILED"] /\ approval[a] \in ApprovalType
    BY <1>0, <1>1, <1>2
  <2> QED BY <2>1 DEF ApprovalType
<1>7. JobOK(r)'
  BY <1>2, <1>4, <1>5
     DEF JobOK, JobServes, JobUsable, JobPlan, JobRequests, JobEvidence, JobFree, Working
<1>8. MyApproval(h).status = "IN_FLIGHT"
  BY <1>0, <1>1 DEF JobOK, JobPlan, MyApproval
<1>9. \A g \in Handlers : g # h /\ job[g].pc \in Working => job[g].approval # job[h].approval
  BY <1>0 DEF ResearchInv, OneRunner
<1> QED BY <1>0, <1>2, <1>4, <1>7, <1>8, <1>9, StatusStep

LEMMA PersistStep ==
  ASSUME ResearchInv, NEW h \in Handlers, Persist(h)
  PROVE  ResearchInv'
<1>0. /\ job[h].pc = "perform" /\ job[h].pc \in Working /\ job[h].todo = <<>>
      /\ UNCHANGED <<approval, lease, live, request, minute, responses, cache, researchAux>>
  BY DEF Persist, At, Working
<1>1. /\ job[h] \in JobType /\ job \in [Handlers -> JobType] /\ JobOK(job[h])
      /\ DocumentsTypeOK /\ job[h].approval \in Approvals /\ MyProperty(h) \in Properties
  BY <1>0, AtWork DEF Working, MyProperty
<1>2. PICK p \in Properties : p = MyProperty(h)
  BY <1>1
<1>3. PICK r : r = [job[h] EXCEPT !.pc = "finish"]
  OBVIOUS
<1>4. /\ r \in JobType /\ r.pc = "finish" /\ r.approval = job[h].approval
      /\ r.leased = job[h].leased /\ r.result = job[h].result /\ r.todo = job[h].todo
      /\ r.have = job[h].have /\ r.touched = job[h].touched
      /\ job' = [job EXCEPT ![h] = r]
  BY <1>1, <1>3 DEF JobType, Places, Persist, Goto
<1>5. PICK e \in SUBSET Operations : e = job[h].have
  BY <1>1 DEF JobType
<1>6. /\ retained \in [Properties -> SUBSET (SUBSET Operations)]
      /\ \A q \in Properties :
           retained'[q] = IF q = p /\ e # {} /\ job[h].touched THEN retained[q] \cup {e}
                                                               ELSE retained[q]
      /\ retained' \in [Properties -> SUBSET (SUBSET Operations)]
  <2>1. retained \in [Properties -> SUBSET (SUBSET Operations)]
    BY <1>1 DEF DocumentsTypeOK
  <2>2. CASE e # {} /\ job[h].touched
    <3>1. retained' = [retained EXCEPT ![p] = retained[p] \cup {e}]
      BY <1>2, <1>5, <2>2 DEF Persist
    <3> QED BY <2>1, <2>2, <3>1
  <2>3. CASE ~(e # {} /\ job[h].touched)
    BY <1>5, <2>1, <2>3 DEF Persist
  <2> QED BY <2>1, <2>2, <2>3
<1>7. e # {} => Records \in e /\ \A op \in e : <<p, op, "good">> \in responses
  BY <1>0, <1>1, <1>2, <1>5 DEF JobOK, JobEvidence, MyProperty, MyApproval
<1>8. DocumentsTypeOK'
  BY <1>0, <1>1, <1>6 DEF DocumentsTypeOK, researchAux
<1>9. Grows
  BY <1>0, <1>6 DEF Grows
<1>10. DocumentsOK'
  <2>1. DocumentsOK
    BY DEF ResearchInv
  <2>2. EvidenceBacked'
    BY <1>0, <1>6, <1>7, <2>1 DEF DocumentsOK, EvidenceBacked
  <2>3. ApprovalsKnown'
    BY <1>0, <1>6, <2>1 DEF DocumentsOK, ApprovalsKnown
  <2>4. RequestsKnown' /\ CacheBacked' /\ FreePlans'
    BY <1>0, <2>1 DEF DocumentsOK, RequestsKnown, CacheBacked, FreePlans, researchAux
  <2> QED BY <2>2, <2>3, <2>4 DEF DocumentsOK
<1>11. JobOK(r)'
  <2>1. JobServes(r) /\ JobUsable(r)
    BY <1>0, <1>1, <1>4, StillServes
  <2>2. JobServes(r)'
    BY <1>0, <2>1 DEF JobServes
  <2>3. JobUsable(r)'
    <3> SUFFICES ASSUME r.result = "usable"
        PROVE  /\ r.approval \in Approvals /\ approval[r.approval].status = "COMPLETE"
               /\ retained'[approval[r.approval].property] # {}
      BY <1>0 DEF JobUsable
    <3>1. approval[r.approval].property \in Properties
      BY <1>1, <1>2, <1>4 DEF MyProperty, MyApproval
    <3> QED BY <1>9, <2>1, <3>1 DEF JobUsable, Grows
  <2>4. JobPlan(r)' /\ JobFree(r)'
    BY <1>0, <1>1, <1>4 DEF JobOK, JobPlan, JobFree, Working, Asking
  <2>5. JobRequests(r)'
    BY <1>0, <1>1, <1>4 DEF JobOK, JobRequests, Working, Asking, researchAux
  <2>6. JobEvidence(r)'
    <3>1. e # {} => retained'[p] # {}
      BY <1>0, <1>1, <1>2, <1>5, <1>6 DEF JobOK, JobEvidence, MyProperty, MyApproval, JobType
    <3>2. approval'[r.approval].property = p
      BY <1>0, <1>2, <1>4 DEF MyProperty, MyApproval
    <3> QED BY <1>0, <1>4, <1>5, <1>7, <3>1, <3>2 DEF JobEvidence, Asking
  <2> QED BY <2>2, <2>3, <2>4, <2>5, <2>6 DEF JobOK
<1>12. \A g \in Handlers : LeaseHeld(job[g], g)
  BY DEF ResearchInv
<1>13. ASSUME NEW g \in Handlers, g # h PROVE LeaseHeld(job[g], g)'
  <2>1. job'[g] = job[g]
    BY <1>1, <1>4, <1>13
  <2> QED BY <1>0, <1>12, <2>1 DEF LeaseHeld
<1>14. LeaseHeld(r, h)'
  BY <1>0, <1>4, <1>12 DEF LeaseHeld
<1>15. ASSUME NEW g \in Handlers, g # h, job[g].pc \in Working
       PROVE  Steady(job[g].approval) /\ r.approval # job[g].approval
  BY <1>0, <1>4, <1>15 DEF Steady, researchAux, ResearchInv, OneRunner
<1> QED BY <1>4, <1>8, <1>9, <1>10, <1>11, <1>13, <1>14, <1>15, OneJob

\* The documents change, the handlers and the leases stay.
LEMMA HandlersStay ==
  ASSUME ResearchInv, Grows, DocumentsTypeOK', DocumentsOK', UNCHANGED <<lease, live, job>>,
         \A g \in Handlers : job[g].pc \in Working => Steady(job[g].approval)
  PROVE  ResearchInv'
<1>1. job \in [Handlers -> JobType] /\ DocumentsTypeOK /\ ApprovalsKnown
  BY TypeParts DEF ResearchInv, DocumentsOK
<1>2. TypeOK'
  BY <1>1 DEF TypeOK, DocumentsTypeOK, ApprovalType, JobType
<1>3. ASSUME NEW g \in Handlers PROVE JobOK(job[g])' /\ LeaseHeld(job[g], g)'
  <2>1. PICK j \in JobType : j = job[g]
    BY <1>1
  <2>2. JobOK(j) /\ LeaseHeld(j, g)
    BY <2>1 DEF ResearchInv
  <2>3. JobOK(j)'
    BY <1>1, <2>1, <2>2, JobStays
  <2>4. LeaseHeld(j, g)'
    BY <2>2, LeaseStays DEF JobOK
  <2>5. job'[g] = j
    BY <2>1
  <2> QED BY <2>3, <2>4, <2>5, SameJob DEF LeaseHeld
<1>4. OneRunner'
  BY DEF ResearchInv, OneRunner
<1> QED BY <1>2, <1>3, <1>4 DEF ResearchInv

LEMMA QuoteStep ==
  ASSUME ResearchInv, NEW a \in Approvals, NEW p \in Properties, NEW plan \in Plans,
         NEW refresh \in Refreshes, NEW known \in retained[p] \cup {{}},
         Quote(a, p, plan, refresh, known)
  PROVE  ResearchInv'
<1> DEFINE needed == \E op \in OpsOf(plan) :
                       ~(~refresh /\ (op \in known \/ cache[<<p, op>>] # "none"))
<1>1. DocumentsTypeOK /\ job \in [Handlers -> JobType] /\ DocumentsOK
  BY TypeParts DEF ResearchInv
<1>2. /\ approval[a].status = "NONE"
      /\ UNCHANGED <<lease, live, request, minute, responses, cache, retained, job, calls,
                     undisclosed, lost, faults>>
  BY DEF Quote, researchAux
<1>3. PICK q : /\ q = [status |-> "PENDING", property |-> p, plan |-> plan, refresh |-> refresh,
                       known |-> known, seen |-> IF needed THEN Activity(p) ELSE {},
                       billable |-> needed, expired |-> FALSE]
               /\ approval' = [approval EXCEPT ![a] = q]
  BY DEF Quote
<1>4. /\ q.status = "PENDING" /\ q.property = p /\ q.plan = plan /\ q.refresh = refresh
      /\ q.known = known /\ q.billable = needed
  BY <1>3
<1>5. q \in ApprovalType
  <2>1. Activity(p) \subseteq RequestKeys \X RequestStatus
    BY <1>1 DEF Activity, DocumentsTypeOK
  <2>2. known \in SUBSET Operations /\ refresh \in BOOLEAN /\ needed \in BOOLEAN
    BY <1>1, ResearchAssumption DEF DocumentsTypeOK
  <2> HIDE DEF needed
  <2> QED BY <1>3, <2>1, <2>2 DEF ApprovalType, ApprovalStatus
<1>6. ~needed => ~refresh /\ \A op \in OpsOf(plan) : op \in known \/ cache[<<p, op>>] # "none"
  <2>1. plan[1] \in OpsOf(plan)
    BY PlanAssumption DEF OpsOf
  <2>2. refresh \in BOOLEAN
    BY ResearchAssumption
  <2> QED BY <2>1, <2>2
<1> HIDE DEF needed
<1>7. \A b \in Approvals : approval'[b] = IF b = a THEN q ELSE approval[b]
  BY <1>1, <1>3 DEF DocumentsTypeOK
<1>8. DocumentsTypeOK'
  <2>1. approval' \in [Approvals -> ApprovalType]
    BY <1>1, <1>3, <1>5 DEF DocumentsTypeOK
  <2> QED BY <1>1, <1>2, <2>1 DEF DocumentsTypeOK
<1>9. Grows
  BY <1>2, <1>7 DEF Grows
<1>10. DocumentsOK'
  <2>1. ApprovalsKnown'
    BY <1>1, <1>2, <1>4, <1>7 DEF DocumentsOK, ApprovalsKnown
  <2>2. RequestsKnown'
    <3> SUFFICES ASSUME NEW b \in Approvals, NEW op \in Operations
        PROVE  /\ approval'[b].status \in {"NONE", "PENDING"} => request[<<b, op>>] = "NONE"
               /\ request[<<b, op>>] = "NONE" => calls[<<b, op>>] = 0
               /\ calls[<<b, op>>] <= 1
               /\ approval'[b].status = "COMPLETE" => request[<<b, op>>] # "RESERVED"
               /\ request[<<b, op>>] # "NONE" => /\ approval'[b].billable
                                                 /\ op \in OpsOf(approval'[b].plan)
      BY <1>2 DEF RequestsKnown
    <3>1. RequestsKnown
      BY <1>1 DEF DocumentsOK
    <3>2. CASE b = a
      BY <1>2, <1>4, <1>7, <3>1, <3>2 DEF RequestsKnown
    <3>3. CASE b # a
      BY <1>7, <3>1, <3>3 DEF RequestsKnown
    <3> QED BY <3>2, <3>3
  <2>3. FreePlans'
    <3> SUFFICES ASSUME NEW b \in Approvals, approval'[b].status # "NONE", ~approval'[b].billable
        PROVE  /\ ~approval'[b].refresh
               /\ \A op \in OpsOf(approval'[b].plan) :
                    op \in approval'[b].known \/ cache[<<approval'[b].property, op>>] # "none"
      BY <1>2 DEF FreePlans
    <3>1. CASE b = a
      BY <1>4, <1>6, <1>7, <3>1
    <3>2. CASE b # a
      BY <1>1, <1>7, <3>2 DEF DocumentsOK, FreePlans
    <3> QED BY <3>1, <3>2
  <2>4. CacheBacked' /\ EvidenceBacked'
    BY <1>1, <1>2 DEF DocumentsOK, CacheBacked, EvidenceBacked
  <2> QED BY <2>1, <2>2, <2>3, <2>4 DEF DocumentsOK
<1>11. ASSUME NEW g \in Handlers, job[g].pc \in Working PROVE Steady(job[g].approval)
  <2>1. approval[job[g].approval].status = "IN_FLIGHT" /\ job[g].approval \in Approvals
    BY <1>11, AtWork DEF ResearchInv, JobOK, JobPlan, Working
  <2> QED BY <1>2, <1>7, <2>1 DEF Steady
<1> QED BY <1>2, <1>8, <1>9, <1>10, <1>11, HandlersStay

LEMMA ExpireApprovalStep ==
  ASSUME ResearchInv, NEW a \in Approvals, ExpireApproval(a)
  PROVE  ResearchInv'
<1>1. DocumentsTypeOK /\ job \in [Handlers -> JobType] /\ DocumentsOK
  BY TypeParts DEF ResearchInv
<1>2. /\ approval[a].status = "PENDING" /\ approval[a] \in ApprovalType
      /\ UNCHANGED <<lease, live, request, minute, responses, cache, retained, job, calls,
                     undisclosed, lost, faults>>
  BY <1>1 DEF ExpireApproval, researchAux, DocumentsTypeOK
<1>3. PICK q : q = [approval[a] EXCEPT !.expired = TRUE] /\ approval' = [approval EXCEPT ![a] = q]
  BY <1>1 DEF ExpireApproval, DocumentsTypeOK
<1>4. /\ q \in ApprovalType /\ q.status = approval[a].status /\ q.property = approval[a].property
      /\ q.plan = approval[a].plan /\ q.refresh = approval[a].refresh
      /\ q.known = approval[a].known /\ q.billable = approval[a].billable
  BY <1>2, <1>3 DEF ApprovalType
<1>5. \A b \in Approvals : approval'[b] = IF b = a THEN q ELSE approval[b]
  BY <1>1, <1>3 DEF DocumentsTypeOK
<1>6. DocumentsTypeOK'
  <2>1. approval' \in [Approvals -> ApprovalType]
    BY <1>1, <1>3, <1>4 DEF DocumentsTypeOK
  <2> QED BY <1>1, <1>2, <2>1 DEF DocumentsTypeOK
<1>7. Grows
  BY <1>2, <1>4, <1>5 DEF Grows
<1>8. DocumentsOK'
  <2>1. ApprovalsKnown' /\ RequestsKnown'
    BY <1>1, <1>2, <1>4, <1>5 DEF DocumentsOK, ApprovalsKnown, RequestsKnown
  <2>2. FreePlans' /\ CacheBacked' /\ EvidenceBacked'
    BY <1>1, <1>2, <1>4, <1>5 DEF DocumentsOK, FreePlans, CacheBacked, EvidenceBacked
  <2> QED BY <2>1, <2>2 DEF DocumentsOK
<1>9. ASSUME NEW g \in Handlers, job[g].pc \in Working PROVE Steady(job[g].approval)
  <2>1. job[g].approval \in Approvals
    BY <1>9, AtWork DEF Working
  <2> QED BY <1>2, <1>4, <1>5, <2>1 DEF Steady
<1> QED BY <1>2, <1>6, <1>7, <1>8, <1>9, HandlersStay

LEMMA NextMinuteStep ==
  ASSUME ResearchInv, NextMinute
  PROVE  ResearchInv'
<1>1. /\ UNCHANGED <<approval, lease, live, request, responses, cache, retained, job, calls>>
      /\ DocumentsTypeOK
  BY TypeParts DEF NextMinute, researchAux, ResearchInv
<1>2. DocumentsTypeOK'
  BY <1>1, ResearchAssumption DEF DocumentsTypeOK, NextMinute, researchAux
<1>3. Grows /\ \A a : Steady(a)
  BY <1>1 DEF Grows, Steady
<1>4. DocumentsOK'
  BY <1>1 DEF ResearchInv, DocumentsOK, ApprovalsKnown, RequestsKnown, CacheBacked, EvidenceBacked,
              FreePlans
<1> QED BY <1>1, <1>2, <1>3, <1>4, HandlersStay

-----------------------------------------------------------------------------
(* Leases.                                                                 *)

\* A handler outside the loop takes or gives back its lease; no lease that somebody
\* else still relies on is touched.
LEMMA LeaseStep ==
  ASSUME ResearchInv, NEW h \in Handlers, job[h].pc \notin {"idle", "done"},
         UNCHANGED <<approval, request, minute, responses, cache, retained, researchAux>>,
         lease' \in [LeaseKeys -> Handlers \cup {Nobody}], live' \subseteq LeaseKeys,
         NEW r \in JobType, job' = [job EXCEPT ![h] = r],
         r.pc \in {"start", "done"}, r.approval = job[h].approval, r.result = job[h].result,
         LeaseHeld(r, h)',
         \A g \in Handlers, k \in LeaseKeys : g # h /\ k \in live /\ lease[k] = g =>
           k \in live' /\ lease'[k] = g
  PROVE  ResearchInv'
<1>1. job \in [Handlers -> JobType] /\ DocumentsTypeOK /\ DocumentsOK
  BY TypeParts DEF ResearchInv
<1>2. Grows /\ \A a : Steady(a)
  BY DEF Grows, Steady, researchAux
<1>3. DocumentsTypeOK'
  BY <1>1 DEF DocumentsTypeOK, researchAux
<1>4. DocumentsOK'
  BY <1>1 DEF DocumentsOK, ApprovalsKnown, RequestsKnown, CacheBacked, EvidenceBacked, FreePlans,
              researchAux
<1>5. JobOK(r)'
  <2>1. JobServes(r) /\ JobUsable(r)
    BY AtWork, StillServes
  <2>2. JobServes(r)' /\ JobUsable(r)'
    BY <2>1 DEF JobServes, JobUsable
  <2> QED BY <2>2 DEF JobOK, JobPlan, JobRequests, JobEvidence, JobFree, Working
<1>6. ASSUME NEW g \in Handlers, g # h PROVE LeaseHeld(job[g], g)'
  <2>1. PICK j \in JobType : j = job[g] /\ job'[g] = j
    BY <1>1, <1>6
  <2> SUFFICES ASSUME j.leased PROVE LeaseHeld(j, g)'
    BY <2>1 DEF LeaseHeld
  <2> DEFINE k == <<approval[j.approval].property, OpsOf(approval[j.approval].plan)>>
  <2>2. approval[j.approval].status # "NONE" /\ k \in live /\ lease[k] = g
    BY <2>1 DEF ResearchInv, LeaseHeld
  <2>3. k \in live' /\ lease'[k] = g
    BY <1>1, <1>6, <2>2 DEF DocumentsTypeOK
  <2> QED BY <2>2, <2>3 DEF LeaseHeld
<1> QED BY <1>2, <1>3, <1>4, <1>5, <1>6, OneJob DEF Working

LEMMA AcquireStep ==
  ASSUME ResearchInv, NEW h \in Handlers, Acquire(h)
  PROVE  ResearchInv'
<1>0. /\ job[h].pc = "acquire" /\ job[h].pc \notin {"idle", "done"}
      /\ UNCHANGED <<approval, request, minute, responses, cache, retained, researchAux>>
  BY DEF Acquire, At
<1>1. /\ job[h] \in JobType /\ job \in [Handlers -> JobType] /\ DocumentsTypeOK
      /\ MyApproval(h).status # "NONE"
  BY <1>0, AtWork
<1>2. PICK k \in LeaseKeys : k = MyLease(h)
  BY <1>0, AtWork
<1>3. CASE lease[k] # Nobody /\ k \in live
  <2>1. PICK r : r = [job[h] EXCEPT !.pc = "done", !.result = "error"]
    OBVIOUS
  <2>2. r \in JobType /\ r.pc = "done" /\ r.approval = job[h].approval
        /\ r.leased = job[h].leased /\ r.result = "error" /\ job' = [job EXCEPT ![h] = r]
    BY <1>1, <1>2, <1>3, <2>1 DEF JobType, Places, Acquire, Refuse
  <2>3. UNCHANGED <<researchDocs, calls>> /\ DocumentsTypeOK'
    BY <1>0, <1>1, <1>2, <1>3, LocalTypes DEF Acquire, researchDocs, researchAux, DocumentsTypeOK
  <2> QED BY <1>0, <2>2, <2>3, LeavesLoop
<1>4. CASE ~(lease[k] # Nobody /\ k \in live)
  <2>1. PICK r : r = [job[h] EXCEPT !.pc = "start", !.leased = TRUE]
    OBVIOUS
  <2>2. r \in JobType /\ r.pc = "start" /\ r.approval = job[h].approval
        /\ r.leased /\ r.result = job[h].result /\ job' = [job EXCEPT ![h] = r]
    BY <1>1, <1>2, <1>4, <2>1 DEF JobType, Places, Acquire
  <2>3. lease' = [lease EXCEPT ![k] = h] /\ live' = live \cup {k}
    BY <1>2, <1>4 DEF Acquire
  <2>4. lease \in [LeaseKeys -> Handlers \cup {Nobody}] /\ live \subseteq LeaseKeys
    BY <1>1 DEF DocumentsTypeOK
  <2>5. lease' \in [LeaseKeys -> Handlers \cup {Nobody}] /\ live' \subseteq LeaseKeys
    BY <2>3, <2>4
  <2>6. LeaseHeld(r, h)'
    BY <1>0, <1>1, <1>2, <2>2, <2>3, <2>4 DEF LeaseHeld, MyLease, MyProperty, MyApproval
  <2>7. \A g \in Handlers, l \in LeaseKeys : g # h /\ l \in live /\ lease[l] = g =>
          l \in live' /\ lease'[l] = g
    BY <1>4, <2>3, <2>4, ResearchAssumption
  <2> QED BY <1>0, <2>2, <2>5, <2>6, <2>7, LeaseStep
<1> QED BY <1>3, <1>4

LEMMA UnlockStep ==
  ASSUME ResearchInv, NEW h \in Handlers, Unlock(h)
  PROVE  ResearchInv'
<1>0. /\ job[h].pc = "unlock" /\ job[h].pc \notin {"idle", "done"}
      /\ UNCHANGED <<approval, request, minute, responses, cache, retained, researchAux>>
  BY DEF Unlock, At
<1>1. job[h] \in JobType /\ job \in [Handlers -> JobType] /\ DocumentsTypeOK
  BY <1>0, AtWork
<1>2. PICK k \in LeaseKeys : k = MyLease(h)
  BY <1>0, AtWork
<1>3. PICK r : r = [job[h] EXCEPT !.pc = "done", !.leased = FALSE]
  OBVIOUS
<1>4. r \in JobType /\ r.pc = "done" /\ r.approval = job[h].approval
      /\ r.leased = FALSE /\ r.result = job[h].result /\ job' = [job EXCEPT ![h] = r]
  BY <1>1, <1>3 DEF JobType, Places, Unlock
<1>5. lease \in [LeaseKeys -> Handlers \cup {Nobody}] /\ live \subseteq LeaseKeys
  BY <1>1 DEF DocumentsTypeOK
<1>6. \/ lease[k] = h /\ lease' = [lease EXCEPT ![k] = Nobody] /\ live' = live \ {k}
      \/ UNCHANGED <<lease, live>>
  BY <1>2 DEF Unlock
<1>7. lease' \in [LeaseKeys -> Handlers \cup {Nobody}] /\ live' \subseteq LeaseKeys
  BY <1>5, <1>6
<1>8. LeaseHeld(r, h)'
  BY <1>4 DEF LeaseHeld
<1>9. \A g \in Handlers, l \in LeaseKeys : g # h /\ l \in live /\ lease[l] = g =>
        l \in live' /\ lease'[l] = g
  BY <1>5, <1>6
<1> QED BY <1>0, <1>4, <1>7, <1>8, <1>9, LeaseStep

\* A lease runs out: whoever holds it relies on it no more.
LEMMA ExpireLeaseStep ==
  ASSUME ResearchInv, NEW k \in LeaseKeys, ExpireLease(k)
  PROVE  ResearchInv'
<1>1. /\ job \in [Handlers -> JobType] /\ DocumentsTypeOK /\ DocumentsOK /\ ApprovalsKnown
      /\ UNCHANGED <<approval, lease, request, minute, responses, cache, retained, calls,
                     undisclosed, lost, faults>>
      /\ live' = live \ {k}
  BY TypeParts DEF ResearchInv, DocumentsOK, ExpireLease, researchAux
<1>2. Grows /\ \A a : Steady(a)
  BY <1>1 DEF Grows, Steady
<1>3. DocumentsTypeOK'
  BY <1>1 DEF DocumentsTypeOK
<1>4. DocumentsOK'
  BY <1>1 DEF DocumentsOK, ApprovalsKnown, RequestsKnown, CacheBacked, EvidenceBacked, FreePlans
<1>5. ASSUME NEW g \in Handlers
      PROVE  /\ job'[g] \in JobType /\ JobOK(job[g])' /\ LeaseHeld(job[g], g)'
             /\ job'[g].pc = job[g].pc /\ job'[g].approval = job[g].approval
  <2>1. PICK j \in JobType : j = job[g]
    BY <1>1
  <2> DEFINE b == j.leased /\ MyLease(g) # k
  <2>2. PICK r : r = [j EXCEPT !.leased = b]
    OBVIOUS
  <2>3. /\ r \in JobType /\ r.pc = j.pc /\ r.approval = j.approval /\ r.key = j.key
        /\ r.todo = j.todo /\ r.have = j.have /\ r.touched = j.touched /\ r.ok = j.ok
        /\ r.got = j.got /\ r.result = j.result /\ r.leased = b
    <3>1. b \in BOOLEAN
      BY <2>1 DEF JobType
    <3> HIDE DEF b
    <3> QED BY <2>2, <3>1 DEF JobType
  <2>4. job'[g] = r
    BY <2>1, <2>2 DEF ExpireLease
  <2>5. JobOK(j) /\ LeaseHeld(j, g)
    BY <2>1 DEF ResearchInv
  <2>6. JobOK(r)
    <3>1. JobServes(r)
      <4>1. ASSUME j = Idle PROVE r = Idle
        <5>1. b = FALSE
          BY <4>1, IdleType
        <5> HIDE DEF b
        <5> QED BY <2>2, <4>1, <5>1 DEF Idle
      <4> QED BY <2>3, <2>5, <4>1 DEF JobOK, JobServes
    <3>2. JobUsable(r) /\ JobPlan(r) /\ JobFree(r)
      BY <2>3, <2>5 DEF JobOK, JobUsable, JobPlan, JobFree
    <3>3. JobRequests(r) /\ JobEvidence(r)
      BY <2>3, <2>5 DEF JobOK, JobRequests, JobEvidence
    <3> QED BY <3>1, <3>2, <3>3 DEF JobOK
  <2>7. JobOK(r)'
    BY <1>1, <1>2, <2>3, <2>6, JobStays
  <2>8. LeaseHeld(r, g)'
    BY <1>1, <2>1, <2>3, <2>5 DEF LeaseHeld, MyLease, MyProperty, MyApproval
  <2> QED BY <2>1, <2>3, <2>4, <2>7, <2>8, SameJob DEF LeaseHeld
<1>6. TypeOK'
  <2>1. job' \in [Handlers -> JobType]
    BY <1>5 DEF ExpireLease
  <2> QED BY <1>3, <2>1 DEF TypeOK, DocumentsTypeOK, ApprovalType, JobType
<1>7. OneRunner'
  BY <1>5 DEF ResearchInv, OneRunner
<1> QED BY <1>4, <1>5, <1>6, <1>7 DEF ResearchInv

-----------------------------------------------------------------------------
(* What goes wrong, and the end of a call.                                 *)

LEMMA ReturnStep ==
  ASSUME ResearchInv, NEW h \in Handlers, Return(h)
  PROVE  ResearchInv'
<1>1. DocumentsTypeOK
  BY TypeParts DEF ResearchInv
<1>2. UNCHANGED <<researchDocs, calls>> /\ DocumentsTypeOK'
  BY <1>1, LocalTypes DEF Return, researchAux, DocumentsTypeOK
<1> QED BY <1>2, ForgetStep DEF Return

LEMMA LoseStep ==
  ASSUME ResearchInv, NEW h \in Handlers, Lose(h)
  PROVE  ResearchInv'
<1>1. DocumentsTypeOK
  BY TypeParts DEF ResearchInv
<1>2. UNCHANGED <<researchDocs, calls>> /\ DocumentsTypeOK'
  BY <1>1, LocalTypes DEF Lose, DocumentsTypeOK
<1> QED BY <1>2, ForgetStep DEF Lose

\* A response is merged, but the success of its request could not be recorded.
LEMMA UnsavedStep ==
  ASSUME ResearchInv, NEW h \in Handlers, UNCHANGED <<researchDocs, calls>>, DocumentsTypeOK',
         job[h].pc = "complete", job[h].got = "good",
         job' = [job EXCEPT ![h].got = "unsaved", ![h].touched = TRUE,
                            ![h].have = Merged(h).have]
  PROVE  ResearchInv'
<1>0. job[h].todo # <<>> /\ job[h] \in JobType /\ JobOK(job[h]) /\ job \in [Handlers -> JobType]
      /\ job[h].todo \in Seq(Operations)
  BY AtWork DEF JobOK, JobPlan, Working, Asking
<1>1. MyOp(h) = Head(job[h].todo) /\ MyOp(h) \in Operations
  BY <1>0, TailIndex DEF MyOp
<1>2. PICK e \in SUBSET Operations :
        e = Merged(h).have /\ e = IF MyOp(h) = Records THEN {Records} ELSE job[h].have \cup {MyOp(h)}
  BY <1>0, <1>1 DEF Merged, JobType
<1>3. PICK r : r = [job[h] EXCEPT !.got = "unsaved", !.touched = TRUE, !.have = e]
  OBVIOUS
<1>4. /\ r \in JobType /\ r.pc = "complete" /\ r.approval = job[h].approval /\ r.todo = job[h].todo
      /\ r.leased = job[h].leased /\ r.result = job[h].result /\ r.got = "unsaved"
      /\ r.touched /\ r.have = e
  BY <1>0, <1>3 DEF JobType
<1>5. job' = [job EXCEPT ![h] = r]
  BY <1>0, <1>2, <1>3
<1>6. JobServes(r) /\ JobUsable(r)
  BY <1>0, <1>4, StillServes
<1>7. JobPlan(r) /\ JobFree(r)
  BY <1>0, <1>4 DEF JobOK, JobPlan, JobFree, Working, Asking
<1>8. JobRequests(r)
  BY <1>0, <1>4 DEF JobOK, JobRequests, Working, Asking
<1>9. JobEvidence(r)
  BY <1>0, <1>1, <1>2, <1>4 DEF JobOK, JobEvidence, Working, Asking
<1>10. JobOK(r)
  BY <1>6, <1>7, <1>8, <1>9 DEF JobOK
<1> QED BY <1>4, <1>5, <1>10, LocalStep DEF Working

LEMMA FaultStep ==
  ASSUME ResearchInv, NEW h \in Handlers, Fault(h)
  PROVE  ResearchInv'
<1>1. DocumentsTypeOK
  BY TypeParts DEF ResearchInv
<1>2. UNCHANGED <<researchDocs, calls>> /\ DocumentsTypeOK'
  BY <1>1, LocalTypes DEF Fault, DocumentsTypeOK
<1>3. ASSUME job[h].pc \in {"activity", "acquire", "unlock"}, Refuse(h)
      PROVE  ResearchInv'
  <2>1. job[h] \in JobType /\ job \in [Handlers -> JobType]
    BY <1>3, AtWork
  <2>2. PICK r : r = [job[h] EXCEPT !.pc = "done", !.result = "error"]
    OBVIOUS
  <2>3. r \in JobType /\ r.pc = "done" /\ r.approval = job[h].approval
        /\ r.leased = job[h].leased /\ r.result = "error" /\ job' = [job EXCEPT ![h] = r]
    BY <1>3, <2>1, <2>2 DEF JobType, Places, Refuse
  <2> QED BY <1>2, <1>3, <2>3, LeavesLoop
<1>4. ASSUME job[h].pc \in {"start", "fail"},
             job' = [job EXCEPT ![h].pc = "unlock", ![h].result = "error"]
      PROVE  ResearchInv'
  <2>1. job[h] \in JobType /\ job \in [Handlers -> JobType]
    BY <1>4, AtWork
  <2>2. PICK r : r = [job[h] EXCEPT !.pc = "unlock", !.result = "error"]
    OBVIOUS
  <2>3. r \in JobType /\ r.pc = "unlock" /\ r.approval = job[h].approval
        /\ r.leased = job[h].leased /\ r.result = "error" /\ job' = [job EXCEPT ![h] = r]
    BY <1>4, <2>1, <2>2 DEF JobType, Places
  <2> QED BY <1>2, <1>4, <2>3, LeavesLoop
<1>5. CASE FailsEarly(h)
  BY <1>3, <1>5 DEF FailsEarly
<1>6. CASE FailsInLoop(h)
  <2>1. CASE job[h].pc \in Working /\ Goto(h, "fail")
    BY <1>2, <2>1, GoesToCatch
  <2>2. CASE MustRequest(h) /\ job' = [job EXCEPT ![h] = Unavailable(h)]
    BY <1>2, <2>2, GivesUp DEF MustRequest
  <2>3. CASE /\ job[h].pc = "complete" /\ job[h].got = "good"
             /\ job' = [job EXCEPT ![h].got = "unsaved", ![h].touched = TRUE,
                                   ![h].have = Merged(h).have]
    BY <1>2, <2>3, UnsavedStep
  <2> QED BY <1>6, <2>1, <2>2, <2>3 DEF FailsInLoop, Performing, At, Working
<1>7. CASE FailsLate(h)
  <2>1. CASE job[h].pc \in Working /\ Goto(h, "fail")
    BY <1>2, <2>1, GoesToCatch
  <2> QED BY <1>3, <1>4, <1>7, <2>1 DEF FailsLate, At, Working
<1> QED BY <1>5, <1>6, <1>7 DEF Fault

-----------------------------------------------------------------------------
(* The invariant.                                                          *)

LEMMA ResearchInit == Init => ResearchInv
<1> SUFFICES ASSUME Init PROVE ResearchInv
  OBVIOUS
<1>1. NoApproval \in ApprovalType
  <2>1. "NONE" \in ApprovalStatus /\ {} \in SUBSET Operations
        /\ {} \in SUBSET (RequestKeys \X RequestStatus)
    BY DEF ApprovalStatus
  <2> QED BY <2>1, Zenon DEF NoApproval, ApprovalType
<1>2. DocumentsTypeOK
  BY <1>1, ResearchAssumption DEF Init, DocumentsTypeOK, RequestStatus
<1>3. job \in [Handlers -> JobType]
  BY IdleType DEF Init
<1>4. DocumentsOK
  <2>1. \A a \in Approvals : approval[a].status = "NONE"
    BY DEF Init, NoApproval
  <2> QED BY <2>1 DEF Init, DocumentsOK, ApprovalsKnown, RequestsKnown, RequestKeys, CacheBacked,
                      EvidenceBacked, FreePlans
<1>5. ASSUME NEW h \in Handlers PROVE JobOK(job[h]) /\ LeaseHeld(job[h], h) /\ job[h].pc \notin Working
  <2>1. job[h] = Idle
    BY DEF Init
  <2>2. JobOK(Idle)
    BY IdleType, OutOfLoop DEF JobServes, JobUsable, Working
  <2> QED BY <2>1, <2>2, IdleType DEF LeaseHeld, Working
<1>6. OneRunner
  BY <1>5 DEF OneRunner
<1> QED BY <1>2, <1>3, <1>4, <1>5, <1>6, TypeParts DEF ResearchInv

LEMMA ResearchNext ==
  ASSUME ResearchInv, Next
  PROVE  ResearchInv'
<1>1. CASE Quoting
  BY <1>1, QuoteStep DEF Quoting
<1>2. CASE TimePasses
  BY <1>2, ExpireApprovalStep, ExpireLeaseStep, NextMinuteStep DEF TimePasses
<1>3. CASE \E h \in Handlers, a \in Approvals, key \in Keys : Call(h, a, key)
  BY <1>3, CallStep
<1>4. ASSUME NEW h \in Handlers, Advance(h) PROVE ResearchInv'
  <2>1. CASE CheckActivity(h) \/ Acquire(h) \/ Start(h)
    BY <2>1, CheckActivityStep, AcquireStep, StartStep
  <2>2. CASE PerformLocally(h) \/ Reserve(h) \/ RateLimited(h)
    BY <2>2, PerformLocallyStep, ReserveStep, RateLimitedStep
  <2>3. CASE AnsweredByCache(h) \/ Transmit(h) \/ Receive(h) \/ ClientStops(h) \/ Complete(h)
    BY <2>3, AnsweredByCacheStep, TransmitStep, ReceiveStep, ClientStopsStep, CompleteStep
  <2>4. CASE Persist(h) \/ Finish(h) \/ Fail(h) \/ Unlock(h)
    BY <2>4, PersistStep, FinishStep, FailStep, UnlockStep
  <2> QED BY <1>4, <2>1, <2>2, <2>3, <2>4 DEF Advance
<1>5. ASSUME NEW h \in Handlers, Fault(h) \/ Return(h) \/ Lose(h) PROVE ResearchInv'
  BY <1>5, FaultStep, ReturnStep, LoseStep
<1> QED BY <1>1, <1>2, <1>3, <1>4, <1>5 DEF Next

\* A step that changes nothing.
LEMMA ResearchStutter ==
  ASSUME ResearchInv, UNCHANGED researchVars
  PROVE  ResearchInv'
<1>1. UNCHANGED <<researchDocs, calls, job>> /\ DocumentsTypeOK'
  BY TypeParts DEF ResearchInv, researchVars, researchDocs, DocumentsTypeOK
<1> QED BY <1>1, NoStep

\* The inductive invariant holds in every behaviour.
THEOREM ResearchInvariant == Spec => []ResearchInv
<1>1. ResearchInv /\ [Next]_researchVars => ResearchInv'
  BY ResearchNext, ResearchStutter
<1> QED BY <1>1, ResearchInit, PTL DEF Spec

-----------------------------------------------------------------------------
(* What the invariant says of the properties that the runs check.          *)

LEMMA OneUseFollows ==
  ASSUME ResearchInv
  PROVE  OneUse
<1>1. ASSUME NEW g \in Handlers, NEW h \in Handlers, Running(g), Running(h),
             job[g].approval = job[h].approval
      PROVE  g = h
  BY <1>1 DEF ResearchInv, OneRunner, Running, Working
<1>2. ASSUME NEW k \in RequestKeys PROVE calls[k] <= 1
  <2>1. PICK a \in Approvals, op \in Operations : k = <<a, op>>
    BY DEF RequestKeys
  <2> QED BY <2>1 DEF ResearchInv, DocumentsOK, RequestsKnown
<1> QED BY <1>1, <1>2 DEF OneUse

LEMMA LeaseExclusiveFollows ==
  ASSUME ResearchInv
  PROVE  LeaseExclusive
<1> SUFFICES ASSUME NEW g \in Handlers, NEW h \in Handlers, g # h, MyLease(g) = MyLease(h),
                    job[g].leased, job[h].leased
    PROVE  FALSE
  BY DEF LeaseExclusive
<1>1. LeaseHeld(job[g], g) /\ LeaseHeld(job[h], h)
  BY DEF ResearchInv
<1>2. lease[MyLease(g)] = g /\ lease[MyLease(h)] = h
  BY <1>1 DEF LeaseHeld, MyLease, MyProperty, MyApproval
<1> QED BY <1>2

LEMMA RequestsAccountedFollows ==
  ASSUME ResearchInv
  PROVE  RequestsAccounted
<1> SUFFICES ASSUME NEW a \in Approvals, NEW op \in Operations
    PROVE  /\ approval[a].status = "COMPLETE" => request[<<a, op>>] # "RESERVED"
           /\ calls[<<a, op>>] > 0 => request[<<a, op>>] # "NONE"
           /\ request[<<a, op>>] # "NONE" => /\ approval[a].billable
                                             /\ op \in OpsOf(approval[a].plan)
  BY DEF RequestsAccounted
<1> QED BY DEF ResearchInv, DocumentsOK, RequestsKnown

\* What is final stays as it is.
FinalStays ==
  /\ \A a \in Approvals :
       approval[a].status \in {"COMPLETE", "FAILED"} => approval'[a] = approval[a]
  /\ \A k \in RequestKeys :
       request[k] \in {"COMPLETE", "FAILED"} => request'[k] = request[k]

\* Only an approval that is not finished changes, and only an open request.
LEMMA FinalQuiet ==
  ASSUME UNCHANGED <<approval, request>>
  PROVE  FinalStays
BY DEF FinalStays

LEMMA FinalApproval ==
  ASSUME ResearchInv, request' = request, NEW a \in Approvals,
         approval[a].status \notin {"COMPLETE", "FAILED"},
         NEW q, approval' = [approval EXCEPT ![a] = q]
  PROVE  FinalStays
<1>1. approval \in [Approvals -> ApprovalType]
  BY TypeParts DEF ResearchInv, DocumentsTypeOK
<1> QED BY <1>1 DEF FinalStays

LEMMA FinalRequest ==
  ASSUME ResearchInv, approval' = approval, NEW x \in RequestKeys,
         request[x] \notin {"COMPLETE", "FAILED"},
         NEW s, request' = [request EXCEPT ![x] = s]
  PROVE  FinalStays
<1>1. request \in [RequestKeys -> RequestStatus]
  BY TypeParts DEF ResearchInv, DocumentsTypeOK
<1> QED BY <1>1 DEF FinalStays

\* A handler at work that settles its approval or its request settles an open one.
LEMMA FinalAdvance ==
  ASSUME ResearchInv, NEW h \in Handlers, Advance(h)
  PROVE  FinalStays
<1> DEFINE a == job[h].approval
<1>0. approval \in [Approvals -> ApprovalType]
  BY TypeParts DEF ResearchInv, DocumentsTypeOK
<1>1. ASSUME NEW s \in {"IN_FLIGHT", "COMPLETE", "FAILED"},
             approval' = [approval EXCEPT ![job[h].approval].status = s], request' = request,
             job[h].pc \notin {"idle", "done"}, MyApproval(h).status \in {"PENDING", "IN_FLIGHT"}
      PROVE  FinalStays
  <2>1. a \in Approvals /\ approval[a].status \notin {"COMPLETE", "FAILED"}
    BY <1>1, AtWork DEF MyApproval
  <2>2. PICK q : q = [approval[a] EXCEPT !.status = s]
    OBVIOUS
  <2>3. approval' = [approval EXCEPT ![a] = q]
    BY <1>0, <1>1, <2>1, <2>2
  <2> QED BY <1>1, <2>1, <2>3, FinalApproval
<1>2. CASE Start(h)
  BY <1>1, <1>2, FinalQuiet DEF Start, At, MayStart, Usable, MyApproval
<1>3. CASE Finish(h)
  <2>1. MyApproval(h).status = "IN_FLIGHT"
    BY <1>3, AtWork DEF Finish, At, JobOK, JobPlan, Working, MyApproval
  <2> QED BY <1>1, <1>3, <2>1 DEF Finish, At
<1>4. CASE Fail(h)
  <2>1. MyApproval(h).status = "IN_FLIGHT"
    BY <1>4, AtWork DEF Fail, At, JobOK, JobPlan, Working, MyApproval
  <2> QED BY <1>1, <1>4, <2>1 DEF Fail, At
<1>5. CASE Reserve(h)
  <2>1. job[h].pc = "perform" /\ job[h].todo # <<>>
    BY <1>5 DEF Reserve, MustRequest, Performing, At
  <2>2. MyRequest(h) \in RequestKeys /\ JobOK(job[h]) /\ MyOp(h) = job[h].todo[1]
        /\ 1 \in 1..Len(job[h].todo)
    BY <2>1, RequestOf DEF Working
  <2>3. request[MyRequest(h)] = "NONE"
    BY <2>1, <2>2 DEF JobOK, JobRequests, Working, MyRequest
  <2> QED BY <1>5, <2>2, <2>3, FinalRequest DEF Reserve
<1>6. CASE Complete(h)
  <2>1. job[h].pc = "complete" /\ job[h].todo # <<>>
    BY <1>6, AtWork DEF Complete, At, JobOK, JobPlan, Working, Asking
  <2>2. MyRequest(h) \in RequestKeys /\ JobOK(job[h])
    BY <2>1, RequestOf DEF Working
  <2>3. request[MyRequest(h)] = "RESERVED"
    BY <2>1, <2>2 DEF JobOK, JobRequests, Working, Asking, MyRequest, MyOp
  <2>4. approval' = approval
        /\ \E s : request' = [request EXCEPT ![MyRequest(h)] = s]
    BY <1>6 DEF Complete
  <2> QED BY <2>2, <2>3, <2>4, FinalRequest
<1>7. CASE ~(Start(h) \/ Finish(h) \/ Fail(h) \/ Reserve(h) \/ Complete(h))
  <2>1. UNCHANGED <<approval, request>>
    BY <1>7 DEF Advance, CheckActivity, Acquire, PerformLocally, RateLimited, AnsweredByCache,
                Transmit, Receive, ClientStops, Persist, Unlock, researchDocs
  <2> QED BY <2>1, FinalQuiet
<1> QED BY <1>2, <1>3, <1>4, <1>5, <1>6, <1>7

LEMMA FinalOutside ==
  ASSUME ResearchInv, Quoting \/ TimePasses
  PROVE  FinalStays
<1>1. ASSUME NEW a \in Approvals, NEW p \in Properties, NEW plan \in Plans,
             NEW refresh \in Refreshes, NEW known \in retained[p] \cup {{}},
             Quote(a, p, plan, refresh, known)
      PROVE  FinalStays
  <2>1. /\ approval[a].status = "NONE" /\ request' = request
        /\ \E q : approval' = [approval EXCEPT ![a] = q]
    BY <1>1 DEF Quote
  <2> QED BY <2>1, FinalApproval
<1>2. ASSUME NEW a \in Approvals, ExpireApproval(a) PROVE FinalStays
  <2>1. approval \in [Approvals -> ApprovalType]
    BY TypeParts DEF ResearchInv, DocumentsTypeOK
  <2>2. PICK q : q = [approval[a] EXCEPT !.expired = TRUE]
    OBVIOUS
  <2>3. approval' = [approval EXCEPT ![a] = q] /\ request' = request
        /\ approval[a].status = "PENDING"
    BY <1>2, <2>1, <2>2 DEF ExpireApproval
  <2> QED BY <2>3, FinalApproval
<1>3. CASE NextMinute \/ \E k \in LeaseKeys : ExpireLease(k)
  BY <1>3, FinalQuiet DEF NextMinute, ExpireLease
<1> QED BY <1>1, <1>2, <1>3 DEF Quoting, TimePasses

LEMMA FinalNext ==
  ASSUME ResearchInv, [Next]_researchVars
  PROVE  FinalStays
<1>1. CASE UNCHANGED researchVars
  BY <1>1, FinalQuiet DEF researchVars
<1>2. ASSUME NEW h \in Handlers, Fault(h) \/ Return(h) \/ Lose(h) PROVE FinalStays
  BY <1>2, FinalQuiet DEF Fault, Return, Lose, researchDocs
<1>3. CASE \E h \in Handlers, a \in Approvals, key \in Keys : Call(h, a, key)
  BY <1>3, FinalQuiet DEF Call, researchDocs
<1> QED BY <1>1, <1>2, <1>3, FinalAdvance, FinalOutside DEF Next

-----------------------------------------------------------------------------
(* The theorems.                                                           *)

\* Every document and every handler's local state keeps its shape.
THEOREM ResearchTypeCorrect == Spec => []TypeOK
BY ResearchInvariant, PTL DEF ResearchInv

\* However often an approval is submitted, on however many function instances,
\* and whatever fails or expires, startApproval lets one handler through, and each
\* operation of the approval is sent to the provider at most once.
THEOREM ApprovalIsOneUse == Spec => []OneUse
BY ResearchInvariant, OneUseFollows, PTL

\* acquire never gives the lease on an address and operation set to a second
\* handler within the fifty seconds of the first, and the finally clause never
\* frees a lease that another handler has taken over.
THEOREM LeaseIsExclusive == Spec => []LeaseExclusive
BY ResearchInvariant, LeaseExclusiveFollows, PTL

\* No call to the provider is unrecorded, no finished approval leaves a request
\* open, and no request is made that the quote did not disclose.
THEOREM RequestsAreAccounted == Spec => []RequestsAccounted
BY ResearchInvariant, RequestsAccountedFollows, PTL

\* Retained evidence rests on stored responses that match the address.
THEOREM EvidenceIsBacked == Spec => []EvidenceBacked
BY ResearchInvariant, PTL DEF ResearchInv, DocumentsOK

\* A finished approval and a recorded outcome are never changed again.
THEOREM OutcomesAreFinal == Spec => OutcomesFinal
<1>1. ResearchInv /\ [Next]_researchVars => FinalStays
  BY FinalNext
<1>2. Spec => [][FinalStays]_researchVars
  BY <1>1, ResearchInvariant, PTL DEF Spec
<1> QED BY <1>2 DEF FinalStays, OutcomesFinal
=============================================================================
