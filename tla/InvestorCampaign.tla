--------------------------- MODULE InvestorCampaign ---------------------------
(***************************************************************************)
(* One deal campaign of an organization and the investors it was created   *)
(* for: dispatch, the public access links, and the profile and pipeline    *)
(* edits of src/src/investor-crm/investor-service.js, over the documents   *)
(* of src/src/investor-crm/firestore-repository.js.                        *)
(*                                                                         *)
(* None of these operations is a transaction.  Each one reads documents,   *)
(* awaits, and writes whole recipients or the fields it has computed from  *)
(* what it read; every await ends an action.  A dispatch reads recipients  *)
(* and investors once and then walks through them, saving an access link,  *)
(* handing a message to the e-mail provider and recording the answer.      *)
(*                                                                         *)
(* The e-mail provider is external: it is modelled as dispatch calls it.   *)
(* Left out: the expiration of links (an expired link is one nobody opens) *)
(* and the activity and audit records, which nothing here reads.           *)
(***************************************************************************)
EXTENDS Naturals, FiniteSets

CONSTANTS
  Investors,      \* the investors selected for the campaign
  Dispatchers,    \* handlers of dispatch requests
  Visitors,       \* handlers of public link requests
  Editors,        \* handlers of profile and pipeline requests
  Keys,           \* idempotency keys of dispatch requests
  Responses,      \* the response types an investor sends
  Stages,         \* the pipeline stages a manager asks for
  MaxRequests,    \* bound on requests begun: dispatches, visits and edits
  MaxMishaps,     \* bound on failing database calls and lost handlers
  None            \* no key, no response, no investor

\* Of the statuses that keep an investor from being sent anything, only one also
\* closes the links; the e-mail permissions that are neither are not told apart.
Statuses == {"ACTIVE", "ARCHIVED", "DO_NOT_CONTACT"}
Emails   == {"PERMITTED", "OPTED_OUT"}

PIPELINE_STATUSES ==
  {"MATCHED", "CONTACTED", "INTERESTED", "SHOWING_REQUESTED", "OFFER_SUBMITTED",
   "COMMITTED", "CLOSED", "DECLINED", "WITHDRAWN", "NO_RESPONSE", "EXPIRED"}

\* The pipeline stage a response type leads to; other types are refused.
ResponseStage == [INTERESTED        |-> "INTERESTED",
                  SHOWING_REQUESTED |-> "SHOWING_REQUESTED",
                  MORE_INFORMATION  |-> "INTERESTED",
                  NOT_INTERESTED    |-> "DECLINED",
                  OFFER_SUBMITTED   |-> "OFFER_SUBMITTED"]

\* The access links: every attempt to send saves one for the investor with a token
\* of its own, and a dispatch makes at most one attempt for each investor.
Links == Investors \X (1..MaxRequests)

ASSUME CampaignAssumption ==
  /\ MaxRequests \in Nat /\ MaxMishaps \in Nat
  /\ None \notin Investors \cup Keys \cup Links \cup DOMAIN ResponseStage

VARIABLES
  profile,     \* investors: status and e-mail permission
  campaign,    \* dealCampaigns: status and dispatch key
  recipient,   \* campaignRecipients, one document for each investor
  access,      \* investorReportAccess: the status of each link
  outbox,      \* the links in the messages the e-mail provider has accepted
  dispatch,    \* the local state of each dispatch handler
  visit,       \* the local state of each public handler
  edit,        \* the local state of each manager's handler
  begun,       \* requests begun so far
  mishaps      \* failing calls and lost handlers so far

documents == <<profile, campaign, recipient, access>>
handlers  == <<dispatch, visit, edit>>
vars      == <<profile, campaign, recipient, access, outbox, dispatch, visit, edit,
               begun, mishaps>>

-----------------------------------------------------------------------------

NewRecipient == [delivery |-> "NOT_SENT", response |-> None, pipeline |-> "MATCHED"]
Permitted    == [status |-> "ACTIVE", email |-> "PERMITTED"]

NoDispatch == [pc |-> "idle", key |-> None, token |-> 0, todo |-> {}, investor |-> None,
               accepted |-> FALSE, rows |-> [i \in Investors |-> NewRecipient],
               people |-> [i \in Investors |-> Permitted]]
NoVisit    == [pc |-> "idle", link |-> None, row |-> NewRecipient]
NoEdit     == [pc |-> "idle", investor |-> None, row |-> NewRecipient, person |-> Permitted]

Mailed(i) == \E link \in outbox : link[1] = i

\* createCampaign has stored the campaign and its recipients.
Init ==
  /\ profile \in [Investors -> {Permitted}]
  /\ campaign = [status |-> "READY", key |-> None]
  /\ recipient = [i \in Investors |-> NewRecipient]
  /\ access = [link \in Links |-> "NONE"]
  /\ outbox = {}
  /\ dispatch = [d \in Dispatchers |-> NoDispatch]
  /\ visit = [v \in Visitors |-> NoVisit]
  /\ edit = [e \in Editors |-> NoEdit]
  /\ begun = 0
  /\ mishaps = 0

-----------------------------------------------------------------------------
(* dispatch.                                                               *)

NewRequest == begun < MaxRequests /\ begun' = begun + 1

DispatchAt(d, pc) == dispatch[d].pc = pc
DispatchTo(d, pc) == dispatch' = [dispatch EXCEPT ![d].pc = pc]
DispatchIdle(d)   == dispatch' = [dispatch EXCEPT ![d] = NoDispatch]
Current(d)        == dispatch[d].investor
CurrentLink(d)    == <<Current(d), dispatch[d].token>>
Row(d, i)         == dispatch[d].rows[i]

\* The checks on the campaign: a finished dispatch with the same key is answered
\* from the documents, one with another key is refused.
BeginDispatch(d, key) ==
  /\ DispatchAt(d, "idle") /\ NewRequest
  /\ campaign.key \in {None, key}
  /\ ~(campaign.key = key /\ campaign.status = "ACTIVE")
  /\ dispatch' = [dispatch EXCEPT ![d].pc = "recipients", ![d].key = key]
  /\ UNCHANGED <<documents, outbox, visit, edit, mishaps>>

ReadRecipients(d) ==
  /\ DispatchAt(d, "recipients")
  /\ dispatch' = [dispatch EXCEPT ![d].pc = "investors", ![d].rows = recipient]
  /\ UNCHANGED <<documents, outbox, visit, edit, begun, mishaps>>

ReadInvestors(d) ==
  /\ DispatchAt(d, "investors")
  /\ dispatch' = [dispatch EXCEPT ![d].pc = "mark", ![d].people = profile]
  /\ UNCHANGED <<documents, outbox, visit, edit, begun, mishaps>>

MarkSending(d) ==
  /\ DispatchAt(d, "mark")
  /\ campaign' = [status |-> "SENDING", key |-> dispatch[d].key]
  /\ dispatch' = [dispatch EXCEPT ![d].pc = "next", ![d].todo = Investors]
  /\ UNCHANGED <<profile, recipient, access, outbox, visit, edit, begun, mishaps>>

\* The next recipient was accepted before this dispatch read it.
Skip(d, i) ==
  /\ DispatchAt(d, "next") /\ i \in dispatch[d].todo
  /\ Row(d, i).delivery = "PROVIDER_ACCEPTED"
  /\ dispatch' = [dispatch EXCEPT ![d].todo = @ \ {i}, ![d].accepted = TRUE]
  /\ UNCHANGED <<documents, outbox, visit, edit, begun, mishaps>>

Sendable(d, i) == dispatch[d].people[i] = Permitted

\* The next recipient may not be contacted.
Suppress(d, i) ==
  /\ DispatchAt(d, "next") /\ i \in dispatch[d].todo
  /\ Row(d, i).delivery # "PROVIDER_ACCEPTED"
  /\ ~Sendable(d, i)
  /\ recipient' = [recipient EXCEPT ![i] = [Row(d, i) EXCEPT !.delivery = "SUPPRESSED"]]
  /\ dispatch' = [dispatch EXCEPT ![d].todo = @ \ {i}]
  /\ UNCHANGED <<profile, campaign, access, outbox, visit, edit, begun, mishaps>>

\* tokenFactory makes a token that no link has; which one does not matter.
NewToken(i, n) == access[<<i, n>>] = "NONE" /\ \A m \in 1..(n - 1) : access[<<i, m>>] # "NONE"

SaveAccess(d, i) ==
  /\ DispatchAt(d, "next") /\ i \in dispatch[d].todo
  /\ Row(d, i).delivery # "PROVIDER_ACCEPTED"
  /\ Sendable(d, i)
  /\ \E n \in 1..MaxRequests :
       /\ NewToken(i, n)
       /\ access' = [access EXCEPT ![<<i, n>>] = "ACTIVE"]
       /\ dispatch' = [dispatch EXCEPT ![d].pc = "send", ![d].investor = i, ![d].token = n]
  /\ UNCHANGED <<profile, campaign, recipient, outbox, visit, edit, begun, mishaps>>

\* The e-mail provider knows the message by campaign and investor: it accepts it
\* once and answers a repetition like the first time.  It may also refuse it, or
\* its answer may get lost after it accepted.
Deliver(d) ==
  outbox' = IF Mailed(Current(d)) THEN outbox ELSE outbox \cup {CurrentLink(d)}

Send(d) ==
  /\ DispatchAt(d, "send")
  /\ \/ Deliver(d) /\ DispatchTo(d, "record")
     \/ Deliver(d) /\ DispatchTo(d, "revoke")
     \/ UNCHANGED outbox /\ DispatchTo(d, "revoke")
  /\ UNCHANGED <<documents, visit, edit, begun, mishaps>>

RecordAccepted(d) ==
  /\ DispatchAt(d, "record")
  /\ recipient' = [recipient EXCEPT ![Current(d)] =
       [Row(d, Current(d)) EXCEPT !.delivery = "PROVIDER_ACCEPTED", !.pipeline = "CONTACTED"]]
  /\ DispatchTo(d, "note")
  /\ UNCHANGED <<profile, campaign, access, outbox, visit, edit, begun, mishaps>>

\* The activity record; the recipient counts as accepted from here on.
NoteActivity(d) ==
  /\ DispatchAt(d, "note")
  /\ dispatch' = [dispatch EXCEPT ![d].pc = "next", ![d].accepted = TRUE,
                                  ![d].todo = @ \ {Current(d)}, ![d].investor = None,
                                  ![d].token = 0]
  /\ UNCHANGED <<documents, outbox, visit, edit, begun, mishaps>>

\* Mutant: the catch clause leaves the link of a failed delivery alone.
KeepLink(d) ==
  /\ DispatchAt(d, "revoke")
  /\ DispatchTo(d, "failed")
  /\ UNCHANGED <<documents, outbox, visit, edit, begun, mishaps>>

\* The catch clause revokes the link,
RevokeLink(d) ==
  /\ DispatchAt(d, "revoke")
  /\ access' = [access EXCEPT ![CurrentLink(d)] = "REVOKED"]
  /\ DispatchTo(d, "failed")
  /\ UNCHANGED <<profile, campaign, recipient, outbox, visit, edit, begun, mishaps>>

\* and records the failure.
RecordFailed(d) ==
  /\ DispatchAt(d, "failed")
  /\ recipient' = [recipient EXCEPT ![Current(d)] =
       [Row(d, Current(d)) EXCEPT !.delivery = "PROVIDER_FAILED"]]
  /\ dispatch' = [dispatch EXCEPT ![d].pc = "next", ![d].todo = @ \ {Current(d)},
                                  ![d].investor = None, ![d].token = 0]
  /\ UNCHANGED <<profile, campaign, access, outbox, visit, edit, begun, mishaps>>

\* Mutant: the campaign becomes active whatever became of its messages.
CloseActive(d) ==
  /\ DispatchAt(d, "next") /\ dispatch[d].todo = {}
  /\ campaign' = [campaign EXCEPT !.status = "ACTIVE"]
  /\ DispatchIdle(d)
  /\ UNCHANGED <<profile, recipient, access, outbox, visit, edit, begun, mishaps>>

\* Mutant: a dispatch that nobody accepted leaves the campaign as it is.
CloseAccepted(d) ==
  /\ DispatchAt(d, "next") /\ dispatch[d].todo = {}
  /\ campaign' = IF dispatch[d].accepted THEN [campaign EXCEPT !.status = "ACTIVE"]
                                         ELSE campaign
  /\ DispatchIdle(d)
  /\ UNCHANGED <<profile, recipient, access, outbox, visit, edit, begun, mishaps>>

Close(d) ==
  /\ DispatchAt(d, "next") /\ dispatch[d].todo = {}
  /\ campaign' = [campaign EXCEPT !.status = IF dispatch[d].accepted THEN "ACTIVE" ELSE "READY"]
  /\ DispatchIdle(d)
  /\ UNCHANGED <<profile, recipient, access, outbox, visit, edit, begun, mishaps>>

\* A database call throws after the provider has accepted the message.
FaultAfterSend(d) ==
  /\ dispatch[d].pc \in {"record", "note"}
  /\ mishaps < MaxMishaps
  /\ mishaps' = mishaps + 1
  /\ DispatchTo(d, "revoke")
  /\ UNCHANGED <<documents, outbox, visit, edit, begun>>

\* Any other call throws out of the loop, or the instance is lost.
LoseDispatch(d) ==
  /\ ~DispatchAt(d, "idle")
  /\ mishaps < MaxMishaps
  /\ mishaps' = mishaps + 1
  /\ DispatchIdle(d)
  /\ UNCHANGED <<documents, outbox, visit, edit, begun>>

-----------------------------------------------------------------------------
(* authorizeToken, respond and unsubscribe.                                *)

VisitAt(v, pc) == visit[v].pc = pc
VisitTo(v, pc) == visit' = [visit EXCEPT ![v].pc = pc]
VisitIdle(v)   == visit' = [visit EXCEPT ![v] = NoVisit]
Visitor(v)     == visit[v].link[1]

\* Somebody opens the link of a message, and the link is not revoked.
OpenLink(v, link) ==
  /\ VisitAt(v, "idle") /\ NewRequest
  /\ link \in outbox
  /\ access[link] = "ACTIVE"
  /\ visit' = [visit EXCEPT ![v].pc = "check", ![v].link = link]
  /\ UNCHANGED <<documents, outbox, dispatch, edit, mishaps>>

Barred(i) == profile[i].email = "OPTED_OUT" \/ profile[i].status = "DO_NOT_CONTACT"

\* A barred investor is refused; else the recipient is read for a view or a
\* response, or the investor unsubscribes.
CheckInvestor(v) ==
  /\ VisitAt(v, "check")
  /\ IF Barred(Visitor(v)) THEN VisitIdle(v)
     ELSE \/ visit' = [visit EXCEPT ![v].pc = "count", ![v].row = recipient[Visitor(v)]]
          \/ VisitTo(v, "leave")
  /\ UNCHANGED <<documents, outbox, dispatch, edit, begun, mishaps>>

\* Mutant: the link's document is written back as it was read.
CountWhole(v) ==
  /\ VisitAt(v, "count")
  /\ access' = [access EXCEPT ![visit[v].link] = "ACTIVE"]
  /\ VisitTo(v, "respond")
  /\ UNCHANGED <<profile, campaign, recipient, outbox, dispatch, edit, begun, mishaps>>

\* The access counter, merged into the link's document.
CountAccess(v) ==
  /\ VisitAt(v, "count")
  /\ VisitTo(v, "respond")
  /\ UNCHANGED <<documents, outbox, dispatch, edit, begun, mishaps>>

\* The response goes into the recipient as it was read, or the visit was a view
\* or its response type is refused.
Respond(v) ==
  /\ VisitAt(v, "respond")
  /\ \/ \E type \in Responses \cap DOMAIN ResponseStage :
          recipient' = [recipient EXCEPT ![Visitor(v)] =
            [visit[v].row EXCEPT !.response = type, !.pipeline = ResponseStage[type]]]
     \/ UNCHANGED recipient
  /\ VisitIdle(v)
  /\ UNCHANGED <<profile, campaign, access, outbox, dispatch, edit, begun, mishaps>>

OptOut(v) ==
  /\ VisitAt(v, "leave")
  /\ profile' = [profile EXCEPT ![Visitor(v)].email = "OPTED_OUT"]
  /\ VisitTo(v, "withdraw")
  /\ UNCHANGED <<campaign, recipient, access, outbox, dispatch, edit, begun, mishaps>>

WithdrawLink(v) ==
  /\ VisitAt(v, "withdraw")
  /\ access' = [access EXCEPT ![visit[v].link] = "REVOKED"]
  /\ VisitIdle(v)
  /\ UNCHANGED <<profile, campaign, recipient, outbox, dispatch, edit, begun, mishaps>>

LoseVisit(v) ==
  /\ ~VisitAt(v, "idle")
  /\ mishaps < MaxMishaps
  /\ mishaps' = mishaps + 1
  /\ VisitIdle(v)
  /\ UNCHANGED <<documents, outbox, dispatch, edit, begun>>

-----------------------------------------------------------------------------
(* update (also archive and an import's update), transition, revokeAccess. *)

EditAt(e, pc) == edit[e].pc = pc
EditIdle(e)   == edit' = [edit EXCEPT ![e] = NoEdit]

ReadProfile(e, i) ==
  /\ EditAt(e, "idle") /\ NewRequest
  /\ edit' = [edit EXCEPT ![e].pc = "save", ![e].investor = i, ![e].person = profile[i]]
  /\ UNCHANGED <<documents, outbox, dispatch, visit, mishaps>>

\* The whole profile is written; an opt-out that was read stays one.
SaveProfile(e) ==
  /\ EditAt(e, "save")
  /\ \E status \in Statuses, email \in Emails :
       profile' = [profile EXCEPT ![edit[e].investor] =
         [status |-> status,
          email  |-> IF edit[e].person.email = "OPTED_OUT" THEN "OPTED_OUT" ELSE email]]
  /\ EditIdle(e)
  /\ UNCHANGED <<campaign, recipient, access, outbox, dispatch, visit, begun, mishaps>>

ReadRecipient(e, i) ==
  /\ EditAt(e, "idle") /\ NewRequest
  /\ edit' = [edit EXCEPT ![e].pc = "move", ![e].investor = i, ![e].row = recipient[i]]
  /\ UNCHANGED <<documents, outbox, dispatch, visit, mishaps>>

\* Mutant: the stage asked for is not looked up.
TransitionUnchecked(e) ==
  /\ EditAt(e, "move")
  /\ \E stage \in Stages :
       recipient' = [recipient EXCEPT ![edit[e].investor] =
                       [edit[e].row EXCEPT !.pipeline = stage]]
  /\ EditIdle(e)
  /\ UNCHANGED <<profile, campaign, access, outbox, dispatch, visit, begun, mishaps>>

\* The whole recipient is written with another pipeline stage; an unknown stage is
\* refused before anything is read.
Transition(e) ==
  /\ EditAt(e, "move")
  /\ \E stage \in Stages \cap PIPELINE_STATUSES :
       recipient' = [recipient EXCEPT ![edit[e].investor] =
                       [edit[e].row EXCEPT !.pipeline = stage]]
  /\ EditIdle(e)
  /\ UNCHANGED <<profile, campaign, access, outbox, dispatch, visit, begun, mishaps>>

RevokeAccess(link) ==
  /\ access[link] # "NONE"
  /\ access' = [access EXCEPT ![link] = "REVOKED"]
  /\ UNCHANGED <<profile, campaign, recipient, outbox, handlers, begun, mishaps>>

-----------------------------------------------------------------------------

\* What a dispatch does when no database call fails.
Proceed(d) ==
  \/ ReadRecipients(d) \/ ReadInvestors(d) \/ MarkSending(d)
  \/ \E i \in Investors : Skip(d, i) \/ Suppress(d, i) \/ SaveAccess(d, i)
  \/ Send(d) \/ RecordAccepted(d) \/ NoteActivity(d)
  \/ RevokeLink(d) \/ RecordFailed(d) \/ Close(d)

Visit(v) ==
  \/ \E link \in Links : OpenLink(v, link)
  \/ CheckInvestor(v) \/ CountAccess(v) \/ Respond(v) \/ OptOut(v) \/ WithdrawLink(v)

Manage(e) ==
  \/ \E i \in Investors : ReadProfile(e, i) \/ ReadRecipient(e, i)
  \/ SaveProfile(e) \/ Transition(e)

Next ==
  \/ \E d \in Dispatchers : Proceed(d) \/ FaultAfterSend(d) \/ LoseDispatch(d)
  \/ \E d \in Dispatchers, key \in Keys : BeginDispatch(d, key)
  \/ \E v \in Visitors : Visit(v) \/ LoseVisit(v)
  \/ \E e \in Editors : Manage(e)
  \/ \E link \in Links : RevokeAccess(link)

Spec == Init /\ [][Next]_vars

\* A dispatch that is not lost runs to its end: every await returns or throws.
FairSpec == Spec /\ \A d \in Dispatchers : WF_vars(Proceed(d))

-----------------------------------------------------------------------------
(* Properties.                                                             *)

RecipientType ==
  [delivery : {"NOT_SENT", "SUPPRESSED", "PROVIDER_ACCEPTED", "PROVIDER_FAILED"},
   response : DOMAIN ResponseStage \cup {None},
   pipeline : PIPELINE_STATUSES]
ProfileType == [status : Statuses, email : Emails]

\* Every document and every handler's local state has its shape.
TypeOK ==
  /\ profile \in [Investors -> ProfileType]
  /\ campaign \in [status : {"READY", "SENDING", "ACTIVE"}, key : Keys \cup {None}]
  /\ recipient \in [Investors -> RecipientType]
  /\ access \in [Links -> {"NONE", "ACTIVE", "REVOKED"}]
  /\ outbox \subseteq Links
  /\ dispatch \in [Dispatchers ->
       [pc : {"idle", "recipients", "investors", "mark", "next", "send", "record",
              "note", "revoke", "failed"},
        key : Keys \cup {None}, token : 0..MaxRequests, todo : SUBSET Investors,
        investor : Investors \cup {None}, accepted : BOOLEAN,
        rows : [Investors -> RecipientType], people : [Investors -> ProfileType]]]
  /\ visit \in [Visitors -> [pc : {"idle", "check", "count", "respond", "leave", "withdraw"},
                             link : Links \cup {None}, row : RecipientType]]
  /\ edit \in [Editors -> [pc : {"idle", "save", "move"},
                           investor : Investors \cup {None},
                           row : RecipientType, person : ProfileType]]
  /\ begun \in 0..MaxRequests /\ mishaps \in 0..MaxMishaps

\* What the documents say of a delivery is true, although dispatches, responses
\* and transitions write back recipients they read long before: an accepted
\* recipient has a message, an active campaign has at least one, and the link in
\* every message was saved before the message left.
DeliveryBacked ==
  /\ \A i \in Investors : recipient[i].delivery = "PROVIDER_ACCEPTED" => Mailed(i)
  /\ campaign.status = "ACTIVE" => \E i \in Investors : Mailed(i)
  /\ \A link \in outbox : access[link] # "NONE"

\* Once every dispatch has ended, and none was lost, an active link belongs to an
\* investor who got a message: failed deliveries leave no link behind.  It says
\* nothing of the link of a message that was sent and could not be recorded.
LinksAccounted ==
  (mishaps = 0 /\ \A d \in Dispatchers : DispatchAt(d, "idle"))
    => \A link \in Links : access[link] = "ACTIVE" => Mailed(link[1])

\* A revoked link never opens again, although its document is written by visits
\* that were authorized before.
RevokedForGood ==
  [][\A link \in Links : access[link] = "REVOKED" => access'[link] = "REVOKED"]_vars

\* A campaign does not stay in SENDING, unless a dispatch was lost or broken off.
DispatchConcludes ==
  campaign.status = "SENDING" ~> campaign.status # "SENDING" \/ mishaps > 0

\* What the intake document says of profiles: an opt-out cannot be cleared by
\* ordinary profile editing or by an import.
OptOutKept ==
  [][\A i \in Investors :
       profile[i].email = "OPTED_OUT" => profile'[i].email = "OPTED_OUT"]_vars
=============================================================================
