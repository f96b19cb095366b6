------------------------ MODULE InvestorCampaign_proofs ------------------------
(***************************************************************************)
(* Proofs about InvestorCampaign, for any number of investors, dispatches, *)
(* visits and edits.                                                       *)
(*                                                                         *)
(* The inductive invariant is CampaignInv.  Handlers write back recipients *)
(* they read long before, so it says of each copy in a handler what        *)
(* DeliveryBacked says of the documents; and it follows each link from the *)
(* dispatch that saved it to the message or the revocation that ends it    *)
(* (LinksOpen).                                                            *)
(***************************************************************************)
EXTENDS InvestorCampaign, TLAPS

-----------------------------------------------------------------------------
(* Shapes.                                                                 *)

DispatchType ==
  [pc : {"idle", "recipients", "investors", "mark", "next", "send", "record",
         "note", "revoke", "failed"},
   key : Keys \cup {None}, token : 0..MaxRequests, todo : SUBSET Investors,
   investor : Investors \cup {None}, accepted : BOOLEAN,
   rows : [Investors -> RecipientType], people : [Investors -> ProfileType]]

VisitType ==
  [pc : {"idle", "check", "count", "respond", "leave", "withdraw"},
   link : Links \cup {None}, row : RecipientType]

EditType ==
  [pc : {"idle", "save", "move"}, investor : Investors \cup {None},
   row : RecipientType, person : ProfileType]

DocumentsType ==
  /\ profile \in [Investors -> ProfileType]
  /\ campaign \in [status : {"READY", "SENDING", "ACTIVE"}, key : Keys \cup {None}]
  /\ recipient \in [Investors -> RecipientType]
  /\ access \in [Links -> {"NONE", "ACTIVE", "REVOKED"}]
  /\ outbox \subseteq Links
  /\ begun \in 0..MaxRequests /\ mishaps \in 0..MaxMishaps

HandlersType ==
  /\ dispatch \in [Dispatchers -> DispatchType]
  /\ visit \in [Visitors -> VisitType]
  /\ edit \in [Editors -> EditType]

-----------------------------------------------------------------------------
(* What a handler remembers.  These speak of a local state j, so that they *)
(* can be carried from one state of the documents to another.              *)

\* A copy of a recipient says of a delivery what is true.
Truthful(row, i) == row.delivery = "PROVIDER_ACCEPTED" => Mailed(i)

Sending == {"send", "record", "note", "revoke", "failed"}

\* A dispatch that has saved a link remembers it, and knows whom it has reached.
DispatchOK(j) ==
  /\ \A i \in Investors : Truthful(j.rows[i], i)
  /\ j.accepted => \E i \in Investors : Mailed(i)
  /\ j.pc \in Sending => /\ j.investor \in Investors /\ j.token \in 1..MaxRequests
                         /\ access[<<j.investor, j.token>>] # "NONE"
  /\ j.pc \in {"record", "note"} => Mailed(j.investor)

VisitOK(j) ==
  /\ j.pc # "idle" => j.link \in Links /\ access[j.link] # "NONE"
  /\ j.pc \in {"count", "respond"} => Truthful(j.row, j.link[1])

EditOK(j) ==
  /\ j.pc # "idle" => j.investor \in Investors
  /\ j.pc = "move" => Truthful(j.row, j.investor)

\* While nothing has failed, an active link was mailed, or a dispatch is about to
\* send it or to revoke it.
LinksOpen ==
  mishaps = 0 => \A link \in Links : access[link] = "ACTIVE" =>
    \/ Mailed(link[1])
    \/ \E d \in Dispatchers : dispatch[d].pc \in {"send", "revoke"} /\ CurrentLink(d) = link

CampaignInv ==
  /\ DocumentsType /\ HandlersType
  /\ DeliveryBacked
  /\ \A d \in Dispatchers : DispatchOK(dispatch[d])
  /\ \A v \in Visitors : VisitOK(visit[v])
  /\ \A e \in Editors : EditOK(edit[e])
  /\ LinksOpen

-----------------------------------------------------------------------------
(* What a step leaves to the handlers that do not move.                    *)

\* Messages and links stay.
Grows ==
  /\ \A i \in Investors : Mailed(i) => Mailed(i)'
  /\ \A link \in Links : access[link] # "NONE" => access'[link] # "NONE"

LEMMA DispatchStays ==
  ASSUME CampaignInv, Grows, NEW g \in Dispatchers, dispatch'[g] = dispatch[g]
  PROVE  DispatchOK(dispatch[g])'
<1>1. DispatchOK(dispatch[g]) /\ dispatch[g] \in DispatchType
  BY DEF CampaignInv, HandlersType
<1>2. dispatch[g].pc \in Sending => <<dispatch[g].investor, dispatch[g].token>> \in Links
  BY <1>1 DEF DispatchOK, Links
<1>3. PICK j : j = dispatch[g]
  OBVIOUS
<1>4. \A i \in Investors : Truthful(j.rows[i], i)'
  BY <1>1, <1>3 DEF DispatchOK, Truthful, Grows
<1>5. (j.accepted => \E i \in Investors : Mailed(i))'
  BY <1>1, <1>3 DEF DispatchOK, Grows
<1>6. (j.pc \in Sending => /\ j.investor \in Investors /\ j.token \in 1..MaxRequests
                          /\ access[<<j.investor, j.token>>] # "NONE")'
  BY <1>1, <1>2, <1>3 DEF DispatchOK, Grows
<1>7. (j.pc \in {"record", "note"} => Mailed(j.investor))'
  BY <1>1, <1>3 DEF DispatchOK, Grows, Sending
<1>8. DispatchOK(j)'
  BY <1>4, <1>5, <1>6, <1>7 DEF DispatchOK
<1>9. dispatch'[g] = j
  BY <1>3
<1> QED BY <1>8, <1>9

LEMMA VisitStays ==
  ASSUME CampaignInv, Grows, NEW v \in Visitors, visit'[v] = visit[v]
  PROVE  VisitOK(visit[v])'
<1>1. VisitOK(visit[v])
  BY DEF CampaignInv
<1>2. visit[v].pc # "idle" => visit[v].link[1] \in Investors
  BY <1>1 DEF VisitOK, Links
<1> QED BY <1>1, <1>2 DEF VisitOK, Truthful, Grows

LEMMA EditStays ==
  ASSUME CampaignInv, Grows, NEW e \in Editors, edit'[e] = edit[e]
  PROVE  EditOK(edit[e])'
<1>1. EditOK(edit[e])
  BY DEF CampaignInv
<1> QED BY <1>1 DEF EditOK, Truthful, Grows

\* The documents are in order, and what the handlers know of them stays true.
Sound == DocumentsType' /\ DeliveryBacked' /\ Grows

LEMMA DispatchMoves ==
  ASSUME CampaignInv, Sound, LinksOpen', NEW d \in Dispatchers, NEW r \in DispatchType,
         dispatch' = [dispatch EXCEPT ![d] = r], DispatchOK(r)', UNCHANGED <<visit, edit>>
  PROVE  CampaignInv'
<1>1. HandlersType'
  BY DEF CampaignInv, HandlersType
<1>2. ASSUME NEW g \in Dispatchers PROVE DispatchOK(dispatch[g])'
  <2>1. CASE g = d
    <3>1. dispatch'[g] = r
      BY <2>1 DEF CampaignInv, HandlersType
    <3> QED BY <3>1
  <2>2. CASE g # d
    BY <2>2, DispatchStays DEF CampaignInv, HandlersType, Sound
  <2> QED BY <2>1, <2>2
<1>3. \A v \in Visitors : VisitOK(visit[v])'
  BY VisitStays DEF Sound
<1>4. \A e \in Editors : EditOK(edit[e])'
  BY EditStays DEF Sound
<1> QED BY <1>1, <1>2, <1>3, <1>4 DEF CampaignInv, Sound

LEMMA VisitMoves ==
  ASSUME CampaignInv, Sound, LinksOpen', NEW v \in Visitors, NEW r \in VisitType,
         visit' = [visit EXCEPT ![v] = r], VisitOK(r)', UNCHANGED <<dispatch, edit>>
  PROVE  CampaignInv'
<1>1. HandlersType'
  BY DEF CampaignInv, HandlersType
<1>2. ASSUME NEW w \in Visitors PROVE VisitOK(visit[w])'
  <2>1. CASE w = v
    <3>1. visit'[w] = r
      BY <2>1 DEF CampaignInv, HandlersType
    <3> QED BY <3>1
  <2>2. CASE w # v
    BY <2>2, VisitStays DEF CampaignInv, HandlersType, Sound
  <2> QED BY <2>1, <2>2
<1>3. \A d \in Dispatchers : DispatchOK(dispatch[d])'
  BY DispatchStays DEF Sound
<1>4. \A e \in Editors : EditOK(edit[e])'
  BY EditStays DEF Sound
<1> QED BY <1>1, <1>2, <1>3, <1>4 DEF CampaignInv, Sound

LEMMA EditMoves ==
  ASSUME CampaignInv, Sound, LinksOpen', NEW e \in Editors, NEW r \in EditType,
         edit' = [edit EXCEPT ![e] = r], EditOK(r)', UNCHANGED <<dispatch, visit>>
  PROVE  CampaignInv'
<1>1. HandlersType'
  BY DEF CampaignInv, HandlersType
<1>2. ASSUME NEW g \in Editors PROVE EditOK(edit[g])'
  <2>1. CASE g = e
    <3>1. edit'[g] = r
      BY <2>1 DEF CampaignInv, HandlersType
    <3> QED BY <3>1
  <2>2. CASE g # e
    BY <2>2, EditStays DEF CampaignInv, HandlersType, Sound
  <2> QED BY <2>1, <2>2
<1>3. \A d \in Dispatchers : DispatchOK(dispatch[d])'
  BY DispatchStays DEF Sound
<1>4. \A v \in Visitors : VisitOK(visit[v])'
  BY VisitStays DEF Sound
<1> QED BY <1>1, <1>2, <1>3, <1>4 DEF CampaignInv, Sound

LEMMA NobodyMoves ==
  ASSUME CampaignInv, Sound, LinksOpen', UNCHANGED <<dispatch, visit, edit>>
  PROVE  CampaignInv'
<1>1. \A d \in Dispatchers : DispatchOK(dispatch[d])'
  BY DispatchStays DEF Sound
<1>2. \A v \in Visitors : VisitOK(visit[v])'
  BY VisitStays DEF Sound
<1>3. \A e \in Editors : EditOK(edit[e])'
  BY EditStays DEF Sound
<1> QED BY <1>1, <1>2, <1>3 DEF CampaignInv, Sound, HandlersType

-----------------------------------------------------------------------------
(* The writes.                                                             *)

\* The counters of requests and mishaps stay within their bounds.
Bounded == begun' \in 0..MaxRequests /\ mishaps' \in 0..MaxMishaps

LEMMA NoWrite ==
  ASSUME CampaignInv, UNCHANGED <<documents, outbox>>, Bounded
  PROVE  Sound
<1>1. DocumentsType'
  BY DEF CampaignInv, DocumentsType, documents, Bounded
<1> QED BY <1>1 DEF Sound, CampaignInv, DeliveryBacked, Mailed, Grows, documents

LEMMA RecipientWrite ==
  ASSUME CampaignInv, NEW i \in Investors, NEW row \in RecipientType, Truthful(row, i),
         recipient' = [recipient EXCEPT ![i] = row],
         UNCHANGED <<profile, campaign, access, outbox>>, Bounded
  PROVE  Sound
<1>1. DocumentsType'
  BY DEF CampaignInv, DocumentsType, Bounded
<1>2. \A k \in Investors : Mailed(k)' <=> Mailed(k)
  BY DEF Mailed
<1>3. DeliveryBacked'
  BY <1>2 DEF CampaignInv, DocumentsType, DeliveryBacked, Truthful
<1> QED BY <1>1, <1>2, <1>3 DEF Sound, Grows

LEMMA ProfileWrite ==
  ASSUME CampaignInv, profile' \in [Investors -> ProfileType],
         UNCHANGED <<campaign, recipient, access, outbox>>, Bounded
  PROVE  Sound
<1>1. DocumentsType'
  BY DEF CampaignInv, DocumentsType, Bounded
<1> QED BY <1>1 DEF Sound, CampaignInv, DeliveryBacked, Mailed, Grows

LEMMA CampaignWrite ==
  ASSUME CampaignInv,
         campaign' \in [status : {"READY", "SENDING", "ACTIVE"}, key : Keys \cup {None}],
         campaign'.status = "ACTIVE" => \E i \in Investors : Mailed(i),
         UNCHANGED <<profile, recipient, access, outbox>>, Bounded
  PROVE  Sound
<1>1. DocumentsType'
  BY DEF CampaignInv, DocumentsType, Bounded
<1> QED BY <1>1 DEF Sound, CampaignInv, DeliveryBacked, Mailed, Grows

LEMMA LinkWrite ==
  ASSUME CampaignInv, NEW link \in Links, NEW s \in {"ACTIVE", "REVOKED"},
         access' = [access EXCEPT ![link] = s],
         UNCHANGED <<profile, campaign, recipient, outbox>>, Bounded
  PROVE  Sound
<1>1. DocumentsType'
  BY DEF CampaignInv, DocumentsType, Bounded
<1>2. \A k \in Links : access[k] # "NONE" => access'[k] # "NONE"
  BY DEF CampaignInv, DocumentsType
<1>3. DeliveryBacked'
  BY <1>2 DEF CampaignInv, DocumentsType, DeliveryBacked, Mailed
<1> QED BY <1>1, <1>2, <1>3 DEF Sound, Mailed, Grows

-----------------------------------------------------------------------------
(* The links.                                                              *)

\* No link is opened by anybody but a dispatch that saves it.
LEMMA LinksRest ==
  ASSUME LinksOpen, dispatch' = dispatch, mishaps' = 0 => mishaps = 0, Grows,
         \A link \in Links : access'[link] = "ACTIVE" => access[link] = "ACTIVE"
  PROVE  LinksOpen'
<1>1. \A link \in Links : link[1] \in Investors
  BY DEF Links
<1> QED BY <1>1 DEF LinksOpen, CurrentLink, Current, Grows

\* A dispatch moves on: its link, if it is active, was mailed or is still its own.
LEMMA LinksStay ==
  ASSUME LinksOpen, mishaps' = 0 => mishaps = 0, Grows, NEW d \in Dispatchers,
         NEW i, i = Current(d), NEW k, k = CurrentLink(d),
         \A g \in Dispatchers \ {d} : dispatch'[g] = dispatch[g],
         \A link \in Links : access'[link] = "ACTIVE" =>
           \/ access[link] = "ACTIVE"
           \/ dispatch'[d].pc \in {"send", "revoke"} /\ CurrentLink(d)' = link,
         mishaps' = 0 /\ dispatch[d].pc \in {"send", "revoke"} =>
           \/ Mailed(i)'
           \/ access'[k] # "ACTIVE"
           \/ dispatch'[d].pc \in {"send", "revoke"} /\ CurrentLink(d)' = k
  PROVE  LinksOpen'
<1> SUFFICES ASSUME mishaps' = 0, NEW link \in Links, access'[link] = "ACTIVE"
    PROVE  \/ Mailed(link[1])'
           \/ \E g \in Dispatchers : dispatch'[g].pc \in {"send", "revoke"}
                                     /\ CurrentLink(g)' = link
  BY DEF LinksOpen
<1>1. link[1] \in Investors
  BY DEF Links
<1>2. CASE dispatch'[d].pc \in {"send", "revoke"} /\ CurrentLink(d)' = link
  BY <1>2
<1>3. CASE Mailed(link[1])
  BY <1>1, <1>3 DEF Grows
<1>4. ASSUME NEW g \in Dispatchers, dispatch[g].pc \in {"send", "revoke"}, CurrentLink(g) = link
      PROVE  \/ Mailed(link[1])'
             \/ \E f \in Dispatchers : dispatch'[f].pc \in {"send", "revoke"}
                                       /\ CurrentLink(f)' = link
  <2>1. CASE g # d
    BY <1>4, <2>1 DEF CurrentLink, Current
  <2>2. CASE g = d
    <3>1. link[1] = i
      BY <1>4, <2>2 DEF CurrentLink
    <3>2. \/ Mailed(i)'
          \/ dispatch'[d].pc \in {"send", "revoke"} /\ CurrentLink(d)' = link
      BY <1>4, <2>2
    <3> QED BY <1>2, <3>1, <3>2
  <2> QED BY <2>1, <2>2
<1> QED BY <1>2, <1>3, <1>4 DEF LinksOpen

-----------------------------------------------------------------------------
(* The steps of a dispatch.                                                *)

\* What a local state says stays true while messages and links stay.
LEMMA DispatchGrows ==
  ASSUME Grows, NEW j \in DispatchType, DispatchOK(j)
  PROVE  DispatchOK(j)'
<1>1. j.pc \in Sending => <<j.investor, j.token>> \in Links
  BY DEF DispatchOK, Links
<1>2. \A i \in Investors : Truthful(j.rows[i], i)'
  BY DEF DispatchOK, Truthful, Grows
<1>3. (j.accepted => \E i \in Investors : Mailed(i))'
  BY DEF DispatchOK, Grows
<1>4. (j.pc \in Sending => /\ j.investor \in Investors /\ j.token \in 1..MaxRequests
                          /\ access[<<j.investor, j.token>>] # "NONE")'
  BY <1>1 DEF DispatchOK, Grows
<1>5. (j.pc \in {"record", "note"} => Mailed(j.investor))'
  BY DEF DispatchOK, Grows, Sending
<1> QED BY <1>2, <1>3, <1>4, <1>5 DEF DispatchOK

\* A step that neither saves, sends nor revokes a link.
LEMMA DispatchQuiet ==
  ASSUME CampaignInv, Sound, access' = access, mishaps' = 0 => mishaps = 0,
         NEW d \in Dispatchers, NEW r \in DispatchType, DispatchOK(r),
         dispatch' = [dispatch EXCEPT ![d] = r], UNCHANGED <<visit, edit>>,
         dispatch[d].pc \in {"send", "revoke"} => mishaps' # 0
  PROVE  CampaignInv'
<1>1. DispatchOK(r)'
  BY DispatchGrows DEF Sound
<1>2. \A g \in Dispatchers \ {d} : dispatch'[g] = dispatch[g]
  BY DEF CampaignInv, HandlersType
<1>3. LinksOpen'
  BY <1>2, LinksStay DEF CampaignInv, Sound
<1> QED BY <1>1, <1>3, DispatchMoves

\* A dispatch and what it remembers.
LEMMA DispatchKnown ==
  ASSUME CampaignInv, NEW d \in Dispatchers
  PROVE  /\ dispatch[d] \in DispatchType /\ DispatchOK(dispatch[d])
         /\ \A i \in Investors : Row(d, i) \in RecipientType /\ Truthful(Row(d, i), i)
         /\ dispatch[d].pc \in Sending => Current(d) \in Investors /\ CurrentLink(d) \in Links
         /\ begun \in 0..MaxRequests /\ mishaps \in 0..MaxMishaps
<1>1. dispatch[d] \in DispatchType /\ DispatchOK(dispatch[d])
  BY DEF CampaignInv, HandlersType
<1> QED BY <1>1 DEF CampaignInv, DocumentsType, DispatchType, DispatchOK, Row, Current, CurrentLink,
                    Links

LEMMA Copies == NewRecipient \in RecipientType /\ Permitted \in ProfileType
                /\ \A i : Truthful(NewRecipient, i)
BY DEF NewRecipient, Permitted, RecipientType, ProfileType, PIPELINE_STATUSES, Statuses, Emails, Truthful

LEMMA IdleDispatch == NoDispatch \in DispatchType /\ DispatchOK(NoDispatch)
<1>1. NoDispatch \in DispatchType
  BY Copies, CampaignAssumption DEF NoDispatch, DispatchType
<1>2. NoDispatch.pc = "idle" /\ ~NoDispatch.accepted
      /\ \A i \in Investors : NoDispatch.rows[i] = NewRecipient
  BY DEF NoDispatch
<1> QED BY <1>1, <1>2, Copies DEF DispatchOK, Sending

LEMMA BeginStep ==
  ASSUME CampaignInv, NEW d \in Dispatchers, NEW key \in Keys, BeginDispatch(d, key)
  PROVE  CampaignInv'
<1> USE DispatchKnown
<1>1. /\ UNCHANGED <<documents, outbox, visit, edit, mishaps>> /\ Bounded
      /\ dispatch[d].pc = "idle"
  BY CampaignAssumption DEF BeginDispatch, NewRequest, Bounded, DispatchAt
<1>2. Sound
  BY <1>1, NoWrite
<1>3. PICK r : r = [dispatch[d] EXCEPT !.pc = "recipients", !.key = key]
  OBVIOUS
<1>4. r \in DispatchType /\ dispatch' = [dispatch EXCEPT ![d] = r]
  <2>1. dispatch' = [dispatch EXCEPT ![d] = r]
    BY <1>3 DEF DispatchType, BeginDispatch, CampaignInv, HandlersType
  <2>2. r \in DispatchType
    BY <1>3 DEF DispatchType
  <2> QED BY <2>1, <2>2
<1>5. DispatchOK(r)
  BY <1>3 DEF DispatchOK, DispatchType, Sending
<1> QED BY <1>1, <1>2, <1>4, <1>5, DispatchQuiet DEF documents

LEMMA ReadRecipientsStep ==
  ASSUME CampaignInv, NEW d \in Dispatchers, ReadRecipients(d)
  PROVE  CampaignInv'
<1> USE DispatchKnown
<1>1. /\ UNCHANGED <<documents, outbox, visit, edit, mishaps>> /\ Bounded
      /\ dispatch[d].pc = "recipients"
  BY DEF ReadRecipients, Bounded, DispatchAt
<1>2. Sound
  BY <1>1, NoWrite
<1>3. PICK r : r = [dispatch[d] EXCEPT !.pc = "investors", !.rows = recipient]
  OBVIOUS
<1>4. r \in DispatchType /\ dispatch' = [dispatch EXCEPT ![d] = r]
  <2>1. dispatch' = [dispatch EXCEPT ![d] = r]
    BY <1>3 DEF ReadRecipients, CampaignInv, HandlersType, DispatchType
  <2>2. recipient \in [Investors -> RecipientType]
    BY DEF CampaignInv, DocumentsType
  <2>3. r \in DispatchType
    BY <1>3, <2>2 DEF DispatchType
  <2> QED BY <2>1, <2>3
<1>5. DispatchOK(r)
  BY <1>3 DEF DispatchOK, DispatchType, Sending, CampaignInv, DeliveryBacked, Truthful
<1> QED BY <1>1, <1>2, <1>4, <1>5, DispatchQuiet DEF documents

LEMMA ReadInvestorsStep ==
  ASSUME CampaignInv, NEW d \in Dispatchers, ReadInvestors(d)
  PROVE  CampaignInv'
<1> USE DispatchKnown
<1>1. /\ UNCHANGED <<documents, outbox, visit, edit, mishaps>> /\ Bounded
      /\ dispatch[d].pc = "investors"
  BY DEF ReadInvestors, Bounded, DispatchAt
<1>2. Sound
  BY <1>1, NoWrite
<1>3. PICK r : r = [dispatch[d] EXCEPT !.pc = "mark", !.people = profile]
  OBVIOUS
<1>4. r \in DispatchType /\ dispatch' = [dispatch EXCEPT ![d] = r]
  <2>1. dispatch' = [dispatch EXCEPT ![d] = r]
    BY <1>3 DEF ReadInvestors, CampaignInv, HandlersType, DispatchType
  <2>2. profile \in [Investors -> ProfileType]
    BY DEF CampaignInv, DocumentsType
  <2>3. r \in DispatchType
    BY <1>3, <2>2 DEF DispatchType
  <2> QED BY <2>1, <2>3
<1>5. DispatchOK(r)
  BY <1>3 DEF DispatchOK, DispatchType, Sending
<1> QED BY <1>1, <1>2, <1>4, <1>5, DispatchQuiet DEF documents

LEMMA MarkSendingStep ==
  ASSUME CampaignInv, NEW d \in Dispatchers, MarkSending(d)
  PROVE  CampaignInv'
<1> USE DispatchKnown
<1>1. /\ UNCHANGED <<profile, recipient, access, outbox, visit, edit, mishaps>> /\ Bounded
      /\ dispatch[d].pc = "mark"
  BY DEF MarkSending, Bounded, DispatchAt
<1>2. Sound
  <2>1. campaign' \in [status : {"READY", "SENDING", "ACTIVE"}, key : Keys \cup {None}]
        /\ campaign'.status # "ACTIVE"
    BY DEF MarkSending, DispatchType
  <2> QED BY <1>1, <2>1, CampaignWrite
<1>3. PICK r : r = [dispatch[d] EXCEPT !.pc = "next", !.todo = Investors]
  OBVIOUS
<1>4. r \in DispatchType /\ dispatch' = [dispatch EXCEPT ![d] = r]
  <2>1. dispatch' = [dispatch EXCEPT ![d] = r]
    BY <1>3 DEF DispatchType, MarkSending, CampaignInv, HandlersType
  <2>2. r \in DispatchType
    BY <1>3 DEF DispatchType
  <2> QED BY <2>1, <2>2
<1>5. DispatchOK(r)
  BY <1>3 DEF DispatchOK, DispatchType, Sending
<1> QED BY <1>1, <1>2, <1>4, <1>5, DispatchQuiet

LEMMA SkipStep ==
  ASSUME CampaignInv, NEW d \in Dispatchers, NEW i \in Investors, Skip(d, i)
  PROVE  CampaignInv'
<1> USE DispatchKnown
<1>1. /\ UNCHANGED <<documents, outbox, visit, edit, mishaps>> /\ Bounded
      /\ dispatch[d].pc = "next" /\ Mailed(i)
  BY DEF Skip, Bounded, DispatchAt, Truthful
<1>2. Sound
  BY <1>1, NoWrite
<1>3. PICK r : r = [dispatch[d] EXCEPT !.todo = dispatch[d].todo \ {i}, !.accepted = TRUE]
  OBVIOUS
<1>4. r \in DispatchType /\ dispatch' = [dispatch EXCEPT ![d] = r]
  <2>1. dispatch' = [dispatch EXCEPT ![d] = r]
    BY <1>3 DEF Skip, CampaignInv, HandlersType, DispatchType
  <2>2. r \in DispatchType
    BY <1>3 DEF DispatchType
  <2> QED BY <2>1, <2>2
<1>5. DispatchOK(r)
  BY <1>1, <1>3 DEF DispatchOK, DispatchType, Sending
<1> QED BY <1>1, <1>2, <1>4, <1>5, DispatchQuiet DEF documents

LEMMA SuppressStep ==
  ASSUME CampaignInv, NEW d \in Dispatchers, NEW i \in Investors, Suppress(d, i)
  PROVE  CampaignInv'
<1> USE DispatchKnown
<1>1. /\ UNCHANGED <<profile, campaign, access, outbox, visit, edit, mishaps>> /\ Bounded
      /\ dispatch[d].pc = "next"
  BY DEF Suppress, Bounded, DispatchAt
<1>2. Sound
  <2>1. PICK row : row = [Row(d, i) EXCEPT !.delivery = "SUPPRESSED"]
    OBVIOUS
  <2>2. row \in RecipientType /\ Truthful(row, i)
    BY <2>1 DEF RecipientType, Truthful
  <2> QED BY <1>1, <2>1, <2>2, RecipientWrite DEF Suppress
<1>3. PICK r : r = [dispatch[d] EXCEPT !.todo = dispatch[d].todo \ {i}]
  OBVIOUS
<1>4. r \in DispatchType /\ dispatch' = [dispatch EXCEPT ![d] = r]
  <2>1. dispatch' = [dispatch EXCEPT ![d] = r]
    BY <1>3 DEF Suppress, CampaignInv, HandlersType, DispatchType
  <2>2. r \in DispatchType
    BY <1>3 DEF DispatchType
  <2> QED BY <2>1, <2>2
<1>5. DispatchOK(r)
  BY <1>1, <1>3 DEF DispatchOK, DispatchType, Sending
<1> QED BY <1>1, <1>2, <1>4, <1>5, DispatchQuiet

LEMMA RecordAcceptedStep ==
  ASSUME CampaignInv, NEW d \in Dispatchers, RecordAccepted(d)
  PROVE  CampaignInv'
<1> USE DispatchKnown
<1>1. /\ UNCHANGED <<profile, campaign, access, outbox, visit, edit, mishaps>> /\ Bounded
      /\ dispatch[d].pc = "record" /\ Current(d) \in Investors /\ Mailed(Current(d))
  BY DEF RecordAccepted, Bounded, DispatchAt, Sending, DispatchOK, Current
<1>2. Sound
  <2>1. PICK row : row = [Row(d, Current(d)) EXCEPT !.delivery = "PROVIDER_ACCEPTED",
                                                    !.pipeline = "CONTACTED"]
    OBVIOUS
  <2>2. row \in RecipientType /\ Truthful(row, Current(d))
    BY <1>1, <2>1 DEF RecipientType, PIPELINE_STATUSES, Truthful
  <2> QED BY <1>1, <2>1, <2>2, RecipientWrite DEF RecordAccepted
<1>3. PICK r : r = [dispatch[d] EXCEPT !.pc = "note"]
  OBVIOUS
<1>4. r \in DispatchType /\ dispatch' = [dispatch EXCEPT ![d] = r]
  BY <1>3 DEF DispatchType, RecordAccepted, DispatchTo, CampaignInv, HandlersType
<1>5. DispatchOK(r)
  BY <1>1, <1>3 DEF DispatchOK, DispatchType, Sending
<1> QED BY <1>1, <1>2, <1>4, <1>5, DispatchQuiet

LEMMA NoteActivityStep ==
  ASSUME CampaignInv, NEW d \in Dispatchers, NoteActivity(d)
  PROVE  CampaignInv'
<1> USE DispatchKnown
<1>1. /\ UNCHANGED <<documents, outbox, visit, edit, mishaps>> /\ Bounded
      /\ dispatch[d].pc = "note" /\ Current(d) \in Investors /\ Mailed(Current(d))
  BY DEF NoteActivity, Bounded, DispatchAt, Sending, DispatchOK, Current
<1>2. Sound
  BY <1>1, NoWrite
<1>3. PICK r : r = [dispatch[d] EXCEPT !.pc = "next", !.accepted = TRUE,
                      !.todo = dispatch[d].todo \ {Current(d)}, !.investor = None, !.token = 0]
  OBVIOUS
<1>4. r \in DispatchType /\ dispatch' = [dispatch EXCEPT ![d] = r]
  <2>1. dispatch' = [dispatch EXCEPT ![d] = r]
    BY <1>3 DEF NoteActivity, CampaignInv, HandlersType, DispatchType
  <2>2. 0 \in 0..MaxRequests
    BY CampaignAssumption
  <2>3. PICK n \in 0..MaxRequests : n = 0
    BY <2>2
  <2>4. PICK left \in SUBSET Investors : left = dispatch[d].todo \ {Current(d)}
    BY DEF DispatchType
  <2>5. r = [dispatch[d] EXCEPT !.pc = "next", !.accepted = TRUE, !.todo = left,
                                !.investor = None, !.token = n]
    BY <1>3, <2>3, <2>4
  <2>6. r \in DispatchType
    BY <2>5 DEF DispatchType
  <2> QED BY <2>1, <2>6
<1>5. DispatchOK(r)
  BY <1>1, <1>3 DEF DispatchOK, DispatchType, Sending
<1> QED BY <1>1, <1>2, <1>4, <1>5, DispatchQuiet DEF documents

LEMMA RecordFailedStep ==
  ASSUME CampaignInv, NEW d \in Dispatchers, RecordFailed(d)
  PROVE  CampaignInv'
<1> USE DispatchKnown
<1>1. /\ UNCHANGED <<profile, campaign, access, outbox, visit, edit, mishaps>> /\ Bounded
      /\ dispatch[d].pc = "failed" /\ Current(d) \in Investors
  BY DEF RecordFailed, Bounded, DispatchAt, Sending
<1>2. Sound
  <2>1. PICK row : row = [Row(d, Current(d)) EXCEPT !.delivery = "PROVIDER_FAILED"]
    OBVIOUS
  <2>2. row \in RecipientType /\ Truthful(row, Current(d))
    BY <1>1, <2>1 DEF RecipientType, Truthful
  <2> QED BY <1>1, <2>1, <2>2, RecipientWrite DEF RecordFailed
<1>3. PICK r : r = [dispatch[d] EXCEPT !.pc = "next", !.todo = dispatch[d].todo \ {Current(d)},
                      !.investor = None, !.token = 0]
  OBVIOUS
<1>4. r \in DispatchType /\ dispatch' = [dispatch EXCEPT ![d] = r]
  <2>1. dispatch' = [dispatch EXCEPT ![d] = r]
    BY <1>3 DEF RecordFailed, CampaignInv, HandlersType, DispatchType
  <2>2. 0 \in 0..MaxRequests
    BY CampaignAssumption
  <2>3. r \in DispatchType
    BY <1>3, <2>2 DEF DispatchType
  <2> QED BY <2>1, <2>3
<1>5. DispatchOK(r)
  BY <1>1, <1>3 DEF DispatchOK, DispatchType, Sending
<1> QED BY <1>1, <1>2, <1>4, <1>5, DispatchQuiet

LEMMA CloseStep ==
  ASSUME CampaignInv, NEW d \in Dispatchers, Close(d)
  PROVE  CampaignInv'
<1> USE DispatchKnown
<1>1. /\ UNCHANGED <<profile, recipient, access, outbox, visit, edit, mishaps>> /\ Bounded
      /\ dispatch[d].pc = "next" /\ dispatch' = [dispatch EXCEPT ![d] = NoDispatch]
  BY DEF Close, Bounded, DispatchAt, DispatchIdle
<1>2. Sound
  <2>1. campaign' \in [status : {"READY", "SENDING", "ACTIVE"}, key : Keys \cup {None}]
    BY DEF Close, CampaignInv, DocumentsType
  <2>2. campaign'.status = "ACTIVE" => \E i \in Investors : Mailed(i)
    BY DEF Close, CampaignInv, DocumentsType, DispatchOK
  <2> QED BY <1>1, <2>1, <2>2, CampaignWrite
<1> QED BY <1>1, <1>2, IdleDispatch, DispatchQuiet

LEMMA DispatchMishapStep ==
  ASSUME CampaignInv, NEW d \in Dispatchers, FaultAfterSend(d) \/ LoseDispatch(d)
  PROVE  CampaignInv'
<1> USE DispatchKnown
<1>1. UNCHANGED <<documents, outbox, visit, edit>> /\ Bounded /\ mishaps' # 0
  BY CampaignAssumption DEF FaultAfterSend, LoseDispatch, Bounded
<1>2. Sound
  BY <1>1, NoWrite
<1>3. CASE FaultAfterSend(d)
  <2>1. PICK r : r = [dispatch[d] EXCEPT !.pc = "revoke"]
    OBVIOUS
  <2>2. r \in DispatchType /\ dispatch' = [dispatch EXCEPT ![d] = r]
    BY <1>3, <2>1 DEF DispatchType, FaultAfterSend, DispatchTo, CampaignInv, HandlersType
  <2>3. DispatchOK(r)
    BY <1>3, <2>1 DEF DispatchOK, DispatchType, Sending, FaultAfterSend
  <2> QED BY <1>1, <1>2, <2>2, <2>3, DispatchQuiet DEF documents
<1>4. CASE LoseDispatch(d)
  BY <1>1, <1>2, <1>4, IdleDispatch, DispatchQuiet DEF LoseDispatch, DispatchIdle, documents
<1> QED BY <1>3, <1>4

LEMMA SaveAccessStep ==
  ASSUME CampaignInv, NEW d \in Dispatchers, NEW i \in Investors, SaveAccess(d, i)
  PROVE  CampaignInv'
<1> USE DispatchKnown
<1>1. /\ UNCHANGED <<profile, campaign, recipient, outbox, visit, edit, mishaps>> /\ Bounded
      /\ dispatch[d].pc = "next"
  BY DEF SaveAccess, Bounded, DispatchAt
<1>2. PICK n \in 1..MaxRequests :
        /\ access' = [access EXCEPT ![<<i, n>>] = "ACTIVE"]
        /\ dispatch' = [dispatch EXCEPT ![d].pc = "send", ![d].investor = i, ![d].token = n]
  BY DEF SaveAccess
<1>3. <<i, n>> \in Links
  BY DEF Links
<1>4. Sound
  BY <1>1, <1>2, <1>3, LinkWrite
<1>5. PICK r : r = [dispatch[d] EXCEPT !.pc = "send", !.investor = i, !.token = n]
  OBVIOUS
<1>6. dispatch' = [dispatch EXCEPT ![d] = r]
  BY <1>2, <1>5 DEF CampaignInv, HandlersType, DispatchType
<1>7. n \in 0..MaxRequests
  OBVIOUS
<1>8. /\ r \in DispatchType /\ r.pc = "send" /\ r.investor = i /\ r.token = n
      /\ r.rows = dispatch[d].rows /\ r.accepted = dispatch[d].accepted
  BY <1>5, <1>7 DEF DispatchType
<1>9. dispatch'[d] = r /\ \A g \in Dispatchers \ {d} : dispatch'[g] = dispatch[g]
  BY <1>6 DEF CampaignInv, HandlersType
<1>10. access'[<<i, n>>] = "ACTIVE" /\ \A link \in Links \ {<<i, n>>} : access'[link] = access[link]
  BY <1>2, <1>3 DEF CampaignInv, DocumentsType
<1>11. DispatchOK(r)'
  <2>1. \A k \in Investors : Truthful(r.rows[k], k)'
    BY <1>4, <1>8 DEF DispatchOK, Truthful, Sound, Grows
  <2>2. (r.accepted => \E k \in Investors : Mailed(k))'
    BY <1>4, <1>8 DEF DispatchOK, Sound, Grows
  <2> QED BY <1>8, <1>10, <2>1, <2>2 DEF DispatchOK
<1>12. CurrentLink(d)' = <<i, n>>
  BY <1>8, <1>9 DEF CurrentLink, Current
<1>13. LinksOpen'
  BY <1>1, <1>4, <1>8, <1>9, <1>10, <1>12, LinksStay DEF CampaignInv, Sound
<1> QED BY <1>1, <1>4, <1>6, <1>8, <1>11, <1>13, DispatchMoves

\* A message to an investor whose link was saved.
LEMMA MessageWrite ==
  ASSUME CampaignInv, NEW d \in Dispatchers, dispatch[d].pc = "send",
         Deliver(d) \/ UNCHANGED outbox, UNCHANGED documents, Bounded
  PROVE  Sound
<1>1. CurrentLink(d) \in Links /\ access[CurrentLink(d)] # "NONE"
  BY DispatchKnown DEF DispatchOK, CurrentLink, Current, Sending
<1>2. outbox \subseteq outbox' /\ outbox' \subseteq outbox \cup {CurrentLink(d)}
  BY DEF Deliver
<1>3. DocumentsType'
  BY <1>1, <1>2 DEF CampaignInv, DocumentsType, documents, Bounded
<1>4. Grows
  BY <1>2 DEF Grows, Mailed, documents
<1>5. DeliveryBacked'
  <2>1. \A i \in Investors : recipient'[i].delivery = "PROVIDER_ACCEPTED" => Mailed(i)'
    BY <1>4 DEF CampaignInv, DeliveryBacked, documents, Grows
  <2>2. campaign'.status = "ACTIVE" => \E i \in Investors : Mailed(i)'
    BY <1>4 DEF CampaignInv, DeliveryBacked, documents, Grows
  <2>3. \A link \in outbox' : access'[link] # "NONE"
    BY <1>1, <1>2 DEF CampaignInv, DeliveryBacked, documents
  <2> QED BY <2>1, <2>2, <2>3 DEF DeliveryBacked
<1> QED BY <1>3, <1>4, <1>5 DEF Sound

LEMMA SendStep ==
  ASSUME CampaignInv, NEW d \in Dispatchers, Send(d)
  PROVE  CampaignInv'
<1> USE DispatchKnown
<1>1. /\ UNCHANGED <<documents, visit, edit, mishaps>> /\ Bounded /\ dispatch[d].pc = "send"
      /\ Deliver(d) \/ UNCHANGED outbox
  BY DEF Send, Bounded, DispatchAt
<1>2. Sound
  BY <1>1, MessageWrite
<1>3. PICK pc \in {"record", "revoke"} : /\ DispatchTo(d, pc)
                                         /\ pc = "record" => Deliver(d)
  BY DEF Send
<1>4. PICK i \in Investors, n \in 1..MaxRequests :
        i = dispatch[d].investor /\ n = dispatch[d].token
  BY <1>1 DEF DispatchOK, Sending
<1>5. PICK r : r = [dispatch[d] EXCEPT !.pc = pc]
  OBVIOUS
<1>6. dispatch' = [dispatch EXCEPT ![d] = r]
  BY <1>3, <1>5 DEF DispatchTo, CampaignInv, HandlersType, DispatchType
<1>7. /\ r \in DispatchType /\ r.pc = pc /\ r.investor = i /\ r.token = n
      /\ r.rows = dispatch[d].rows /\ r.accepted = dispatch[d].accepted
  BY <1>4, <1>5 DEF DispatchType
<1>8. dispatch'[d] = r /\ \A g \in Dispatchers \ {d} : dispatch'[g] = dispatch[g]
  BY <1>6 DEF CampaignInv, HandlersType
<1>9. CurrentLink(d) = <<i, n>> /\ CurrentLink(d)' = <<i, n>> /\ Current(d) = i
  BY <1>4, <1>7, <1>8 DEF CurrentLink, Current
<1>10. pc = "record" => Mailed(i)'
  <2> SUFFICES ASSUME pc = "record" PROVE Mailed(i)'
    OBVIOUS
  <2>1. CASE Mailed(i)
    BY <1>2, <2>1 DEF Sound, Grows
  <2>2. CASE ~Mailed(i)
    <3>1. <<i, n>> \in outbox'
      BY <1>3, <1>9, <2>2 DEF Deliver
    <3> QED BY <3>1 DEF Mailed
  <2> QED BY <2>1, <2>2
<1>11. DispatchOK(r)'
  <2>1. \A k \in Investors : Truthful(r.rows[k], k)'
    BY <1>2, <1>7 DEF DispatchOK, Truthful, Sound, Grows
  <2>2. (r.accepted => \E k \in Investors : Mailed(k))'
    BY <1>2, <1>7 DEF DispatchOK, Sound, Grows
  <2>3. access'[<<i, n>>] # "NONE"
    BY <1>1, <1>4 DEF DispatchOK, documents, Sending
  <2> QED BY <1>7, <1>10, <2>1, <2>2, <2>3 DEF DispatchOK
<1>12. LinksOpen'
  <2>1. access' = access /\ mishaps' = mishaps
    BY <1>1 DEF documents
  <2>2. LinksOpen /\ Grows
    BY <1>2 DEF CampaignInv, Sound
  <2>3. Mailed(i)' \/ (dispatch'[d].pc \in {"send", "revoke"} /\ CurrentLink(d)' = <<i, n>>)
    BY <1>3, <1>7, <1>8, <1>9, <1>10
  <2> QED BY <1>8, <1>9, <2>1, <2>2, <2>3, LinksStay
<1> QED BY <1>1, <1>2, <1>6, <1>7, <1>11, <1>12, DispatchMoves

LEMMA RevokeLinkStep ==
  ASSUME CampaignInv, NEW d \in Dispatchers, RevokeLink(d)
  PROVE  CampaignInv'
<1> USE DispatchKnown
<1>1. /\ UNCHANGED <<profile, campaign, recipient, outbox, visit, edit, mishaps>> /\ Bounded
      /\ dispatch[d].pc = "revoke"
  BY DEF RevokeLink, Bounded, DispatchAt
<1>2. PICK link \in Links : link = CurrentLink(d)
  BY <1>1 DEF Sending
<1>3. access' = [access EXCEPT ![link] = "REVOKED"]
  BY <1>2 DEF RevokeLink
<1>4. Sound
  BY <1>1, <1>3, LinkWrite
<1>5. PICK r : r = [dispatch[d] EXCEPT !.pc = "failed"]
  OBVIOUS
<1>6. dispatch' = [dispatch EXCEPT ![d] = r]
  BY <1>5 DEF RevokeLink, DispatchTo, CampaignInv, HandlersType, DispatchType
<1>7. r \in DispatchType
  BY <1>5 DEF DispatchType
<1>8. DispatchOK(r)
  BY <1>1, <1>5 DEF DispatchOK, DispatchType, Sending
<1>9. DispatchOK(r)'
  BY <1>4, <1>7, <1>8, DispatchGrows DEF Sound
<1>10. \A g \in Dispatchers \ {d} : dispatch'[g] = dispatch[g]
  BY <1>6 DEF CampaignInv, HandlersType
<1>11. access'[link] = "REVOKED" /\ \A k \in Links \ {link} : access'[k] = access[k]
  BY <1>3 DEF CampaignInv, DocumentsType
<1>12. LinksOpen'
  <2>1. PICK i : i = Current(d)
    OBVIOUS
  <2>2. LinksOpen /\ Grows
    BY <1>4 DEF CampaignInv, Sound
  <2> QED BY <1>1, <1>2, <1>10, <1>11, <2>1, <2>2, LinksStay
<1> QED BY <1>1, <1>4, <1>6, <1>7, <1>9, <1>12, DispatchMoves

-----------------------------------------------------------------------------
(* Visits and edits.                                                       *)

\* No step of a visit or an edit opens a link.
LEMMA VisitQuiet ==
  ASSUME CampaignInv, Sound, mishaps' = 0 => mishaps = 0,
         \A link \in Links : access'[link] = "ACTIVE" => access[link] = "ACTIVE",
         NEW v \in Visitors, NEW r \in VisitType, VisitOK(r),
         visit' = [visit EXCEPT ![v] = r], UNCHANGED <<dispatch, edit>>
  PROVE  CampaignInv'
<1>1. r.pc # "idle" => r.link[1] \in Investors
  BY DEF VisitOK, Links
<1>2. VisitOK(r)'
  BY <1>1 DEF VisitOK, Truthful, Sound, Grows
<1>3. LinksOpen'
  BY LinksRest DEF CampaignInv, Sound
<1> QED BY <1>2, <1>3, VisitMoves

LEMMA EditQuiet ==
  ASSUME CampaignInv, Sound, mishaps' = 0 => mishaps = 0, access' = access,
         NEW e \in Editors, NEW r \in EditType, EditOK(r),
         edit' = [edit EXCEPT ![e] = r], UNCHANGED <<dispatch, visit>>
  PROVE  CampaignInv'
<1>1. EditOK(r)'
  BY DEF EditOK, Truthful, Sound, Grows
<1>2. LinksOpen'
  BY LinksRest DEF CampaignInv, Sound
<1> QED BY <1>1, <1>2, EditMoves

LEMMA VisitKnown ==
  ASSUME CampaignInv, NEW v \in Visitors
  PROVE  /\ visit[v] \in VisitType /\ VisitOK(visit[v])
         /\ visit[v].pc # "idle" => Visitor(v) \in Investors
         /\ begun \in 0..MaxRequests /\ mishaps \in 0..MaxMishaps
<1>1. visit[v] \in VisitType /\ VisitOK(visit[v])
  BY DEF CampaignInv, HandlersType
<1> QED BY <1>1 DEF CampaignInv, DocumentsType, VisitOK, Visitor, Links

LEMMA IdleVisit == NoVisit \in VisitType /\ VisitOK(NoVisit)
BY Copies DEF NoVisit, VisitType, VisitOK

LEMMA IdleEdit == NoEdit \in EditType /\ EditOK(NoEdit)
BY Copies DEF NoEdit, EditType, EditOK

LEMMA OpenLinkStep ==
  ASSUME CampaignInv, NEW v \in Visitors, NEW link \in Links, OpenLink(v, link)
  PROVE  CampaignInv'
<1> USE VisitKnown
<1>1. UNCHANGED <<documents, outbox, dispatch, edit, mishaps>> /\ Bounded
  BY CampaignAssumption DEF OpenLink, NewRequest, Bounded
<1>2. Sound
  BY <1>1, NoWrite
<1>3. PICK r : r = [visit[v] EXCEPT !.pc = "check", !.link = link]
  OBVIOUS
<1>4. r \in VisitType /\ r.pc = "check" /\ r.link = link
  BY <1>3 DEF VisitType
<1>5. visit' = [visit EXCEPT ![v] = r]
  BY <1>3 DEF OpenLink, VisitType, CampaignInv, HandlersType
<1>6. VisitOK(r)
  BY <1>4 DEF VisitOK, OpenLink
<1> QED BY <1>1, <1>2, <1>4, <1>5, <1>6, VisitQuiet DEF documents

LEMMA CheckInvestorStep ==
  ASSUME CampaignInv, NEW v \in Visitors, CheckInvestor(v)
  PROVE  CampaignInv'
<1> USE VisitKnown
<1>1. UNCHANGED <<documents, outbox, dispatch, edit, mishaps>> /\ Bounded /\ visit[v].pc = "check"
  BY DEF CheckInvestor, Bounded, VisitAt
<1>2. Sound
  BY <1>1, NoWrite
<1>3. CASE VisitIdle(v)
  BY <1>1, <1>2, <1>3, IdleVisit, VisitQuiet DEF VisitIdle, documents
<1>4. CASE visit' = [visit EXCEPT ![v].pc = "count", ![v].row = recipient[Visitor(v)]]
  <2>1. PICK r : r = [visit[v] EXCEPT !.pc = "count", !.row = recipient[Visitor(v)]]
    OBVIOUS
  <2>2. recipient[Visitor(v)] \in RecipientType /\ Truthful(recipient[Visitor(v)], Visitor(v))
    BY <1>1 DEF CampaignInv, DocumentsType, DeliveryBacked, Truthful
  <2>3. r \in VisitType /\ r.pc = "count" /\ r.link = visit[v].link /\ r.row = recipient[Visitor(v)]
    BY <2>1, <2>2 DEF VisitType
  <2>4. visit' = [visit EXCEPT ![v] = r]
    BY <1>4, <2>1 DEF CampaignInv, HandlersType
  <2>5. VisitOK(r)
    BY <1>1, <2>2, <2>3 DEF VisitOK, Visitor
  <2> QED BY <1>1, <1>2, <2>3, <2>4, <2>5, VisitQuiet DEF documents
<1>5. CASE VisitTo(v, "leave")
  <2>1. PICK r : r = [visit[v] EXCEPT !.pc = "leave"]
    OBVIOUS
  <2>2. r \in VisitType /\ r.pc = "leave" /\ r.link = visit[v].link
    BY <2>1 DEF VisitType
  <2>3. visit' = [visit EXCEPT ![v] = r]
    BY <1>5, <2>1 DEF VisitTo, CampaignInv, HandlersType
  <2>4. VisitOK(r)
    BY <1>1, <2>2 DEF VisitOK
  <2> QED BY <1>1, <1>2, <2>2, <2>3, <2>4, VisitQuiet DEF documents
<1> QED BY <1>3, <1>4, <1>5 DEF CheckInvestor

LEMMA CountAccessStep ==
  ASSUME CampaignInv, NEW v \in Visitors, CountAccess(v)
  PROVE  CampaignInv'
<1> USE VisitKnown
<1>1. UNCHANGED <<documents, outbox, dispatch, edit, mishaps>> /\ Bounded /\ visit[v].pc = "count"
  BY DEF CountAccess, Bounded, VisitAt
<1>2. Sound
  BY <1>1, NoWrite
<1>3. PICK r : r = [visit[v] EXCEPT !.pc = "respond"]
  OBVIOUS
<1>4. r \in VisitType /\ r.pc = "respond" /\ r.link = visit[v].link /\ r.row = visit[v].row
  BY <1>3 DEF VisitType
<1>5. visit' = [visit EXCEPT ![v] = r]
  BY <1>3 DEF CountAccess, VisitTo, CampaignInv, HandlersType
<1>6. VisitOK(r)
  BY <1>1, <1>4 DEF VisitOK
<1> QED BY <1>1, <1>2, <1>4, <1>5, <1>6, VisitQuiet DEF documents

LEMMA RespondStep ==
  ASSUME CampaignInv, NEW v \in Visitors, Respond(v)
  PROVE  CampaignInv'
<1> USE VisitKnown
<1>1. /\ UNCHANGED <<profile, campaign, access, outbox, dispatch, edit, mishaps>> /\ Bounded
      /\ visit[v].pc = "respond" /\ visit' = [visit EXCEPT ![v] = NoVisit]
  BY DEF Respond, Bounded, VisitAt, VisitIdle
<1>2. ASSUME NEW type \in Responses \cap DOMAIN ResponseStage,
             recipient' = [recipient EXCEPT ![Visitor(v)] =
               [visit[v].row EXCEPT !.response = type, !.pipeline = ResponseStage[type]]]
      PROVE  Sound
  <2>1. PICK row : row = [visit[v].row EXCEPT !.response = type, !.pipeline = ResponseStage[type]]
    OBVIOUS
  <2>2. ResponseStage[type] \in PIPELINE_STATUSES
    BY DEF ResponseStage, PIPELINE_STATUSES
  <2>3. visit[v].row \in RecipientType
    BY DEF VisitType
  <2>4. row \in RecipientType /\ row.delivery = visit[v].row.delivery
    BY <2>1, <2>2, <2>3 DEF RecipientType
  <2>5. Truthful(row, Visitor(v))
    BY <1>1, <2>4 DEF VisitOK, Visitor, Truthful
  <2> QED BY <1>1, <1>2, <2>1, <2>4, <2>5, RecipientWrite
<1>3. ASSUME UNCHANGED recipient PROVE Sound
  BY <1>1, <1>3, NoWrite DEF documents
<1>4. Sound
  BY <1>2, <1>3 DEF Respond
<1> QED BY <1>1, <1>4, IdleVisit, VisitQuiet

LEMMA OptOutStep ==
  ASSUME CampaignInv, NEW v \in Visitors, OptOut(v)
  PROVE  CampaignInv'
<1> USE VisitKnown
<1>1. /\ UNCHANGED <<campaign, recipient, access, outbox, dispatch, edit, mishaps>> /\ Bounded
      /\ visit[v].pc = "leave"
  BY DEF OptOut, Bounded, VisitAt
<1>2. Sound
  <2>1. profile' \in [Investors -> ProfileType]
    BY DEF OptOut, CampaignInv, DocumentsType, ProfileType, Emails
  <2> QED BY <1>1, <2>1, ProfileWrite
<1>3. PICK r : r = [visit[v] EXCEPT !.pc = "withdraw"]
  OBVIOUS
<1>4. r \in VisitType /\ r.pc = "withdraw" /\ r.link = visit[v].link
  BY <1>3 DEF VisitType
<1>5. visit' = [visit EXCEPT ![v] = r]
  BY <1>3 DEF OptOut, VisitTo, CampaignInv, HandlersType
<1>6. VisitOK(r)
  BY <1>1, <1>4 DEF VisitOK
<1> QED BY <1>1, <1>2, <1>4, <1>5, <1>6, VisitQuiet

LEMMA WithdrawLinkStep ==
  ASSUME CampaignInv, NEW v \in Visitors, WithdrawLink(v)
  PROVE  CampaignInv'
<1> USE VisitKnown
<1>1. /\ UNCHANGED <<profile, campaign, recipient, outbox, dispatch, edit, mishaps>> /\ Bounded
      /\ visit[v].link \in Links /\ visit' = [visit EXCEPT ![v] = NoVisit]
      /\ access' = [access EXCEPT ![visit[v].link] = "REVOKED"]
  BY DEF WithdrawLink, Bounded, VisitAt, VisitIdle, VisitOK
<1>2. Sound
  BY <1>1, LinkWrite
<1>3. \A link \in Links : access'[link] = "ACTIVE" => access[link] = "ACTIVE"
  BY <1>1 DEF CampaignInv, DocumentsType
<1> QED BY <1>1, <1>2, <1>3, IdleVisit, VisitQuiet

LEMMA LoseVisitStep ==
  ASSUME CampaignInv, NEW v \in Visitors, LoseVisit(v)
  PROVE  CampaignInv'
<1> USE VisitKnown
<1>1. /\ UNCHANGED <<documents, outbox, dispatch, edit>> /\ Bounded /\ mishaps' # 0
      /\ visit' = [visit EXCEPT ![v] = NoVisit]
  BY CampaignAssumption DEF LoseVisit, Bounded, VisitIdle
<1>2. Sound
  BY <1>1, NoWrite
<1> QED BY <1>1, <1>2, IdleVisit, VisitQuiet DEF documents

LEMMA EditKnown ==
  ASSUME CampaignInv, NEW e \in Editors
  PROVE  /\ edit[e] \in EditType /\ EditOK(edit[e])
         /\ begun \in 0..MaxRequests /\ mishaps \in 0..MaxMishaps
BY DEF CampaignInv, HandlersType, DocumentsType

LEMMA ReadProfileStep ==
  ASSUME CampaignInv, NEW e \in Editors, NEW i \in Investors, ReadProfile(e, i)
  PROVE  CampaignInv'
<1> USE EditKnown
<1>1. UNCHANGED <<documents, outbox, dispatch, visit, mishaps>> /\ Bounded
  BY CampaignAssumption DEF ReadProfile, NewRequest, Bounded
<1>2. Sound
  BY <1>1, NoWrite
<1>3. PICK r : r = [edit[e] EXCEPT !.pc = "save", !.investor = i, !.person = profile[i]]
  OBVIOUS
<1>4. profile[i] \in ProfileType
  BY DEF CampaignInv, DocumentsType
<1>5. r \in EditType /\ r.pc = "save" /\ r.investor = i
  BY <1>3, <1>4 DEF EditType
<1>6. edit' = [edit EXCEPT ![e] = r]
  BY <1>3 DEF ReadProfile, CampaignInv, HandlersType
<1>7. EditOK(r)
  BY <1>5 DEF EditOK
<1> QED BY <1>1, <1>2, <1>5, <1>6, <1>7, EditQuiet DEF documents

LEMMA ReadRecipientStep ==
  ASSUME CampaignInv, NEW e \in Editors, NEW i \in Investors, ReadRecipient(e, i)
  PROVE  CampaignInv'
<1> USE EditKnown
<1>1. UNCHANGED <<documents, outbox, dispatch, visit, mishaps>> /\ Bounded
  BY CampaignAssumption DEF ReadRecipient, NewRequest, Bounded
<1>2. Sound
  BY <1>1, NoWrite
<1>3. PICK r : r = [edit[e] EXCEPT !.pc = "move", !.investor = i, !.row = recipient[i]]
  OBVIOUS
<1>4. recipient[i] \in RecipientType /\ Truthful(recipient[i], i)
  BY DEF CampaignInv, DocumentsType, DeliveryBacked, Truthful
<1>5. r \in EditType /\ r.pc = "move" /\ r.investor = i /\ r.row = recipient[i]
  BY <1>3, <1>4 DEF EditType
<1>6. edit' = [edit EXCEPT ![e] = r]
  BY <1>3 DEF ReadRecipient, CampaignInv, HandlersType
<1>7. EditOK(r)
  BY <1>4, <1>5 DEF EditOK
<1> QED BY <1>1, <1>2, <1>5, <1>6, <1>7, EditQuiet DEF documents

LEMMA SaveProfileStep ==
  ASSUME CampaignInv, NEW e \in Editors, SaveProfile(e)
  PROVE  CampaignInv'
<1> USE EditKnown
<1>1. /\ UNCHANGED <<campaign, recipient, access, outbox, dispatch, visit, mishaps>> /\ Bounded
      /\ edit' = [edit EXCEPT ![e] = NoEdit]
  BY DEF SaveProfile, Bounded, EditIdle
<1>2. profile' \in [Investors -> ProfileType]
  <2>1. PICK status \in Statuses, email \in Emails :
          profile' = [profile EXCEPT ![edit[e].investor] =
            [status |-> status,
             email  |-> IF edit[e].person.email = "OPTED_OUT" THEN "OPTED_OUT" ELSE email]]
    BY DEF SaveProfile
  <2>2. PICK person : person = [status |-> status,
             email  |-> IF edit[e].person.email = "OPTED_OUT" THEN "OPTED_OUT" ELSE email]
    OBVIOUS
  <2>3. person \in ProfileType
    BY <2>2 DEF ProfileType, Emails
  <2>4. profile' = [profile EXCEPT ![edit[e].investor] = person]
    BY <2>1, <2>2
  <2> QED BY <2>3, <2>4 DEF CampaignInv, DocumentsType
<1> QED BY <1>1, <1>2, ProfileWrite, IdleEdit, EditQuiet

LEMMA TransitionStep ==
  ASSUME CampaignInv, NEW e \in Editors, Transition(e)
  PROVE  CampaignInv'
<1> USE EditKnown
<1>1. /\ UNCHANGED <<profile, campaign, access, outbox, dispatch, visit, mishaps>> /\ Bounded
      /\ edit' = [edit EXCEPT ![e] = NoEdit] /\ edit[e].pc = "move"
  BY DEF Transition, Bounded, EditIdle, EditAt
<1>2. PICK stage \in Stages \cap PIPELINE_STATUSES :
        recipient' = [recipient EXCEPT ![edit[e].investor] = [edit[e].row EXCEPT !.pipeline = stage]]
  BY DEF Transition
<1>3. PICK row : row = [edit[e].row EXCEPT !.pipeline = stage]
  OBVIOUS
<1>4. edit[e].row \in RecipientType
  BY DEF EditType
<1>5. row \in RecipientType /\ row.delivery = edit[e].row.delivery
  BY <1>3, <1>4 DEF RecipientType
<1>6. edit[e].investor \in Investors /\ Truthful(row, edit[e].investor)
  BY <1>1, <1>5 DEF EditOK, Truthful
<1>7. Sound
  <2>1. recipient' = [recipient EXCEPT ![edit[e].investor] = row]
    BY <1>2, <1>3
  <2> QED BY <1>1, <1>5, <1>6, <2>1, RecipientWrite
<1> QED BY <1>1, <1>7, IdleEdit, EditQuiet

LEMMA RevokeAccessStep ==
  ASSUME CampaignInv, NEW link \in Links, RevokeAccess(link)
  PROVE  CampaignInv'
<1>1. /\ UNCHANGED <<profile, campaign, recipient, outbox, dispatch, visit, edit, mishaps>>
      /\ access' = [access EXCEPT ![link] = "REVOKED"] /\ Bounded
  BY DEF RevokeAccess, handlers, CampaignInv, DocumentsType, Bounded
<1>2. Sound
  BY <1>1, LinkWrite
<1>3. \A k \in Links : access'[k] = "ACTIVE" => access[k] = "ACTIVE"
  BY <1>1 DEF CampaignInv, DocumentsType
<1>4. LinksOpen'
  BY <1>1, <1>2, <1>3, LinksRest DEF CampaignInv, Sound
<1> QED BY <1>1, <1>2, <1>4, NobodyMoves

-----------------------------------------------------------------------------
(* What follows.                                                           *)

LEMMA CampaignInit == Init => CampaignInv
<1> SUFFICES ASSUME Init PROVE CampaignInv
  OBVIOUS
<1>1. DocumentsType
  <2>1. profile \in [Investors -> ProfileType]
    BY Copies DEF Init
  <2>2. recipient \in [Investors -> RecipientType]
    BY Copies DEF Init
  <2>3. campaign \in [status : {"READY", "SENDING", "ACTIVE"}, key : Keys \cup {None}]
    BY DEF Init
  <2>4. begun \in 0..MaxRequests /\ mishaps \in 0..MaxMishaps
    BY CampaignAssumption DEF Init
  <2> QED BY <2>1, <2>2, <2>3, <2>4 DEF Init, DocumentsType
<1>2. \A d \in Dispatchers : dispatch[d] \in DispatchType /\ DispatchOK(dispatch[d])
  BY IdleDispatch DEF Init
<1>3. \A v \in Visitors : visit[v] \in VisitType /\ VisitOK(visit[v])
  BY IdleVisit DEF Init
<1>4. \A e \in Editors : edit[e] \in EditType /\ EditOK(edit[e])
  BY IdleEdit DEF Init
<1>5. HandlersType
  BY <1>2, <1>3, <1>4 DEF Init, HandlersType
<1>6. DeliveryBacked
  <2>1. \A i \in Investors : recipient[i].delivery = "NOT_SENT"
    BY DEF Init, NewRecipient
  <2>2. campaign.status = "READY" /\ outbox = {}
    BY DEF Init
  <2> QED BY <2>1, <2>2 DEF DeliveryBacked
<1>7. LinksOpen
  BY DEF Init, LinksOpen
<1> QED BY <1>1, <1>2, <1>3, <1>4, <1>5, <1>6, <1>7 DEF CampaignInv

LEMMA CampaignStutter ==
  ASSUME CampaignInv, UNCHANGED vars
  PROVE  CampaignInv'
<1>1. UNCHANGED <<documents, outbox, dispatch, visit, edit, mishaps>> /\ Bounded
  BY DEF vars, documents, Bounded, CampaignInv, DocumentsType
<1>2. Sound
  BY <1>1, NoWrite
<1>3. LinksOpen'
  BY <1>1, <1>2, LinksRest DEF CampaignInv, Sound, documents
<1> QED BY <1>1, <1>2, <1>3, NobodyMoves

LEMMA CampaignNext ==
  ASSUME CampaignInv, [Next]_vars
  PROVE  CampaignInv'
<1>1. ASSUME NEW d \in Dispatchers, Proceed(d) PROVE CampaignInv'
  BY <1>1, ReadRecipientsStep, ReadInvestorsStep, MarkSendingStep, SkipStep, SuppressStep,
     SaveAccessStep, SendStep, RecordAcceptedStep, NoteActivityStep, RevokeLinkStep,
     RecordFailedStep, CloseStep DEF Proceed
<1>2. ASSUME NEW d \in Dispatchers, FaultAfterSend(d) \/ LoseDispatch(d) PROVE CampaignInv'
  BY <1>2, DispatchMishapStep
<1>3. ASSUME NEW d \in Dispatchers, NEW key \in Keys, BeginDispatch(d, key) PROVE CampaignInv'
  BY <1>3, BeginStep
<1>4. ASSUME NEW v \in Visitors, Visit(v) PROVE CampaignInv'
  BY <1>4, OpenLinkStep, CheckInvestorStep, CountAccessStep, RespondStep, OptOutStep,
     WithdrawLinkStep DEF Visit
<1>5. ASSUME NEW e \in Editors, Manage(e) PROVE CampaignInv'
  BY <1>5, ReadProfileStep, ReadRecipientStep, SaveProfileStep, TransitionStep DEF Manage
<1> QED BY <1>1, <1>2, <1>3, <1>4, <1>5, LoseVisitStep, RevokeAccessStep, CampaignStutter DEF Next

\* The inductive invariant holds of every reachable state.
THEOREM CampaignInvariant == Spec => []CampaignInv
BY CampaignInit, CampaignNext, PTL DEF Spec

\* Every document and every handler's local state has its shape.
THEOREM CampaignTypeCorrect == Spec => []TypeOK
<1>1. CampaignInv => TypeOK
  BY DEF CampaignInv, DocumentsType, HandlersType, DispatchType, VisitType, EditType, TypeOK
<1> QED BY <1>1, CampaignInvariant, PTL

\* An accepted recipient has a message, an active campaign has sent one, and every
\* link that was mailed was saved, although dispatch, respond and transition write
\* back recipients they read long before.
THEOREM DeliveriesAreBacked == Spec => []DeliveryBacked
BY CampaignInvariant, PTL DEF CampaignInv

\* When no dispatch is under way and none was lost, an active link belongs to an
\* investor who got a message: the catch clause of dispatch revokes every other one.
THEOREM LinksAreAccounted == Spec => []LinksAccounted
<1>1. CampaignInv => LinksAccounted
  BY DEF CampaignInv, LinksOpen, LinksAccounted, DispatchAt
<1> QED BY <1>1, CampaignInvariant, PTL

\* No dispatch, visit or edit makes a revoked link active again.
THEOREM RevocationIsFinal == Spec => RevokedForGood
<1> DEFINE Stays == \A link \in Links : access[link] = "REVOKED" => access'[link] = "REVOKED"
<1>1. ASSUME CampaignInv, [Next]_vars PROVE Stays
  <2>1. access \in [Links -> {"NONE", "ACTIVE", "REVOKED"}]
    BY <1>1 DEF CampaignInv, DocumentsType
  <2>2. ASSUME NEW link, access' = [access EXCEPT ![link] = "REVOKED"] PROVE Stays
    BY <2>1, <2>2
  <2>3. CASE access' = access
    BY <2>3
  <2>4. ASSUME NEW d \in Dispatchers, NEW i \in Investors, SaveAccess(d, i) PROVE Stays
    <3>1. PICK n \in 1..MaxRequests :
            access[<<i, n>>] = "NONE" /\ access' = [access EXCEPT ![<<i, n>>] = "ACTIVE"]
      BY <2>4 DEF SaveAccess, NewToken
    <3> QED BY <2>1, <3>1
  <2> HIDE DEF Stays
  <2>5. ASSUME NEW d \in Dispatchers, Proceed(d) PROVE Stays
    <3>1. CASE RevokeLink(d)
      BY <2>2, <3>1 DEF RevokeLink
    <3>2. CASE \E i \in Investors : SaveAccess(d, i)
      BY <2>4, <3>2
    <3> QED BY <2>3, <2>5, <3>1, <3>2
            DEF Proceed, ReadRecipients, ReadInvestors, MarkSending, Skip, Suppress, Send,
                RecordAccepted, NoteActivity, RecordFailed, Close, documents
  <2>6. ASSUME NEW v \in Visitors, Visit(v) PROVE Stays
    BY <2>2, <2>3, <2>6
       DEF Visit, OpenLink, CheckInvestor, CountAccess, Respond, OptOut, WithdrawLink, documents
  <2>7. ASSUME NEW e \in Editors, Manage(e) PROVE Stays
    BY <2>3, <2>7 DEF Manage, ReadProfile, ReadRecipient, SaveProfile, Transition, documents
  <2>8. ASSUME NEW d \in Dispatchers, FaultAfterSend(d) \/ LoseDispatch(d) PROVE Stays
    BY <2>3, <2>8 DEF FaultAfterSend, LoseDispatch, documents
  <2>9. ASSUME NEW d \in Dispatchers, NEW key \in Keys, BeginDispatch(d, key) PROVE Stays
    BY <2>3, <2>9 DEF BeginDispatch, documents
  <2>10. ASSUME NEW v \in Visitors, LoseVisit(v) PROVE Stays
    BY <2>3, <2>10 DEF LoseVisit, documents
  <2>11. ASSUME NEW link \in Links, RevokeAccess(link) PROVE Stays
    BY <2>2, <2>11 DEF RevokeAccess
  <2>12. CASE UNCHANGED vars
    BY <2>3, <2>12 DEF vars
  <2> QED BY <1>1, <2>5, <2>6, <2>7, <2>8, <2>9, <2>10, <2>11, <2>12 DEF Next
<1>2. Spec => [][Stays]_vars
  BY <1>1, CampaignInvariant, PTL DEF Spec
<1> QED BY <1>2 DEF RevokedForGood
=============================================================================
