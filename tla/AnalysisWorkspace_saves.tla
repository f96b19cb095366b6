------------------------ MODULE AnalysisWorkspace_saves ------------------------
(***************************************************************************)
(* Saving: no update is lost, what is acknowledged or shown as saved is    *)
(* stored, and history is immutable.                                       *)
(*                                                                         *)
(* SavesBuildOnSaved speaks of stored revisions only; to keep it, every    *)
(* draft, in a tab, in localStorage, in a request or in a pending promotion, *)
(* must have been edited from content that is stored under its revision    *)
(* number (Grounded), which holds on because the record only grows.        *)
(***************************************************************************)
EXTENDS AnalysisWorkspace_types, TLAPS
-----------------------------------------------------------------------------
(* What drafts, requests and revisions are built on.                       *)

\* Nothing that is stored changes, nothing disappears unless its scenario is
\* removed, and only restoring brings an archived property back.
Grows ==
  /\ removed \subseteq removed' /\ archived \subseteq archived'
  /\ \A q \in saved : q \in saved' \/ q.scenario \in removed'
  /\ \A p \in Properties : property[p] # "none" => property'[p] # "none"
  /\ reports \subseteq reports'
  /\ \A p \in Properties :
       property[p] = "ARCHIVED" => property'[p] = "ARCHIVED" \/ call' = call

\* Content c is stored as revision n, unless scenario s has been disturbed.
Grounded(s, n, c) == Undisturbed(s) => \E q \in Stored(s, n) : q.content = c

DraftGrounded(s, d) ==
  d.revision > 0 => Grounded(s, d.revision, d.base) /\ (d.dirty \/ d.content = d.base)

RevisionOf(c) == [scenario |-> c.scenario, revision |-> c.revision + 1,
                  content |-> c.content, base |-> c.base]

CallGrounded(c) ==
  c.op = "save" =>
    /\ c.revision > 0 => Grounded(c.scenario, c.revision, c.base)
    /\ c.pc \in {"link", "store", "saved"} => property[c.property] # "none"
    /\ c.pc = "saved" /\ Undisturbed(c.scenario) => RevisionOf(c) \in saved

ServerGrounded ==
  /\ \A p \in Properties : property[p] = "ARCHIVED" => p \in archived
  /\ \A r \in saved : r.revision > 1 => Grounded(r.scenario, r.revision - 1, r.base)
  /\ \A h \in Handlers : CallGrounded(call[h])

DraftsGrounded ==
  /\ \A t \in Tabs, s \in Scenarios : DraftGrounded(s, draft[t][s])
  /\ \A s \in Scenarios : DraftGrounded(s, local.draft[s])

WaitGrounded(w) == w.op = "promote" => DraftGrounded(w.scenario, w.draft)

RestGrounded ==
  /\ \A t \in Tabs : WaitGrounded(wait[t])
  /\ \A t \in Tabs : \A r \in history[t] : Undisturbed(r.scenario) => r \in saved

AllGrounded == Typed /\ ServerGrounded /\ DraftsGrounded /\ RestGrounded

\* What is stored stays stored, or its scenario is disturbed.
LEMMA GroundedStays ==
  ASSUME Grows, NEW s \in Scenarios, NEW n, NEW c, Grounded(s, n, c), Home[s] \in Properties
  PROVE  Grounded(s, n, c)'
  BY DEF Grows, Grounded, Undisturbed, Stored, Of

\* A draft stays built on what is stored.
LEMMA DraftStays ==
  ASSUME Grows, NEW s \in Scenarios, NEW d, DraftGrounded(s, d)
  PROVE  DraftGrounded(s, d)'
  BY HomeAssumption, GroundedStays DEF DraftGrounded

\* A request stays built on what is stored.
LEMMA CallStays ==
  ASSUME Grows, NEW c, CallShape(c), CallGrounded(c)
  PROVE  CallGrounded(c)'
<1> SUFFICES ASSUME c.op = "save" PROVE CallGrounded(c)'
  BY DEF CallGrounded
<1>1. c.scenario \in Scenarios /\ c.property = Home[c.scenario] /\ Home[c.scenario] \in Properties
  BY HomeAssumption DEF CallShape
<1>2. c.revision > 0 => Grounded(c.scenario, c.revision, c.base)'
  BY <1>1, GroundedStays DEF CallGrounded
<1>3. c.pc \in {"link", "store", "saved"} => property'[c.property] # "none"
  BY <1>1 DEF CallGrounded, Grows
<1>4. c.pc = "saved" /\ Undisturbed(c.scenario)' => RevisionOf(c) \in saved'
  BY <1>1 DEF CallGrounded, Grows, Undisturbed, RevisionOf
<1> QED BY <1>2, <1>3, <1>4 DEF CallGrounded

\* Every step of the server, of the tabs and of their users lets the record grow.
LEMMA ServeGrows ==
  ASSUME ServerTyped, NEW h \in Handlers, Serve(h)
  PROVE  Grows
<1>1. property \in [Properties -> {"none", "SAVED", "ARCHIVED"}]
  BY DEF ServerTyped, ServerTypeOK
<1>2. CASE FindDuplicates(h) \/ CheckBaseline(h) \/ LinkRevision(h) \/ CheckReports(h)
           \/ ListRevisions(h) \/ CheckBusy(h) \/ ReadRevision(h) \/ Render(h)
  BY <1>2 DEF FindDuplicates, CheckBaseline, LinkRevision, CheckReports, ListRevisions,
              CheckBusy, ReadRevision, Render, documents, past, Grows
<1>3. CASE Create(h)
  BY <1>1, <1>3 DEF Create, past, Grows
<1>4. CASE StoreRevision(h)
  BY <1>4 DEF StoreRevision, past, Grows
<1>5. CASE DeleteRevisions(h)
  BY <1>5 DEF DeleteRevisions, Grows
<1>6. CASE AttachReport(h)
  BY <1>6 DEF AttachReport, past, Grows
<1> QED BY <1>2, <1>3, <1>4, <1>5, <1>6 DEF Serve

\* Archiving and restoring change no record.
LEMMA ManageGrows == ASSUME ServerTyped, Manage PROVE Grows
<1>1. PICK p \in Properties : Archive(p) \/ Restore(p)
  BY DEF Manage
<1>2. property \in [Properties -> {"none", "SAVED", "ARCHIVED"}]
  BY DEF ServerTyped, ServerTypeOK
<1> QED BY <1>1, <1>2 DEF Archive, Restore, past, Grows

\* A step that leaves the documents alone.
LEMMA StillGrows == ASSUME UNCHANGED <<documents, past>> PROVE Grows
  BY DEF documents, past, Grows

\* The requests when one handler gets request c.
LEMMA OneCallGrounded ==
  ASSUME ServerTyped, ServerGrounded, Grows, NEW h \in Handlers, NEW c \in CallRecord,
         call' = [call EXCEPT ![h] = c], CallGrounded(c)'
  PROVE  \A k \in Handlers : CallGrounded(call[k])'
<1>1. call \in [Handlers -> CallRecord]
  BY DEF ServerTyped, ServerTypeOK, CallRecord
<1> TAKE k \in Handlers
<1>2. PICK b : b = call[k]
  OBVIOUS
<1>3. CallGrounded(b)'
  BY <1>2, CallStays DEF ServerTyped, ServerGrounded
<1>4. call'[k] = c \/ call'[k] = b
  BY <1>1, <1>2
<1> QED BY <1>3, <1>4 DEF CallGrounded, Grounded, Undisturbed, Stored, Of, RevisionOf

\* A step that changes nothing of the server but the requests.
LEMMA OnlyCallsGrounded ==
  ASSUME ServerTyped, ServerGrounded, Server, \A k \in Handlers : CallGrounded(call[k])'
  PROVE  ServerGrounded'
<1>1. UNCHANGED <<property, saved, removed, archived>>
  BY DEF Server, documents, past
<1>2. \A r \in saved' : r.revision > 1 => Grounded(r.scenario, r.revision - 1, r.base)'
  BY <1>1 DEF ServerGrounded, Grounded, Undisturbed, Stored, Of
<1> QED BY <1>1, <1>2 DEF ServerGrounded

\* A request that is not a save needs nothing.
LEMMA NewCallGrounded ==
  ASSUME ServerTyped, ServerGrounded, Server, NEW h \in Handlers, NEW c \in CallRecord,
         call' = [call EXCEPT ![h] = c], c.op # "save"
  PROVE  ServerGrounded'
<1>1. CallGrounded(c)'
  BY DEF CallGrounded
<1>2. Grows
  BY StillGrows DEF Server
<1> QED BY <1>1, <1>2, OneCallGrounded, OnlyCallsGrounded

\* An answer that is taken needs nothing.
LEMMA FreeGrounded ==
  ASSUME ServerTyped, ServerGrounded, Server, NEW h \in Handlers, Free(h)
  PROVE  ServerGrounded'
<1>1. NoCall.op # "save"
  BY DEF NoCall
<1> QED BY <1>1, NoCallFine, NewCallGrounded DEF Free

\* A save of a grounded draft is a grounded request.
LEMMA SendSaveGrounded ==
  ASSUME ServerTyped, ServerGrounded, Server, NEW t \in Tabs, NEW h \in Handlers,
         NEW s \in Scenarios, NEW d \in Draft, NEW r, NEW lock, d.revision < MaxRevision,
         d.revision > 0 => Grounded(s, d.revision, d.base), SendSave(t, h, s, d, r, lock)
  PROVE  ServerGrounded'
<1> DEFINE c == Request("save", "revisions", s, d.revision, d.content, d.base, None)
<1>1. d.revision \in 0..MaxRevision /\ d.content \in Contents /\ d.base \in Contents \cup {None}
  BY DEF Draft
<1>2. c \in CallRecord
  BY <1>1, RequestFine
<1>3. call' = [call EXCEPT ![h] = c]
  BY DEF SendSave
<1>4. Grows
  BY StillGrows DEF Server
<1>5. d.revision > 0 => Grounded(s, d.revision, d.base)'
  BY <1>4, GroundedStays, HomeAssumption
<1>6. CallGrounded(c)'
  BY <1>5 DEF CallGrounded, Request
<1> HIDE DEF c
<1> QED BY <1>2, <1>3, <1>4, <1>6, OneCallGrounded, OnlyCallsGrounded

\* Both ways of saving a grounded draft, the second without a predecessor.
LEMMA ChooseTargetGrounded ==
  ASSUME ServerTyped, ServerGrounded, Server, NEW t \in Tabs, NEW h \in Handlers,
         NEW s \in Scenarios, NEW d \in Drafts, NEW lock, d # NoDraft, DraftGrounded(s, d),
         ChooseTarget(t, h, s, d, lock)
  PROVE  ServerGrounded'
<1>1. d \in Draft
  BY DEF Drafts
<1>2. CASE d.revision < MaxRevision /\ SendSave(t, h, s, d, None, lock)
  BY <1>1, <1>2, SendSaveGrounded DEF DraftGrounded
<1>3. ASSUME NEW n \in Scenarios, SendSave(t, h, n, [d EXCEPT !.revision = 0, !.base = None], s, lock)
      PROVE  ServerGrounded'
  <2> DEFINE e == [d EXCEPT !.revision = 0, !.base = None]
  <2>1. e \in Draft /\ e.revision = 0 /\ e.revision < MaxRevision
    <3>1. 0 \in 0..MaxRevision /\ 0 < MaxRevision /\ None \in Contents \cup {None}
      BY BoundAssumption
    <3>2. d = [revision |-> d.revision, content |-> d.content, base |-> d.base, dirty |-> d.dirty]
          /\ d.content \in Contents /\ d.dirty \in BOOLEAN
      BY <1>1 DEF Draft
    <3> QED BY <3>1, <3>2 DEF Draft
  <2> HIDE DEF e
  <2>2. SendSave(t, h, n, e, s, lock)
    BY <1>3 DEF e
  <2> QED BY <2>1, <2>2, SendSaveGrounded
<1> QED BY <1>2, <1>3 DEF ChooseTarget

\* A handler that goes on keeps its request grounded if the property is there and an
\* acknowledged revision is stored.
LEMMA GotoGrounded ==
  ASSUME ServerTyped, ServerGrounded, Grows, NEW h \in Handlers, NEW pc, Goto(h, pc),
         pc \in {"create", "link", "store", "list", "delete", "revisions", "render", "attach"} \cup Answers,
         call[h].op = "save" =>
           /\ pc \in {"link", "store", "saved"} => property'[call[h].property] # "none"
           /\ pc = "saved" /\ call[h].scenario \notin removed' /\ Home[call[h].scenario] \notin archived'
              => NewRevision(h) \in saved'
  PROVE  \A k \in Handlers : CallGrounded(call[k])'
<1>1. call \in [Handlers -> CallRecord]
  BY DEF ServerTyped, ServerTypeOK, CallRecord
<1>2. PICK b \in CallRecord : b = call[h]
  BY <1>1
<1> DEFINE c == [b EXCEPT !.pc = pc]
<1>3. c \in CallRecord /\ call' = [call EXCEPT ![h] = c]
  BY <1>1, <1>2 DEF CallRecord, Goto
<1>4. CallGrounded(b)'
  BY <1>2, CallStays DEF ServerTyped, ServerGrounded
<1>5. /\ c.op = b.op /\ c.pc = pc /\ c.revision = b.revision /\ c.scenario = b.scenario
      /\ c.base = b.base /\ c.property = b.property /\ c.content = b.content
  BY DEF CallRecord
<1>6. RevisionOf(c) = NewRevision(h)
  BY <1>2, <1>5 DEF RevisionOf, NewRevision
<1> HIDE DEF c
<1>7. CallGrounded(c)'
  <2> SUFFICES ASSUME c.op = "save" PROVE CallGrounded(c)'
    BY DEF CallGrounded
  <2>1. c.revision > 0 => Grounded(c.scenario, c.revision, c.base)'
    BY <1>4, <1>5 DEF CallGrounded
  <2>2. c.pc \in {"link", "store", "saved"} => property'[c.property] # "none"
    BY <1>2, <1>5
  <2>3. c.pc = "saved" /\ Undisturbed(c.scenario)' => RevisionOf(c) \in saved'
    BY <1>2, <1>5, <1>6 DEF Undisturbed
  <2> QED BY <2>1, <2>2, <2>3 DEF CallGrounded
<1> QED BY <1>3, <1>7, OneCallGrounded

\* Revisions stay grounded, and a new one is if it was saved from what is stored.
LEMMA SavedGrounded ==
  ASSUME ServerTyped, ServerGrounded, Grows, NEW x,
         x \in Revision, x.revision > 1 => Grounded(x.scenario, x.revision - 1, x.base),
         saved' \subseteq saved \cup {x}
  PROVE  \A r \in saved' : r.revision > 1 => Grounded(r.scenario, r.revision - 1, r.base)'
<1> SUFFICES ASSUME NEW r \in saved', r.revision > 1 PROVE Grounded(r.scenario, r.revision - 1, r.base)'
  OBVIOUS
<1>1. r \in Revision /\ Grounded(r.scenario, r.revision - 1, r.base)
  BY DEF ServerTyped, ServerTypeOK, ServerGrounded
<1>2. r.scenario \in Scenarios /\ Home[r.scenario] \in Properties
  BY <1>1, HomeAssumption DEF Revision
<1> QED BY <1>1, <1>2, GroundedStays

\* Removing revisions leaves the others grounded or their scenario disturbed.
LEMMA FewerGrounded ==
  ASSUME ServerTyped, ServerGrounded, Grows, saved' \subseteq saved
  PROVE  \A r \in saved' : r.revision > 1 => Grounded(r.scenario, r.revision - 1, r.base)'
<1> SUFFICES ASSUME NEW r \in saved', r.revision > 1 PROVE Grounded(r.scenario, r.revision - 1, r.base)'
  OBVIOUS
<1>1. r \in Revision /\ Grounded(r.scenario, r.revision - 1, r.base)
  BY DEF ServerTyped, ServerTypeOK, ServerGrounded
<1>2. r.scenario \in Scenarios /\ Home[r.scenario] \in Properties
  BY <1>1, HomeAssumption DEF Revision
<1> QED BY <1>1, <1>2, GroundedStays

\* Every step of a handler keeps the server grounded.
LEMMA ServeGrounded ==
  ASSUME ServerTyped, ServerGrounded, NEW h \in Handlers, Serve(h)
  PROVE  ServerGrounded'
<1>1. Grows
  BY ServeGrows
<1>2. call \in [Handlers -> CallRecord] /\ call[h] \in CallRecord /\ CallShape(call[h])
      /\ property \in [Properties -> {"none", "SAVED", "ARCHIVED"}]
  BY DEF ServerTyped, ServerTypeOK, CallRecord
<1>3. CallGrounded(call[h])
  BY DEF ServerGrounded
<1>5. CASE FindDuplicates(h)
  <2>1. \A k \in Handlers : CallGrounded(call[k])'
    BY <1>1, <1>5, GotoGrounded DEF FindDuplicates, At, Answer, Answers
  <2> QED BY <1>5, <2>1, OnlyCallsGrounded DEF FindDuplicates, Server
<1>6. CASE Create(h)
  <2>1. \A k \in Handlers : CallGrounded(call[k])'
    BY <1>1, <1>6, GotoGrounded DEF Create, At, Answer, Answers
  <2>2. \A p \in Properties : property'[p] = "ARCHIVED" => p \in archived'
    BY <1>2, <1>6 DEF Create, past, ServerGrounded
  <2>3. saved' = saved
    BY <1>6 DEF Create
  <2> QED BY <1>1, <2>1, <2>2, <2>3, FewerGrounded DEF ServerGrounded
<1>7. CASE CheckBaseline(h)
  <2>1. \A k \in Handlers : CallGrounded(call[k])'
    BY <1>1, <1>7, GotoGrounded DEF CheckBaseline, At, Answer, Answers, IsSaved, documents
  <2> QED BY <1>7, <2>1, OnlyCallsGrounded DEF CheckBaseline, Server
<1>8. CASE LinkRevision(h)
  <2>1. /\ At(h, {"save"}, "link") /\ UNCHANGED <<documents, past>>
        /\ \/ IsSaved(call[h].property) /\ Goto(h, "store")
           \/ ~IsSaved(call[h].property) /\ Goto(h, "saved")
    BY <1>8 DEF LinkRevision, Answer
  <2>2. call[h].scenario \in Scenarios /\ call[h].property = Home[call[h].scenario]
        /\ Home[call[h].scenario] \in Properties /\ property[call[h].property] # "none"
    BY <1>2, <1>3, <2>1, HomeAssumption DEF At, CallShape, CallGrounded
  <2>3. ~IsSaved(call[h].property) => Home[call[h].scenario] \in archived
    BY <1>2, <2>2 DEF IsSaved, ServerGrounded
  <2>4. CASE Goto(h, "store")
    <3>1. \A k \in Handlers : CallGrounded(call[k])'
      BY <1>1, <2>1, <2>2, <2>4, GotoGrounded DEF documents, Answers
    <3> QED BY <1>8, <3>1, OnlyCallsGrounded DEF LinkRevision, Server
  <2>5. CASE ~IsSaved(call[h].property) /\ Goto(h, "saved")
    <3>1. \A k \in Handlers : CallGrounded(call[k])'
      BY <1>1, <2>1, <2>2, <2>3, <2>5, GotoGrounded DEF documents, past, Answers
    <3> QED BY <1>8, <3>1, OnlyCallsGrounded DEF LinkRevision, Server
  <2> QED BY <2>1, <2>4, <2>5
<1>9. CASE StoreRevision(h)
  <2>1. At(h, {"save"}, "store") /\ UNCHANGED <<property, past>>
    BY <1>9 DEF StoreRevision
  <2>2. \/ saved' = saved /\ Goto(h, "conflict")
        \/ saved' = saved \cup {NewRevision(h)} /\ (Goto(h, "saved") \/ Goto(h, "error"))
    BY <1>9 DEF StoreRevision, Answer
  <2>3. /\ call[h].scenario \in Scenarios /\ call[h].revision \in 0..MaxRevision
        /\ call[h].revision < MaxRevision /\ call[h].content \in Contents
        /\ call[h].base \in Contents \cup {None} /\ property[call[h].property] # "none"
        /\ call[h].revision > 0 => Grounded(call[h].scenario, call[h].revision, call[h].base)
    BY <1>2, <1>3, <2>1 DEF At, CallShape, CallRecord, CallGrounded
  <2>4. \A k \in Handlers : CallGrounded(call[k])'
    BY <1>1, <2>1, <2>2, <2>3, GotoGrounded DEF Answers
  <2>5. PICK x : x = NewRevision(h)
    OBVIOUS
  <2>6. x \in Revision /\ x.scenario = call[h].scenario /\ x.base = call[h].base
        /\ x.revision - 1 = call[h].revision
    BY <2>3, <2>5, BoundAssumption DEF NewRevision, Revision
  <2>7. x.revision > 1 => Grounded(x.scenario, x.revision - 1, x.base)
    <3>1. x.revision \in Int /\ call[h].revision \in Int
      BY <2>3, <2>6, BoundAssumption DEF Revision
    <3>2. x.revision > 1 => call[h].revision > 0
      BY <2>6, <3>1
    <3> QED BY <2>3, <2>6, <3>2
  <2>8. \A r \in saved' : r.revision > 1 => Grounded(r.scenario, r.revision - 1, r.base)'
    BY <1>1, <2>2, <2>5, <2>6, <2>7, SavedGrounded
  <2> QED BY <2>1, <2>4, <2>8 DEF ServerGrounded, past
<1>10. CASE CheckReports(h)
  <2>1. \A k \in Handlers : CallGrounded(call[k])'
    BY <1>1, <1>10, GotoGrounded DEF CheckReports, At, Answer, Answers
  <2> QED BY <1>10, <2>1, OnlyCallsGrounded DEF CheckReports, Server
<1>11. CASE ListRevisions(h)
  <2>1. CASE Goto(h, "notFound")
    <3>1. \A k \in Handlers : CallGrounded(call[k])'
      BY <1>1, <1>11, <2>1, GotoGrounded DEF ListRevisions, At, Answers
    <3> QED BY <1>11, <3>1, OnlyCallsGrounded DEF ListRevisions, Server
  <2>2. CASE ~Goto(h, "notFound")
    <3> DEFINE c == [call[h] EXCEPT !.pc = "delete",
                                    !.listed = {r.revision : r \in Of(call[h].scenario)}]
    <3>1. {r.revision : r \in Of(call[h].scenario)} \subseteq 1..MaxRevision
      BY DEF Of, ServerTyped, ServerTypeOK, Revision
    <3>2. c \in CallRecord /\ c.op # "save"
      BY <1>2, <1>11, <3>1 DEF ListRevisions, At, CallRecord
    <3>3. call' = [call EXCEPT ![h] = c]
      BY <1>11, <2>2 DEF ListRevisions, Answer
    <3> HIDE DEF c
    <3> QED BY <1>11, <3>2, <3>3, NewCallGrounded DEF ListRevisions, Server
  <2> QED BY <2>1, <2>2
<1>12. CASE DeleteRevisions(h)
  <2>1. \A k \in Handlers : CallGrounded(call[k])'
    <3> TAKE k \in Handlers
    <3>1. PICK b \in CallRecord : b = call[k]
      BY <1>2
    <3>2. CallGrounded(b)' /\ CallShape(b)
      BY <1>1, <3>1, CallStays DEF ServerTyped, ServerGrounded
    <3>3. CASE k = h
      <4>1. call'[k].op = "remove"
        BY <1>2, <1>12, <3>3 DEF DeleteRevisions, At, CallRecord
      <4> QED BY <4>1 DEF CallGrounded
    <3>4. CASE k # h
      <4>1. PICK x \in BOOLEAN : call'[k] = [b EXCEPT !.raced = x]
        BY <1>12, <3>1, <3>4 DEF DeleteRevisions, CallRecord
      <4>2. PICK c \in CallRecord : c = call'[k]
        BY <4>1 DEF CallRecord
      <4>3. /\ c.op = b.op /\ c.pc = b.pc /\ c.revision = b.revision /\ c.scenario = b.scenario
            /\ c.base = b.base /\ c.property = b.property /\ c.content = b.content
        BY <4>1, <4>2 DEF CallRecord
      <4> QED BY <3>2, <4>2, <4>3 DEF CallGrounded, Grounded, Undisturbed, Stored, Of, RevisionOf
    <3> QED BY <3>3, <3>4
  <2>2. saved' \subseteq saved /\ property' = property /\ archived' = archived
    BY <1>12 DEF DeleteRevisions
  <2> QED BY <1>1, <2>1, <2>2, FewerGrounded DEF ServerGrounded
<1>13. CASE CheckBusy(h)
  <2>1. \A k \in Handlers : CallGrounded(call[k])'
    BY <1>1, <1>13, GotoGrounded DEF CheckBusy, At, Answer, Answers
  <2> QED BY <1>13, <2>1, OnlyCallsGrounded DEF CheckBusy, ServerGrounded, documents, past,
             Grounded, Undisturbed, Stored, Of, CallGrounded, Server
<1>14. CASE ReadRevision(h)
  <2>1. Grows /\ UNCHANGED <<property, saved, removed, archived>>
    BY <1>1, <1>14 DEF ReadRevision, documents, past
  <2>2. \A k \in Handlers : CallGrounded(call[k])'
    <3>1. CASE Goto(h, "notSaved")
      BY <1>1, <1>14, <3>1, GotoGrounded DEF ReadRevision, At, Answers
    <3>2. CASE ~Goto(h, "notSaved")
      <4>1. PICK x \in Contents :
              call' = [call EXCEPT ![h].pc = IF call[h].op = "pdf" THEN "render" ELSE "html",
                                   ![h].content = x]
        BY <1>14, <3>2, CompleteAssumption DEF ReadRevision, Answer
      <4> DEFINE c == [call[h] EXCEPT !.pc = IF call[h].op = "pdf" THEN "render" ELSE "html",
                                      !.content = x]
      <4>2. c \in CallRecord /\ c.op # "save"
        <5>1. call[h] \in CallRecord /\ CallShape(call[h]) /\ call[h].op \in {"html", "pdf"}
          BY <1>2, <1>14 DEF ReadRevision, At
        <5> QED BY <5>1, <4>1, RevisionRead
      <4>3. PICK d \in CallRecord : d = c
        BY <4>2
      <4>4. CallGrounded(d)'
        BY <4>2, <4>3 DEF CallGrounded
      <4>5. call' = [call EXCEPT ![h] = d]
        BY <4>1, <4>3
      <4> QED BY <1>1, <4>4, <4>5, OneCallGrounded
    <3> QED BY <3>1, <3>2
  <2> QED BY <1>1, <2>1, <2>2, FewerGrounded DEF ServerGrounded
<1>15. CASE Render(h)
  <2>1. \A k \in Handlers : CallGrounded(call[k])'
    BY <1>1, <1>15, GotoGrounded DEF Render, At, Answer, Answers
  <2>2. UNCHANGED <<property, saved, removed, archived>>
    BY <1>15 DEF Render, documents, past
  <2> QED BY <1>1, <2>1, <2>2, FewerGrounded DEF ServerGrounded
<1>16. CASE AttachReport(h)
  <2>1. \A k \in Handlers : CallGrounded(call[k])'
    BY <1>1, <1>16, GotoGrounded DEF AttachReport, At, Answer, Answers
  <2>2. UNCHANGED <<property, saved, removed, archived>>
    BY <1>16 DEF AttachReport, past
  <2> QED BY <1>1, <2>1, <2>2, FewerGrounded DEF ServerGrounded
<1> QED BY <1>5, <1>6, <1>7, <1>8, <1>9, <1>10, <1>11, <1>12, <1>13, <1>14, <1>15, <1>16 DEF Serve

\* An error in a handler leaves what is stored alone.
LEMMA ThrowGrounded ==
  ASSUME ServerTyped, ServerGrounded, NEW h \in Handlers, Throw(h)
  PROVE  ServerGrounded' /\ Grows
<1>1. Grows /\ UNCHANGED <<property, saved, removed, archived>>
  BY StillGrows DEF Throw, documents, past
<1>2. \A k \in Handlers : CallGrounded(call[k])'
  BY <1>1, GotoGrounded DEF Throw, Answer, Answers
<1> QED BY <1>1, <1>2, FewerGrounded DEF ServerGrounded

\* Archiving disturbs the scenarios of the property, restoring does not undo that.
LEMMA ManageGrounded ==
  ASSUME ServerTyped, ServerGrounded, Manage
  PROVE  ServerGrounded'
<1>1. Grows
  BY ManageGrows
<1>2. PICK p \in Properties : Archive(p) \/ Restore(p)
  BY DEF Manage
<1>3. call' = call /\ saved' = saved
  BY <1>2 DEF Archive, Restore
<1>4. \A q \in Properties : property'[q] = "ARCHIVED" => q \in archived'
  BY <1>2 DEF Archive, Restore, past, ServerGrounded, ServerTyped, ServerTypeOK
<1>5. \A k \in Handlers : CallGrounded(call[k])'
  <2> TAKE k \in Handlers
  <2>1. PICK b : b = call[k]
    OBVIOUS
  <2>2. CallGrounded(b)'
    BY <1>1, <2>1, CallStays DEF ServerTyped, ServerGrounded
  <2> QED BY <1>3, <2>1, <2>2 DEF CallGrounded, Grounded, Undisturbed, Stored, Of, RevisionOf
<1> QED BY <1>1, <1>3, <1>4, <1>5, FewerGrounded DEF ServerGrounded

\* A scenario as the server sends it is grounded if its revision is stored.
LEMMA CleanGrounded ==
  ASSUME NEW r \in Revision, Undisturbed(r.scenario) => r \in saved
  PROVE  DraftGrounded(r.scenario, Clean(r))
  BY DEF DraftGrounded, Clean, Grounded, Stored, Of

\* No draft needs nothing.
LEMMA NoDraftGrounded == \A s \in Scenarios : DraftGrounded(s, NoDraft)
  BY DEF DraftGrounded, NoDraft

\* Drafts that do not change stay grounded.
LEMMA DraftsStay ==
  ASSUME Typed, DraftsGrounded, Grows, UNCHANGED <<draft, local>>
  PROVE  DraftsGrounded'
<1>1. ASSUME NEW t \in Tabs, NEW s \in Scenarios PROVE DraftGrounded(s, draft[t][s])'
  <2>1. PICK d : d = draft[t][s]
    OBVIOUS
  <2>2. DraftGrounded(s, d)'
    BY <2>1, DraftStays DEF DraftsGrounded
  <2> QED BY <2>1, <2>2 DEF DraftGrounded, Grounded, Undisturbed, Stored, Of
<1>2. ASSUME NEW s \in Scenarios PROVE DraftGrounded(s, local.draft[s])'
  <2>1. PICK d : d = local.draft[s]
    OBVIOUS
  <2>2. DraftGrounded(s, d)'
    BY <2>1, DraftStays DEF DraftsGrounded
  <2> QED BY <2>1, <2>2 DEF DraftGrounded, Grounded, Undisturbed, Stored, Of
<1> QED BY <1>1, <1>2 DEF DraftsGrounded

\* What a tab waits for stays grounded.
LEMMA WaitStays ==
  ASSUME Grows, NEW w, WaitTyped(w), WaitGrounded(w)
  PROVE  WaitGrounded(w)'
  BY DraftStays DEF WaitTyped, WaitGrounded

\* What a tab waits for is grounded when one tab begins to wait for w.
LEMMA WaitsGrounded ==
  ASSUME Typed, RestGrounded, Grows, NEW t \in Tabs, NEW w, WaitGrounded(w)', Waits(t, w)
  PROVE  \A u \in Tabs : WaitGrounded(wait[u])'
<1> TAKE u \in Tabs
<1>1. PICK x : x = wait[u]
  OBVIOUS
<1>2. WaitGrounded(x)'
  BY <1>1, WaitStays DEF Typed, TabTyped, RestGrounded
<1>3. wait'[u] = w \/ wait'[u] = x
  BY <1>1 DEF Waits, Typed, TabTyped
<1> QED BY <1>2, <1>3 DEF WaitGrounded, DraftGrounded, Grounded, Undisturbed, Stored, Of

\* One tab stops waiting.
LEMMA EndWaitGrounded ==
  ASSUME Typed, RestGrounded, Grows, NEW t \in Tabs, EndWait(t)
  PROVE  \A u \in Tabs : WaitGrounded(wait[u])'
<1>1. WaitGrounded(Idle)'
  BY DEF WaitGrounded, Idle
<1>2. PICK w : w = Idle
  OBVIOUS
<1>3. WaitGrounded(w)' /\ Waits(t, w)
  BY <1>1, <1>2 DEF EndWait, WaitGrounded, Idle
<1> QED BY <1>3, WaitsGrounded

\* No tab begins to wait.
LEMMA WaitUnchangedGrounded ==
  ASSUME Typed, RestGrounded, Grows, UNCHANGED wait
  PROVE  \A u \in Tabs : WaitGrounded(wait[u])'
<1> TAKE u \in Tabs
<1>1. PICK x : x = wait[u]
  OBVIOUS
<1>2. WaitGrounded(x)'
  BY <1>1, WaitStays DEF Typed, TabTyped, RestGrounded
<1> QED BY <1>1, <1>2 DEF WaitGrounded, DraftGrounded, Grounded, Undisturbed, Stored, Of

\* The revisions a tab has seen stay stored.
LEMMA HistoryStays ==
  ASSUME Typed, RestGrounded, Grows, UNCHANGED history
  PROVE  \A t \in Tabs : \A r \in history'[t] : Undisturbed(r.scenario)' => r \in saved'
<1> SUFFICES ASSUME NEW t \in Tabs, NEW r \in history[t], Undisturbed(r.scenario)' PROVE r \in saved'
  OBVIOUS
<1>1. r \in Revision
  BY DEF Typed, TabTyped
<1> QED BY <1>1, HomeAssumption DEF RestGrounded, Grows, Undisturbed, Revision

\* A step that leaves the tabs alone.
LEMMA TabsStay ==
  ASSUME Typed, DraftsGrounded, RestGrounded, Grows, UNCHANGED <<draft, local, wait, history>>
  PROVE  DraftsGrounded' /\ RestGrounded'
  BY DraftsStay, WaitUnchangedGrounded, HistoryStays DEF RestGrounded

\* Rendering grounded drafts, in the tab and in localStorage.
LEMMA ShowGrounded ==
  ASSUME Typed, DraftsGrounded, Grows, NEW t \in Tabs, NEW ds \in [Scenarios -> Drafts],
         \A s \in Scenarios : DraftGrounded(s, ds[s]), NEW x, NEW clear, Show(t, ds, x, clear)
  PROVE  DraftsGrounded'
<1>1. draft' = [draft EXCEPT ![t] = ds] /\ local' = [draft |-> ds, active |-> x]
  BY DEF Show
<1>2. \A s \in Scenarios : DraftGrounded(s, ds[s])'
  BY DraftStays
<1>3. ASSUME NEW u \in Tabs, NEW s \in Scenarios PROVE DraftGrounded(s, draft[u][s])'
  <2>1. PICK d : d = draft[u][s]
    OBVIOUS
  <2>2. DraftGrounded(s, d)'
    BY <2>1, DraftStays DEF DraftsGrounded
  <2>3. draft'[u][s] = d \/ draft'[u][s] = ds[s]
    BY <1>1, <2>1 DEF Typed, TabTyped
  <2> QED BY <1>2, <2>2, <2>3 DEF DraftGrounded, Grounded, Undisturbed, Stored, Of
<1>4. ASSUME NEW s \in Scenarios PROVE DraftGrounded(s, local.draft[s])'
  <2>1. local'.draft[s] = ds[s]
    BY <1>1
  <2> QED BY <1>2, <2>1 DEF DraftGrounded, Grounded, Undisturbed, Stored, Of
<1> QED BY <1>3, <1>4 DEF DraftsGrounded

\* update() changes the content of a draft, not what it was edited from.
LEMMA EditGrounded ==
  ASSUME AllGrounded, Grows, NEW t \in Tabs, NEW c \in Contents, Edit(t, c)
  PROVE  DraftsGrounded'
<1> DEFINE a == active[t]
           e == [draft[t][a] EXCEPT !.content = c, !.dirty = TRUE]
           ds == [draft[t] EXCEPT ![a].content = c, ![a].dirty = TRUE]
<1>1. a \in Scenarios /\ draft[t] \in [Scenarios -> Drafts] /\ draft[t][a] \in Draft
  BY CurrentTyped DEF AllGrounded, Typed, TabTyped, Edit, Current, Drafts
<1>2. e \in Draft /\ e.dirty /\ e.revision = draft[t][a].revision /\ e.base = draft[t][a].base
  BY <1>1 DEF Draft
<1>3. e \in Drafts
  BY <1>2 DEF Drafts
<1>4. ds = [draft[t] EXCEPT ![a] = e]
  BY <1>1 DEF Draft
<1> HIDE DEF e
<1>5. DraftGrounded(a, e)
  BY <1>1, <1>2 DEF AllGrounded, DraftsGrounded, DraftGrounded
<1>6. ds \in [Scenarios -> Drafts] /\ \A s \in Scenarios : DraftGrounded(s, ds[s])
  <2>1. ds \in [Scenarios -> Drafts] /\ \A s \in Scenarios : ds[s] = IF s = a THEN e ELSE draft[t][s]
    <3> HIDE DEF ds, a
    <3> QED BY <1>1, <1>3, <1>4
  <2> HIDE DEF ds
  <2> QED BY <1>5, <2>1 DEF AllGrounded, DraftsGrounded
<1>7. Show(t, ds, a, TRUE)
  BY DEF Edit
<1> HIDE DEF ds, a
<1> QED BY <1>6, <1>7, ShowGrounded DEF AllGrounded

\* A new scenario was edited from nothing.
LEMMA NewScenarioGrounded ==
  ASSUME AllGrounded, Grows, NEW t \in Tabs, NEW s \in Scenarios, NEW c \in Contents,
         NewScenario(t, s, c)
  PROVE  DraftsGrounded'
<1> DEFINE ds == [draft[t] EXCEPT ![s] = Unsaved(c)]
<1>1. Unsaved(c) \in Drafts /\ DraftGrounded(s, Unsaved(c))
  BY BoundAssumption DEF Unsaved, Drafts, Draft, DraftGrounded
<1>2. draft[t] \in [Scenarios -> Drafts] /\ \A x \in Scenarios : DraftGrounded(x, draft[t][x])
  BY DEF AllGrounded, Typed, TabTyped, DraftsGrounded
<1>3. ds \in [Scenarios -> Drafts] /\ \A x \in Scenarios : DraftGrounded(x, ds[x])
  BY <1>1, <1>2
<1>4. Show(t, ds, s, TRUE)
  BY DEF NewScenario
<1> HIDE DEF ds
<1> QED BY <1>3, <1>4, ShowGrounded DEF AllGrounded

\* chooseScenario() shows the drafts as they are.
LEMMA ChooseGrounded ==
  ASSUME AllGrounded, Grows, NEW t \in Tabs, NEW s \in Scenarios, Choose(t, s)
  PROVE  DraftsGrounded'
<1>1. draft[t] \in [Scenarios -> Drafts] /\ \A x \in Scenarios : DraftGrounded(x, draft[t][x])
  BY DEF AllGrounded, Typed, TabTyped, DraftsGrounded
<1> QED BY <1>1, ShowGrounded DEF Choose, AllGrounded

\* Hydration takes a local draft or what is stored now.
LEMMA HydratedGrounded ==
  ASSUME AllGrounded
  PROVE  \A s \in Scenarios : DraftGrounded(s, Hydrated[s])
<1> TAKE s \in Scenarios
<1>1. CASE local.draft[s].dirty \/ Latest(s) = {}
  BY <1>1 DEF Hydrated, AllGrounded, DraftsGrounded
<1>2. CASE ~(local.draft[s].dirty \/ Latest(s) = {})
  <2>1. PICK r : r = CHOOSE x \in Latest(s) : TRUE
    OBVIOUS
  <2>2. r \in saved /\ r \in Revision /\ r.scenario = s
    BY <1>2, <2>1 DEF Latest, Of, AllGrounded, Typed, ServerTyped, ServerTypeOK
  <2>3. Hydrated[s] = Clean(r)
    BY <1>2, <2>1 DEF Hydrated
  <2> QED BY <2>2, <2>3, CleanGrounded
<1> QED BY <1>1, <1>2

\* A checkpoint writes the drafts of a tab to the local storage.
LEMMA CheckpointGrounded ==
  ASSUME AllGrounded, Grows, NEW t \in Tabs, Checkpoint(t)
  PROVE  DraftsGrounded'
<1>1. UNCHANGED draft /\ local' = [draft |-> draft[t], active |-> active[t]]
  BY DEF Checkpoint
<1>2. ASSUME NEW u \in Tabs, NEW s \in Scenarios
      PROVE  DraftGrounded(s, draft[u][s])' /\ (u = t => DraftGrounded(s, local.draft[s])')
  <2>1. PICK d : d = draft[u][s]
    OBVIOUS
  <2>2. DraftGrounded(s, d)'
    BY <2>1, DraftStays DEF AllGrounded, DraftsGrounded
  <2>3. draft'[u][s] = d /\ (u = t => local'.draft[s] = d)
    BY <1>1, <2>1
  <2> QED BY <2>2, <2>3 DEF DraftGrounded, Grounded, Undisturbed, Stored, Of
<1> QED BY <1>2 DEF DraftsGrounded

\* Reloading takes hydrated drafts and the stored revisions.
LEMMA ReloadGrounded ==
  ASSUME AllGrounded, Grows, NEW t \in Tabs, Reload(t)
  PROVE  DraftsGrounded' /\ RestGrounded'
<1>1. /\ draft' = [draft EXCEPT ![t] = Hydrated] /\ local' = [local EXCEPT !.draft = Hydrated]
      /\ history' = [history EXCEPT ![t] = saved] /\ EndWait(t) /\ UNCHANGED serverVars
  BY DEF Reload, EndWait, Waits
<1>2. DraftsTyped /\ saved \subseteq Revision
  BY TabParts DEF AllGrounded, Typed, ServerTyped, ServerTypeOK
<1>3. PICK ds \in [Scenarios -> Drafts] : ds = Hydrated
  BY <1>2, HydratedTyped
<1>4. \A s \in Scenarios : DraftGrounded(s, ds[s])
  BY <1>3, HydratedGrounded
<1>5. DraftsGrounded'
  <2>1. \A s \in Scenarios : DraftGrounded(s, ds[s])'
    BY <1>4, DraftStays
  <2>2. ASSUME NEW u \in Tabs, NEW s \in Scenarios PROVE DraftGrounded(s, draft[u][s])'
    <3>1. PICK d : d = draft[u][s]
      OBVIOUS
    <3>2. DraftGrounded(s, d)'
      BY <3>1, DraftStays DEF AllGrounded, DraftsGrounded
    <3>3. draft'[u][s] = d \/ draft'[u][s] = ds[s]
      BY <1>1, <1>3, <3>1 DEF AllGrounded, Typed, TabTyped
    <3> QED BY <2>1, <3>2, <3>3 DEF DraftGrounded, Grounded, Undisturbed, Stored, Of
  <2>3. ASSUME NEW s \in Scenarios PROVE DraftGrounded(s, local.draft[s])'
    <3>1. local'.draft[s] = ds[s]
      BY <1>1, <1>2, <1>3 DEF DraftsTyped
    <3> QED BY <2>1, <3>1 DEF DraftGrounded, Grounded, Undisturbed, Stored, Of
  <2> QED BY <2>2, <2>3 DEF DraftsGrounded
<1>6. \A u \in Tabs : WaitGrounded(wait[u])'
  BY <1>1, EndWaitGrounded DEF AllGrounded
<1>7. \A u \in Tabs : \A r \in history'[u] : Undisturbed(r.scenario)' => r \in saved'
  BY <1>1 DEF AllGrounded, RestGrounded, Typed, TabTyped, serverVars, documents, past, Undisturbed
<1> QED BY <1>5, <1>6, <1>7 DEF RestGrounded

\* latestSaved() goes back to a revision the tab has seen.
LEMMA LatestSavedGrounded ==
  ASSUME AllGrounded, NEW t \in Tabs, NEW s \in Scenarios
  PROVE  DraftGrounded(s, LatestSaved(t, s))
<1> DEFINE mine == {r \in history[t] : r.scenario = s}
           last == {r \in mine : \A q \in mine : q.revision <= r.revision}
<1>1. CASE last = {}
  BY <1>1, NoDraftGrounded DEF LatestSaved
<1>2. CASE last # {}
  <2>1. PICK r : r = CHOOSE x \in last : TRUE
    OBVIOUS
  <2>2. r \in last
    BY <1>2, <2>1
  <2>3. r \in Revision /\ r.scenario = s /\ (Undisturbed(s) => r \in saved)
    BY <2>2 DEF AllGrounded, RestGrounded, Typed, TabTyped
  <2>4. LatestSaved(t, s) = Clean(r)
    BY <1>2, <2>1 DEF LatestSaved
  <2> QED BY <2>3, <2>4, CleanGrounded
<1> QED BY <1>1, <1>2

\* Taking the answer to a save shows the revision that was stored.
LEMMA SavedTabGrounded ==
  ASSUME AllGrounded, Grows, NEW t \in Tabs, NEW k \in Kinds, Saved(t, k)
  PROVE  DraftsGrounded' /\ RestGrounded'
<1>1. PICK h \in Handlers, r \in Revision : h = wait[t].handler /\ r = NewRevision(h)
  BY SavedCall DEF Saved, AllGrounded
<1>2. Undisturbed(r.scenario) => r \in saved
  <2>1. CallGrounded(call[h]) /\ CallShape(call[h]) /\ call[h].pc = "saved"
    BY <1>1 DEF AllGrounded, ServerGrounded, Typed, ServerTyped, Saved, Gets
  <2>2. r = RevisionOf(call[h]) /\ r.scenario = call[h].scenario
    BY <1>1 DEF NewRevision, RevisionOf
  <2> QED BY <2>1, <2>2 DEF CallGrounded, CallShape
<1>3. r.scenario \in Scenarios /\ DraftGrounded(r.scenario, Clean(r)) /\ Clean(r) \in Drafts
  BY <1>2, CleanGrounded, CleanTyped DEF Revision
<1>4. draft[t] \in [Scenarios -> Drafts] /\ history[t] \subseteq Revision
      /\ \A s \in Scenarios : DraftGrounded(s, draft[t][s])
  BY DEF AllGrounded, Typed, TabTyped, DraftsGrounded
<1> DEFINE back == wait[t].replaces
           rest == IF back = None THEN draft[t] ELSE [draft[t] EXCEPT ![back] = LatestSaved(t, back)]
<1>5. rest \in [Scenarios -> Drafts] /\ \A s \in Scenarios : DraftGrounded(s, rest[s])
  <2>1. \A s \in Scenarios : LatestSaved(t, s) \in Drafts /\ DraftGrounded(s, LatestSaved(t, s))
    BY <1>4, LatestSavedTyped, LatestSavedGrounded
  <2>2. CASE back \in Scenarios
    BY <1>4, <2>1, <2>2
  <2>3. CASE back \notin Scenarios
    BY <1>4, <2>3
  <2> QED BY <2>2, <2>3
<1>6. AfterSave(t, r) = [rest EXCEPT ![r.scenario] = Clean(r)]
  BY DEF AfterSave
<1> HIDE DEF rest
<1>7. AfterSave(t, r) \in [Scenarios -> Drafts]
      /\ \A s \in Scenarios : DraftGrounded(s, AfterSave(t, r)[s])
  BY <1>3, <1>5, <1>6
<1>8. /\ Show(t, AfterSave(t, r), r.scenario, FALSE)
      /\ history' = [history EXCEPT ![t] = @ \cup {r}]
      /\ saved' = saved /\ removed' = removed /\ archived' = archived
  BY <1>1 DEF Saved, Server, documents, past
<1>9. DraftsGrounded'
  BY <1>7, <1>8, ShowGrounded DEF AllGrounded
<1>10. \A u \in Tabs : WaitGrounded(wait[u])'
  <2> DEFINE w == [Idle EXCEPT !.op = "html", !.handler = h, !.kind = k, !.lock = TRUE]
  <2>1. WaitGrounded(w)'
    BY DEF Idle, WaitGrounded
  <2>2. Waits(t, w) \/ EndWait(t)
    BY <1>1 DEF Saved
  <2> HIDE DEF w
  <2> QED BY <2>1, <2>2, WaitsGrounded, EndWaitGrounded DEF AllGrounded
<1>11. \A u \in Tabs : \A q \in history'[u] : Undisturbed(q.scenario)' => q \in saved'
  BY <1>2, <1>8 DEF AllGrounded, RestGrounded, Typed, TabTyped, Undisturbed
<1> QED BY <1>9, <1>10, <1>11 DEF RestGrounded

\* A tab that waits for a save needs nothing.
LEMMA ChooseTargetWaitGrounded ==
  ASSUME AllGrounded, Grows, NEW t \in Tabs, NEW h \in Handlers, NEW s, NEW d, NEW lock,
         ChooseTarget(t, h, s, d, lock)
  PROVE  \A u \in Tabs : WaitGrounded(wait[u])'
<1>1. ASSUME NEW x, NEW e, NEW r, SendSave(t, h, x, e, r, lock)
      PROVE  \A u \in Tabs : WaitGrounded(wait[u])'
  <2> DEFINE w == [Idle EXCEPT !.op = "save", !.handler = h, !.scenario = x, !.draft = e,
                               !.replaces = r, !.lock = lock]
  <2>1. WaitGrounded(w)'
    BY DEF Idle, WaitGrounded
  <2>2. Waits(t, w)
    BY <1>1 DEF SendSave
  <2> HIDE DEF w
  <2> QED BY <2>1, <2>2, WaitsGrounded DEF AllGrounded
<1> QED BY <1>1 DEF ChooseTarget

\* save() and saveAndPreview() send the draft on the screen, which is grounded.
LEMMA SaveGrounded ==
  ASSUME AllGrounded, NEW t \in Tabs, NEW h \in Handlers, NEW lock \in BOOLEAN, Save(t, h, lock)
  PROVE  ServerGrounded' /\ DraftsGrounded' /\ RestGrounded'
<1>1. Grows /\ Server /\ Page /\ history' = history
  BY StillGrows DEF Save, Server
<1>2. active[t] \in Scenarios /\ Current(t) \in Drafts \ {NoDraft}
      /\ DraftGrounded(active[t], Current(t))
  BY CurrentTyped DEF Save, AllGrounded, Typed, DraftsGrounded, Current
<1>3. CASE Home[active[t]] \in known[t]
  <2>1. ChooseTarget(t, h, active[t], Current(t), lock)
    BY <1>3 DEF Save
  <2>2. ServerGrounded'
    BY <1>1, <1>2, <2>1, ChooseTargetGrounded DEF AllGrounded, Typed
  <2>3. \A u \in Tabs : WaitGrounded(wait[u])'
    BY <1>1, <2>1, ChooseTargetWaitGrounded
  <2> QED BY <1>1, <2>2, <2>3, DraftsStay, HistoryStays DEF AllGrounded, RestGrounded, Page
<1>4. CASE Home[active[t]] \notin known[t]
  <2> DEFINE c == Request("promote", "duplicates", active[t], 0, None, None, None)
             w == [Idle EXCEPT !.op = "promote", !.handler = h, !.scenario = active[t],
                               !.draft = Current(t), !.lock = lock]
  <2>1. call' = [call EXCEPT ![h] = c] /\ Waits(t, w)
    BY <1>4 DEF Save
  <2>2. c \in CallRecord /\ c.op # "save"
    <3>1. c \in CallRecord
      BY <1>2, RequestFine, BoundAssumption
    <3>2. c.op # "save"
      BY DEF Request
    <3> QED BY <3>1, <3>2
  <2>3. ServerGrounded'
    <3> HIDE DEF c
    <3> QED BY <1>1, <2>1, <2>2, NewCallGrounded DEF AllGrounded, Typed
  <2>4. PICK v : v = w
    OBVIOUS
  <2>5. v.op = "promote" /\ v.scenario = active[t] /\ v.draft = Current(t)
    BY <2>4 DEF Idle
  <2>6. DraftGrounded(v.scenario, v.draft)'
    BY <1>1, <1>2, <2>5, DraftStays
  <2>7. WaitGrounded(v)' /\ Waits(t, v)
    BY <2>1, <2>4, <2>6 DEF WaitGrounded
  <2>8. \A u \in Tabs : WaitGrounded(wait[u])'
    BY <1>1, <2>7, WaitsGrounded DEF AllGrounded
  <2> QED BY <1>1, <2>3, <2>8, DraftsStay, HistoryStays DEF AllGrounded, RestGrounded, Page
<1> QED BY <1>3, <1>4

\* Asking for a report touches no draft.
LEMMA AskReportGrounded ==
  ASSUME AllGrounded, NEW t \in Tabs, NEW h \in Handlers, NEW op \in {"html", "pdf"},
         NEW k \in Kinds, AskReport(t, h, op, k)
  PROVE  ServerGrounded' /\ DraftsGrounded' /\ RestGrounded'
<1>1. Grows /\ Server /\ Page /\ history' = history
  BY StillGrows DEF AskReport, Server
<1>2. active[t] \in Scenarios /\ Current(t).revision \in 0..MaxRevision /\ Current(t).revision > 0
  BY CurrentTyped DEF AskReport, AllGrounded, Typed, Drafts, Draft
<1> DEFINE pc == IF op = "pdf" THEN "guard" ELSE "revisions"
           c == Request(op, pc, active[t], Current(t).revision, None, None, k)
           w == [Idle EXCEPT !.op = op, !.handler = h, !.kind = k, !.key = CalcKey(t), !.lock = TRUE]
<1>3. c \in CallRecord /\ c.op # "save"
  <2>1. pc \in {"duplicates", "reports", "revisions", "guard"}
    OBVIOUS
  <2> HIDE DEF pc
  <2>2. Request(op, pc, active[t], Current(t).revision, None, None, k) \in CallRecord
    BY <1>2, <2>1, RequestFine
  <2>3. c.op = op
    BY DEF Request
  <2> QED BY <2>2, <2>3
<1>4. call' = [call EXCEPT ![h] = c] /\ Waits(t, w)
  BY DEF AskReport
<1>5. PICK v : v = w
  OBVIOUS
<1>6. v.op # "promote"
  BY <1>5 DEF Idle
<1> HIDE DEF c, w
<1>7. ServerGrounded'
  BY <1>1, <1>3, <1>4, NewCallGrounded DEF AllGrounded, Typed
<1>8. WaitGrounded(v)' /\ Waits(t, v)
  BY <1>4, <1>5, <1>6 DEF WaitGrounded
<1>9. \A u \in Tabs : WaitGrounded(wait[u])'
  BY <1>1, <1>8, WaitsGrounded DEF AllGrounded
<1> QED BY <1>1, <1>7, <1>9, DraftsStay, HistoryStays DEF AllGrounded, RestGrounded, Page

\* Taking any answer keeps the invariant.
LEMMA RespondGrounded ==
  ASSUME AllGrounded, NEW t \in Tabs, Respond(t)
  PROVE  ServerGrounded' /\ DraftsGrounded' /\ RestGrounded'
<1>1. CASE Promoted(t)
  <2>1. Grows /\ Server /\ Page /\ history' = history
    BY <1>1, StillGrows DEF Promoted, Server
  <2>2. /\ wait[t].handler \in Handlers /\ wait[t].scenario \in Scenarios
        /\ wait[t].draft \in Drafts \ {NoDraft} /\ DraftGrounded(wait[t].scenario, wait[t].draft)
    BY <1>1 DEF Promoted, Gets, AllGrounded, RestGrounded, WaitGrounded, Typed, TabTyped, WaitTyped
  <2>3. ChooseTarget(t, wait[t].handler, wait[t].scenario, wait[t].draft, wait[t].lock)
    BY <1>1 DEF Promoted
  <2>4. ServerGrounded'
    BY <2>1, <2>2, <2>3, ChooseTargetGrounded DEF AllGrounded, Typed
  <2>5. \A u \in Tabs : WaitGrounded(wait[u])'
    BY <2>1, <2>2, <2>3, ChooseTargetWaitGrounded
  <2> QED BY <2>1, <2>4, <2>5, DraftsStay, HistoryStays DEF AllGrounded, RestGrounded, Page
<1>2. CASE Previewed(t) \/ GotPdf(t) \/ Refused(t)
  <2>1. /\ Server /\ draft' = draft /\ local' = local /\ history' = history
        /\ Free(wait[t].handler) /\ EndWait(t) /\ wait[t].op # "idle"
    BY <1>2 DEF Previewed, GotPdf, Refused, Page, Gets, Busy
  <2>2. wait[t].handler \in Handlers
    BY <2>1 DEF AllGrounded, Typed, TabTyped, WaitTyped
  <2>3. ServerGrounded' /\ Grows
    BY <2>1, <2>2, FreeGrounded, StillGrows DEF AllGrounded, Typed, Server
  <2>4. \A u \in Tabs : WaitGrounded(wait[u])'
    BY <2>1, <2>3, EndWaitGrounded DEF AllGrounded
  <2> QED BY <2>1, <2>3, <2>4, DraftsStay, HistoryStays DEF AllGrounded, RestGrounded
<1>3. ASSUME NEW k \in Kinds, Saved(t, k)
      PROVE  ServerGrounded' /\ DraftsGrounded' /\ RestGrounded'
  <2>1. Server /\ Grows
    BY <1>3, StillGrows DEF Saved, Server
  <2>2. PICK h \in Handlers, r \in Revision : h = wait[t].handler /\ r = NewRevision(h)
    BY <1>3, SavedCall DEF Saved, AllGrounded
  <2> DEFINE c == Request("html", "revisions", r.scenario, r.revision, None, None, k)
  <2>3. c \in CallRecord /\ c.op # "save"
    <3>1. r.scenario \in Scenarios /\ r.revision \in 0..MaxRevision /\ r.revision > 0
      BY BoundAssumption DEF Revision
    <3> QED BY <3>1, RequestFine DEF Request
  <2>4. call' = [call EXCEPT ![h] = c] \/ Free(h)
    BY <1>3, <2>2 DEF Saved
  <2> HIDE DEF c
  <2>5. ServerGrounded'
    BY <2>1, <2>3, <2>4, NewCallGrounded, FreeGrounded DEF AllGrounded, Typed
  <2> QED BY <1>3, <2>1, <2>5, SavedTabGrounded
<1> QED BY <1>1, <1>2, <1>3 DEF Respond

\* The invariant is inductive, and every step lets the record grow.
LEMMA StepGrounded == AllGrounded /\ [Next]_vars => AllGrounded' /\ Grows
<1> SUFFICES ASSUME AllGrounded, [Next]_vars
             PROVE  ServerGrounded' /\ DraftsGrounded' /\ RestGrounded' /\ Grows
  BY StepTyped DEF AllGrounded
<1> DEFINE Result == ServerGrounded' /\ DraftsGrounded' /\ RestGrounded' /\ Grows
<1>1. Typed /\ ServerTyped /\ ServerGrounded /\ DraftsGrounded /\ RestGrounded
  BY DEF AllGrounded, Typed
<1>2. ASSUME UNCHANGED serverVars PROVE ServerGrounded' /\ Grows
  <2>1. Server /\ call' = call
    BY <1>2 DEF serverVars, Server
  <2>2. Grows
    BY <2>1, StillGrows DEF Server
  <2>3. \A k \in Handlers : CallGrounded(call[k])'
    <3> TAKE k \in Handlers
    <3>1. PICK b : b = call[k]
      OBVIOUS
    <3>2. CallGrounded(b)'
      BY <1>1, <2>2, <3>1, CallStays DEF ServerTyped, ServerGrounded
    <3> QED BY <2>1, <3>1, <3>2 DEF CallGrounded, Grounded, Undisturbed, Stored, Of, RevisionOf
  <2> QED BY <1>1, <2>1, <2>2, <2>3, OnlyCallsGrounded
<1>3. ASSUME Edits, DraftsGrounded' PROVE Result
  <2>1. ServerGrounded' /\ Grows
    BY <1>2, <1>3 DEF Edits
  <2> QED BY <1>1, <1>3, <2>1, WaitUnchangedGrounded, HistoryStays DEF Edits, RestGrounded
<1>4. ASSUME NEW t \in Tabs, NEW c \in Contents, Edit(t, c) PROVE Result
  <2>1. Grows
    BY <1>2, <1>4 DEF Edit, Edits
  <2> QED BY <1>3, <1>4, <2>1, EditGrounded DEF Edit
<1>5. ASSUME NEW t \in Tabs, NEW s \in Scenarios, Choose(t, s) PROVE Result
  <2>1. Grows
    BY <1>2, <1>5 DEF Choose, Edits
  <2> QED BY <1>3, <1>5, <2>1, ChooseGrounded DEF Choose
<1>6. ASSUME NEW t \in Tabs, NEW s \in Scenarios, NEW c \in Contents, NewScenario(t, s, c) PROVE Result
  <2>1. Grows
    BY <1>2, <1>6 DEF NewScenario, Edits
  <2> QED BY <1>3, <1>6, <2>1, NewScenarioGrounded DEF NewScenario
<1>7. ASSUME NEW t \in Tabs, NEW h \in Handlers, NEW lock \in BOOLEAN, Save(t, h, lock) PROVE Result
  BY <1>7, SaveGrounded, StillGrows DEF Save, Server
<1>8. ASSUME NEW t \in Tabs, NEW h \in Handlers, NEW op \in {"html", "pdf"}, NEW k \in Kinds,
             AskReport(t, h, op, k)
      PROVE  Result
  BY <1>8, AskReportGrounded, StillGrows DEF AskReport, Server
<1>9. ASSUME UNCHANGED tabVars, ServerGrounded', Grows PROVE Result
  BY <1>1, <1>9, TabsStay DEF tabVars
<1>10. ASSUME NEW h \in Handlers, NEW s \in Scenarios, Remove(h, s), UNCHANGED tabVars PROVE Result
  <2> DEFINE c == Request("remove", "reports", s, 0, None, None, None)
  <2>1. c \in CallRecord /\ c.op # "save"
    BY RequestFine, BoundAssumption DEF Request
  <2>2. call' = [call EXCEPT ![h] = c] /\ Server
    BY <1>10 DEF Remove, Receive, Server
  <2> HIDE DEF c
  <2> QED BY <1>1, <1>9, <1>10, <2>1, <2>2, NewCallGrounded, StillGrows DEF Server
<1>11. ASSUME Manage, UNCHANGED tabVars PROVE Result
  BY <1>1, <1>9, <1>11, ManageGrounded, ManageGrows
<1>12. ASSUME NEW t \in Tabs, Respond(t) PROVE Result
  <2>1. Grows
    BY <1>12, StillGrows DEF Respond, Promoted, Previewed, GotPdf, Refused, Saved, Server
  <2> QED BY <1>12, <2>1, RespondGrounded
<1>13. ASSUME NEW t \in Tabs, Reload(t) PROVE Result
  <2>1. ServerGrounded' /\ Grows
    BY <1>2, <1>13 DEF Reload
  <2> QED BY <1>13, <2>1, ReloadGrounded
<1>14. ASSUME NEW t \in Tabs, LoseAnswer(t) PROVE Result
  <2>1. ServerGrounded' /\ Grows /\ UNCHANGED <<draft, local, history>> /\ EndWait(t)
    BY <1>2, <1>14 DEF LoseAnswer
  <2> QED BY <1>1, <2>1, DraftsStay, EndWaitGrounded, HistoryStays DEF RestGrounded
<1>15. ASSUME NEW t \in Tabs, Analyzed(t) PROVE Result
  <2>1. ServerGrounded' /\ Grows /\ UNCHANGED <<draft, local, history, wait>>
    BY <1>2, <1>15 DEF Analyzed
  <2> QED BY <1>1, <2>1, TabsStay
<1>16. ASSUME NEW h \in Handlers, Unheard(h) PROVE Result
  BY <1>1, <1>9, <1>16, FreeGrounded, StillGrows DEF Unheard, Server
<1>17. ASSUME NEW h \in Handlers, Proceed(h) PROVE Result
  BY <1>1, <1>9, <1>17, ServeGrounded, ServeGrows DEF Proceed
<1>18. ASSUME NEW h \in Handlers, Throw(h), UNCHANGED tabVars PROVE Result
  BY <1>1, <1>9, <1>18, ThrowGrounded
<1>19. ASSUME UNCHANGED vars PROVE Result
  BY <1>2, <1>9, <1>19 DEF vars
<1>20. ASSUME NEW t \in Tabs, Checkpoint(t) PROVE Result
  <2>1. ServerGrounded' /\ Grows /\ UNCHANGED <<history, wait>>
    BY <1>2, <1>20 DEF Checkpoint
  <2>2. DraftsGrounded'
    BY <1>20, <2>1, CheckpointGrounded
  <2> QED BY <1>1, <2>1, <2>2, WaitUnchangedGrounded, HistoryStays DEF RestGrounded
<1> QED BY <1>4, <1>5, <1>6, <1>7, <1>8, <1>10, <1>11, <1>12, <1>13, <1>14, <1>15, <1>16, <1>17,
           <1>18, <1>19, <1>20 DEF Next, UserActs

\* The invariant holds initially.
LEMMA InitGrounded == Init => AllGrounded
<1> SUFFICES ASSUME Init PROVE ServerGrounded /\ DraftsGrounded /\ RestGrounded
  BY InitTyped DEF AllGrounded
<1>1. PICK first :
        /\ \A r \in first : r.revision = 1 /\ first = {r}
        /\ saved = first /\ archived = {}
        /\ property = [p \in Properties |-> IF p \in {Home[r.scenario] : r \in first} THEN "SAVED" ELSE "none"]
        /\ call = [h \in Handlers |-> NoCall]
        /\ history = [t \in Tabs |-> first]
        /\ wait = [t \in Tabs |-> Idle]
  <2> DEFINE FirstOf(s, c) == IF s = None THEN {}
                              ELSE {[scenario |-> s, revision |-> 1, content |-> c, base |-> None]}
  <2>1. PICK s \in Scenarios \cup {None} : \E c \in IF s = None THEN {None} ELSE Contents :
          /\ saved = FirstOf(s, c) /\ archived = {}
          /\ property = [p \in Properties |->
                           IF p \in {Home[r.scenario] : r \in FirstOf(s, c)} THEN "SAVED" ELSE "none"]
          /\ call = [h \in Handlers |-> NoCall]
          /\ history = [t \in Tabs |-> FirstOf(s, c)]
          /\ wait = [t \in Tabs |-> Idle]
    BY DEF Init, ServerInit
  <2>2. \A c : \A r \in FirstOf(s, c) : r.revision = 1 /\ FirstOf(s, c) = {r}
    OBVIOUS
  <2> HIDE DEF FirstOf
  <2> QED BY <2>1, <2>2
<1>2. Typed /\ saved \subseteq Revision
  BY InitTyped DEF Typed, ServerTyped, ServerTypeOK
<1>3. ServerGrounded
  <2>1. \A h \in Handlers : CallGrounded(call[h])
    BY <1>1 DEF CallGrounded, NoCall
  <2> QED BY <1>1, <2>1 DEF ServerGrounded
<1>4. PICK ds :
        /\ draft = [t \in Tabs |-> ds] /\ local.draft = ds
        /\ \A s \in Scenarios : \/ ds[s] = NoDraft
                                \/ \E r \in saved : r.scenario = s /\ ds[s] = Clean(r)
  <2> DEFINE FirstOf(s, c) == IF s = None THEN {}
                              ELSE {[scenario |-> s, revision |-> 1, content |-> c, base |-> None]}
             DraftsOf(s, c) == [x \in Scenarios |-> IF x = s THEN Clean(CHOOSE r \in FirstOf(s, c) : TRUE)
                                                             ELSE NoDraft]
  <2>1. PICK s \in Scenarios \cup {None} : \E c \in IF s = None THEN {None} ELSE Contents :
          saved = FirstOf(s, c) /\ draft = [t \in Tabs |-> DraftsOf(s, c)]
          /\ local = [draft |-> DraftsOf(s, c), active |-> s]
    BY DEF Init, ServerInit
  <2>2. PICK c : saved = FirstOf(s, c) /\ draft = [t \in Tabs |-> DraftsOf(s, c)]
                 /\ local = [draft |-> DraftsOf(s, c), active |-> s]
    <3> HIDE DEF FirstOf, DraftsOf
    <3> QED BY <2>1
  <2>3. \A x \in Scenarios : \/ DraftsOf(s, c)[x] = NoDraft
                             \/ \E r \in saved : r.scenario = x /\ DraftsOf(s, c)[x] = Clean(r)
    <3> TAKE x \in Scenarios
    <3>1. CASE x # s
      BY <3>1
    <3>2. CASE x = s
      <4>1. s # None
        BY <3>2, NoneAssumption
      <4>2. PICK r : r = CHOOSE q \in FirstOf(s, c) : TRUE
        OBVIOUS
      <4>3. r \in FirstOf(s, c) /\ r.scenario = s
        BY <4>1, <4>2
      <4>4. DraftsOf(s, c)[x] = Clean(r)
        BY <3>2, <4>2
      <4> QED BY <2>2, <3>2, <4>3, <4>4
    <3> QED BY <3>1, <3>2
  <2> HIDE DEF FirstOf, DraftsOf
  <2> QED BY <2>2, <2>3
<1>5. \A s \in Scenarios : DraftGrounded(s, ds[s])
  BY <1>2, <1>4, NoDraftGrounded, CleanGrounded
<1>6. DraftsGrounded
  BY <1>4, <1>5 DEF DraftsGrounded
<1>7. RestGrounded
  BY <1>1 DEF RestGrounded, WaitGrounded, Idle
<1> QED BY <1>3, <1>6, <1>7

\* No update is lost, however many tabs and handlers there are: a revision that is
\* stored was edited from the content stored as the revision before it (the check
\* of CheckBaseline and the transaction of StoreRevision together).
THEOREM NoLostUpdate == Spec => []SavesBuildOnSaved
<1>1. AllGrounded => SavesBuildOnSaved
  BY DEF AllGrounded, ServerGrounded, Grounded, SavesBuildOnSaved
<1> QED BY <1>1, InitGrounded, StepGrounded, PTL DEF Spec

\* A save that was answered with success is stored, until the scenario is removed
\* or its property archived.
THEOREM AcknowledgedStaysStored == Spec => []AcknowledgedIsStored
<1>1. AllGrounded => AcknowledgedIsStored
  BY DEF AllGrounded, ServerGrounded, CallGrounded, AcknowledgedIsStored, At, RevisionOf, NewRevision
<1> QED BY <1>1, InitGrounded, StepGrounded, PTL DEF Spec

\* What a tab shows as saved is stored with the number it shows, whatever was
\* edited, hydrated, saved or lost in between.
THEOREM CleanDraftsAreStored == Spec => []CleanIsStored
<1>1. AllGrounded => CleanIsStored
  <2> SUFFICES ASSUME AllGrounded, NEW t \in Tabs, NEW s \in Scenarios,
                      Open(t, s), ~draft[t][s].dirty, Undisturbed(s)
               PROVE  \E r \in Stored(s, draft[t][s].revision) : r.content = draft[t][s].content
    BY DEF CleanIsStored
  <2>1. draft[t][s] \in Drafts /\ draft[t][s] # NoDraft
    BY DEF AllGrounded, Typed, TabTyped, Open
  <2>2. draft[t][s].revision > 0
    BY <2>1 DEF Drafts
  <2>3. DraftGrounded(s, draft[t][s])
    BY DEF AllGrounded, DraftsGrounded
  <2> QED BY <2>2, <2>3 DEF DraftGrounded, Grounded
<1> QED BY <1>1, InitGrounded, StepGrounded, PTL DEF Spec

\* Revisions are never changed and disappear with their scenario only, and no
\* promotion brings an archived property back.
THEOREM HistoryStaysImmutable == Spec => HistoryImmutable
<1>1. AllGrounded /\ [Next]_vars =>
        [ /\ \A r \in saved : r \in saved' \/ r.scenario \in removed'
          /\ \A p \in Properties :
               property[p] = "ARCHIVED" => property'[p] = "ARCHIVED" \/ call' = call ]_serverVars
  BY StepGrounded DEF Grows
<1>2. AllGrounded /\ [Next]_vars => AllGrounded'
  BY StepGrounded
<1> QED BY <1>1, <1>2, InitGrounded, PTL DEF Spec, HistoryImmutable
=============================================================================
