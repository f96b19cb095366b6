------------------------ MODULE AnalysisWorkspace_types ------------------------
(***************************************************************************)
(* The types of AnalysisWorkspace, for any number of tabs, handlers,       *)
(* scenarios and revisions.                                                *)
(*                                                                         *)
(* TypeOK alone is not inductive: that a revision fits its document needs  *)
(* to know which operation may be at which place (CallShape), that a draft *)
(* without changes has a revision (Drafts), and what a tab waits for       *)
(* (WaitTyped).                                                            *)
(***************************************************************************)
EXTENDS AnalysisWorkspace, TLAPS

CallRecord ==
  [op : {"idle", "promote", "save", "remove", "html", "pdf"},
   pc : {"idle", "duplicates", "create", "revisions", "link", "store",
         "reports", "list", "delete", "guard", "render", "attach"} \cup Answers,
   property : Properties \cup {None}, scenario : Scenarios \cup {None},
   revision : 0..MaxRevision, content : Contents \cup {None},
   base : Contents \cup {None}, kind : Kinds \cup {None},
   listed : SUBSET (1..MaxRevision), raced : BOOLEAN]

\* What the place of a handler says about its request.
CallShape(c) ==
  /\ c.op # "idle" => c.scenario \in Scenarios /\ c.property = Home[c.scenario]
  /\ c.op = "save" => c.content \in Contents /\ c.revision < MaxRevision
  /\ c.op \in {"html", "pdf"} => c.kind \in Kinds /\ c.revision > 0
  /\ c.pc \in {"link", "store", "saved"} => c.op = "save"
  /\ c.pc \in {"list", "delete"} => c.op = "remove"
  /\ c.pc \in {"render", "attach", "pdf"} => c.op = "pdf"
  /\ c.pc = "html" => c.op = "html"
  /\ c.pc = "promoted" => c.op = "promote"

ServerTyped ==
  /\ ServerTypeOK
  /\ \A h \in Handlers : CallShape(call[h])

\* A draft without changes is of a saved revision.
Drafts == {d \in Draft : d.dirty \/ d.revision > 0} \cup {NoDraft}

WaitTyped(w) ==
  /\ w.op # "idle" => w.handler \in Handlers
  /\ w.handler \in Handlers \cup {None}
  /\ w.op = "promote" => w.scenario \in Scenarios /\ w.draft \in Drafts \ {NoDraft}

TabTyped ==
  /\ draft \in [Tabs -> [Scenarios -> Drafts]]
  /\ active \in [Tabs -> Scenarios \cup {None}]
  /\ \A t \in Tabs : Active(t) => Open(t, active[t])
  /\ known \in [Tabs -> SUBSET Properties]
  /\ history \in [Tabs -> SUBSET Revision]
  /\ local \in [draft : [Scenarios -> Drafts], active : Scenarios \cup {None}]
  /\ local.active # None => local.draft[local.active] # NoDraft
  /\ wait = [t \in Tabs |-> wait[t]]
  /\ \A t \in Tabs : WaitTyped(wait[t])
  /\ acts \in 0..MaxActs

Typed == ServerTyped /\ TabTyped

\* A report request that found its revision goes on with the content of that revision.
LEMMA RevisionRead ==
  ASSUME NEW k \in CallRecord, CallShape(k), k.op \in {"html", "pdf"}, NEW x \in Contents
  PROVE  LET c == [k EXCEPT !.pc = IF k.op = "pdf" THEN "render" ELSE "html", !.content = x]
         IN  c \in CallRecord /\ CallShape(c) /\ c.op = k.op
<1>1. PICK q : q = (IF k.op = "pdf" THEN "render" ELSE "html")
  OBVIOUS
<1>2. PICK c : c = [k EXCEPT !.pc = q, !.content = x]
  OBVIOUS
<1>3. q \in {"render"} \cup Answers
  BY <1>1 DEF Answers
<1>4. c \in CallRecord
  BY <1>2, <1>3 DEF CallRecord
<1>5. /\ c.pc = q /\ c.op = k.op /\ c.scenario = k.scenario /\ c.property = k.property
      /\ c.kind = k.kind /\ c.revision = k.revision
  BY <1>2 DEF CallRecord
<1>6. CallShape(c)
  BY <1>1, <1>5 DEF CallShape
<1> QED BY <1>1, <1>2, <1>4, <1>5, <1>6


\* An idle handler is well formed.
LEMMA NoCallFine == NoCall \in CallRecord /\ CallShape(NoCall)
  BY NoneAssumption, BoundAssumption DEF NoCall, CallRecord, CallShape, Answers

\* A handler whose request changes to a well-formed one.
LEMMA CallStep ==
  ASSUME ServerTyped, NEW h \in Handlers, NEW c \in CallRecord, CallShape(c),
         call' = [call EXCEPT ![h] = c]
  PROVE  /\ call' \in [Handlers -> CallRecord]
         /\ \A k \in Handlers : CallShape(call'[k])
<1>1. call \in [Handlers -> CallRecord]
  BY DEF ServerTyped, ServerTypeOK, CallRecord
<1>2. \A k \in Handlers : call'[k] = IF k = h THEN c ELSE call[k]
  BY <1>1
<1> QED BY <1>1, <1>2 DEF ServerTyped

\* A handler that goes to another place of its operation.
LEMMA GotoStep ==
  ASSUME ServerTyped, NEW h \in Handlers, NEW pc, Goto(h, pc),
         pc \in {"create", "link", "store", "list", "delete", "revisions", "render", "attach"} \cup Answers,
         CallShape([call[h] EXCEPT !.pc = pc])
  PROVE  /\ call' \in [Handlers -> CallRecord]
         /\ \A k \in Handlers : CallShape(call'[k])
<1>1. call \in [Handlers -> CallRecord]
  BY DEF ServerTyped, ServerTypeOK, CallRecord
<1>2. [call[h] EXCEPT !.pc = pc] \in CallRecord
  BY <1>1 DEF CallRecord
<1>3. call' = [call EXCEPT ![h] = [call[h] EXCEPT !.pc = pc]]
  BY DEF Goto
<1> QED BY <1>2, <1>3, CallStep

\* Handlers go on, and the server keeps its types.
LEMMA ServeTyped ==
  ASSUME ServerTyped, NEW h \in Handlers, Serve(h)
  PROVE  ServerTyped'
<1> USE BoundAssumption
<1>1. call \in [Handlers -> CallRecord] /\ CallShape(call[h]) /\ call[h] \in CallRecord
  BY DEF ServerTyped, ServerTypeOK, CallRecord
<1>2. ASSUME NEW pc, Goto(h, pc),
             pc \in {"create", "link", "store", "list", "delete", "revisions", "render", "attach"} \cup Answers,
             CallShape([call[h] EXCEPT !.pc = pc])
      PROVE  /\ call' \in [Handlers -> CallRecord]
             /\ \A k \in Handlers : CallShape(call'[k])
  BY <1>2, GotoStep
<1> DEFINE CallsTyped == /\ call' \in [Handlers -> CallRecord]
                         /\ \A k \in Handlers : CallShape(call'[k])
<1>3. CASE FindDuplicates(h)
  <2>1. CallsTyped
    BY <1>1, <1>2, <1>3 DEF FindDuplicates, At, Answer, Answers, CallShape, CallRecord
  <2> QED BY <1>3, <2>1 DEF FindDuplicates, ServerTyped, ServerTypeOK, CallRecord, documents, guards, past
<1>4. CASE Create(h)
  <2>1. CallsTyped
    BY <1>1, <1>2, <1>4 DEF Create, At, Answer, Answers, CallShape, CallRecord
  <2>2. property' \in [Properties -> {"none", "SAVED", "ARCHIVED"}]
    BY <1>4 DEF Create, ServerTyped, ServerTypeOK
  <2> QED BY <1>4, <2>1, <2>2 DEF Create, ServerTyped, ServerTypeOK, CallRecord, guards, past
<1>5. CASE CheckBaseline(h)
  <2>1. CallsTyped
    BY <1>1, <1>2, <1>5 DEF CheckBaseline, At, Answer, Answers, CallShape, CallRecord
  <2> QED BY <1>5, <2>1 DEF CheckBaseline, ServerTyped, ServerTypeOK, CallRecord, documents, guards, past
<1>6. CASE LinkRevision(h)
  <2>1. CallsTyped
    BY <1>1, <1>2, <1>6 DEF LinkRevision, At, Answer, Answers, CallShape, CallRecord
  <2> QED BY <1>6, <2>1 DEF LinkRevision, ServerTyped, ServerTypeOK, CallRecord, documents, guards, past
<1>7. CASE StoreRevision(h)
  <2>1. CallsTyped
    BY <1>1, <1>2, <1>7 DEF StoreRevision, At, Answer, Answers, CallShape, CallRecord
  <2>2. NewRevision(h) \in Revision
    BY <1>1, <1>7 DEF StoreRevision, At, CallShape, CallRecord, NewRevision, Revision
  <2> QED BY <1>7, <2>1, <2>2 DEF StoreRevision, ServerTyped, ServerTypeOK, CallRecord, guards, past
<1>8. CASE CheckReports(h)
  <2>1. CallsTyped
    BY <1>1, <1>2, <1>8 DEF CheckReports, At, Answer, Answers, CallShape, CallRecord
  <2> QED BY <1>8, <2>1 DEF CheckReports, ServerTyped, ServerTypeOK, CallRecord, documents, guards, past
<1>9. CASE ListRevisions(h)
  <2>1. CASE Of(call[h].scenario) = {}
    <3>1. CallsTyped
      BY <1>1, <1>2, <1>9, <2>1 DEF ListRevisions, At, Answer, Answers, CallShape, CallRecord
    <3> QED BY <1>9, <3>1 DEF ListRevisions, ServerTyped, ServerTypeOK, CallRecord, documents, guards, past
  <2>2. CASE Of(call[h].scenario) # {}
    <3> DEFINE c == [call[h] EXCEPT !.pc = "delete",
                                    !.listed = {r.revision : r \in Of(call[h].scenario)}]
    <3>1. {r.revision : r \in Of(call[h].scenario)} \subseteq 1..MaxRevision
      BY DEF Of, ServerTyped, ServerTypeOK, Revision
    <3>2. c \in CallRecord /\ CallShape(c)
      BY <1>1, <1>9, <3>1 DEF ListRevisions, At, CallShape, CallRecord
    <3>3. call' = [call EXCEPT ![h] = c]
      BY <1>9, <2>2 DEF ListRevisions
    <3>4. CallsTyped
      BY <3>2, <3>3, CallStep
    <3> QED BY <1>9, <3>4 DEF ListRevisions, ServerTyped, ServerTypeOK, CallRecord, documents, guards, past
  <2> QED BY <2>1, <2>2
<1>10. CASE DeleteRevisions(h)
  <2>1. call[h].scenario \in Scenarios
    BY <1>1, <1>10 DEF DeleteRevisions, At, CallShape
  <2>2. ASSUME NEW k \in Handlers
        PROVE  call'[k] \in CallRecord /\ CallShape(call'[k])
    <3>1. CASE k = h
      BY <1>1, <1>10, <3>1 DEF DeleteRevisions, At, CallShape, CallRecord, Answers
    <3>2. CASE k # h
      <4>1. call[k] \in CallRecord /\ CallShape(call[k])
        BY DEF ServerTyped, ServerTypeOK, CallRecord
      <4>2. PICK b \in BOOLEAN : call'[k] = [call[k] EXCEPT !.raced = b]
        BY <1>10, <3>2, <4>1 DEF DeleteRevisions, CallRecord
      <4> QED BY <4>1, <4>2 DEF CallShape, CallRecord
    <3> QED BY <3>1, <3>2
  <2>3. call' = [k \in Handlers |-> call'[k]]
    BY <1>10 DEF DeleteRevisions
  <2>4. CallsTyped
    BY <2>2, <2>3
  <2> QED BY <1>10, <2>1, <2>4 DEF DeleteRevisions, ServerTyped, ServerTypeOK, CallRecord, guards
<1>11. CASE CheckBusy(h)
  <2>1. CallsTyped
    BY <1>1, <1>2, <1>11 DEF CheckBusy, At, Answer, Answers, CallShape, CallRecord
  <2> QED BY <1>11, <2>1 DEF CheckBusy, ServerTyped, ServerTypeOK, CallRecord, documents, guards, past
<1>12. CASE ReadRevision(h)
  <2> DEFINE found == {r \in Stored(call[h].scenario, call[h].revision) : r.content \in Complete}
  <2>1. CASE ~IsSaved(call[h].property) \/ found = {}
    <3>1. CallsTyped
      BY <1>1, <1>2, <1>12, <2>1 DEF ReadRevision, At, Answer, Answers, CallShape, CallRecord
    <3> QED BY <1>12, <2>1, <3>1 DEF ReadRevision, ServerTyped, ServerTypeOK, CallRecord, documents, guards, past
  <2>2. CASE ~(~IsSaved(call[h].property) \/ found = {})
    <3>1. PICK r \in found :
            /\ call' = [call EXCEPT ![h].pc = IF call[h].op = "pdf" THEN "render" ELSE "html",
                                    ![h].content = r.content]
            /\ IF call[h].op = "pdf"
               THEN pdfBusy' = TRUE /\ rendering' = rendering \cup {h}
               ELSE UNCHANGED guards
      BY <1>12, <2>2 DEF ReadRevision
    <3> DEFINE c == [call[h] EXCEPT !.pc = IF call[h].op = "pdf" THEN "render" ELSE "html",
                                    !.content = r.content]
    <3>2. r.content \in Contents
      BY <3>1, CompleteAssumption
    <3>3. c \in CallRecord /\ CallShape(c)
      <4>1. call[h] \in CallRecord /\ CallShape(call[h]) /\ call[h].op \in {"html", "pdf"}
        BY <1>1, <1>12 DEF ReadRevision, At
      <4> QED BY <3>2, <4>1, RevisionRead
    <3>4. call' = [call EXCEPT ![h] = c]
      BY <3>1
    <3>5. CallsTyped
      BY <3>3, <3>4, CallStep
    <3>6. pdfBusy' \in BOOLEAN /\ rendering' \subseteq Handlers
      BY <3>1 DEF ServerTyped, ServerTypeOK, guards
    <3> QED BY <1>12, <3>5, <3>6 DEF ReadRevision, ServerTyped, ServerTypeOK, CallRecord, documents, past
  <2> QED BY <2>1, <2>2
<1>13. CASE Render(h)
  <2>1. CallsTyped
    BY <1>1, <1>2, <1>13 DEF Render, At, Answer, Answers, CallShape, CallRecord
  <2> QED BY <1>13, <2>1 DEF Render, ReleaseGuards, ServerTyped, ServerTypeOK, CallRecord, documents, guards, past
<1>14. CASE AttachReport(h)
  <2>1. CallsTyped
    BY <1>1, <1>2, <1>14 DEF AttachReport, At, Answer, Answers, CallShape, CallRecord
  <2>2. reports' \subseteq Report
    <3>1. [scenario |-> call[h].scenario, revision |-> call[h].revision, kind |-> call[h].kind,
           raced |-> call[h].raced \/ BeingRemoved(call[h].scenario)] \in Report
      BY <1>1, <1>14 DEF AttachReport, At, CallShape, CallRecord, Report, BeingRemoved
    <3> QED BY <1>14, <3>1 DEF AttachReport, ServerTyped, ServerTypeOK
  <2> QED BY <1>14, <2>1, <2>2 DEF AttachReport, ReleaseGuards, ServerTyped, ServerTypeOK, CallRecord, past
<1> QED BY <1>3, <1>4, <1>5, <1>6, <1>7, <1>8, <1>9, <1>10, <1>11, <1>12, <1>13, <1>14 DEF Serve

\* A step that changes nothing of the server but the requests.
LEMMA OnlyCallsTyped ==
  ASSUME ServerTyped, Server, call' \in [Handlers -> CallRecord],
         \A k \in Handlers : CallShape(call'[k])
  PROVE  ServerTyped'
  BY DEF Server, ServerTyped, ServerTypeOK, CallRecord, documents, guards, past

\* A request that changes to a well-formed one keeps the types of the server.
LEMMA CallStepTyped ==
  ASSUME ServerTyped, Server, NEW h \in Handlers, NEW c \in CallRecord, CallShape(c),
         call' = [call EXCEPT ![h] = c]
  PROVE  ServerTyped'
  BY CallStep, OnlyCallsTyped

\* So does an answer that is taken.
LEMMA FreeTyped ==
  ASSUME ServerTyped, Server, NEW h \in Handlers, Free(h)
  PROVE  ServerTyped'
  BY NoCallFine, CallStepTyped DEF Free

\* A handler that throws keeps the types of the server.
LEMMA ThrowTyped ==
  ASSUME ServerTyped, NEW h \in Handlers, Throw(h)
  PROVE  ServerTyped'
<1>1. call \in [Handlers -> CallRecord] /\ CallShape(call[h]) /\ call[h] \in CallRecord
  BY DEF ServerTyped, ServerTypeOK, CallRecord
<1>2. CallShape([call[h] EXCEPT !.pc = "error"])
  BY <1>1 DEF CallShape, CallRecord
<1>3. /\ call' \in [Handlers -> CallRecord]
      /\ \A k \in Handlers : CallShape(call'[k])
  BY <1>2, GotoStep DEF Throw, Answer, Answers
<1> QED BY <1>3 DEF Throw, ReleaseGuards, ServerTyped, ServerTypeOK, CallRecord, documents, guards, past

\* Archiving and restoring keep the types of the server.
LEMMA ManageTyped ==
  ASSUME ServerTyped, Manage
  PROVE  ServerTyped'
<1>1. PICK p \in Properties : Archive(p) \/ Restore(p)
  BY DEF Manage
<1>2. property' \in [Properties -> {"none", "SAVED", "ARCHIVED"}] /\ archived' \subseteq Properties
  BY <1>1 DEF Archive, Restore, ServerTyped, ServerTypeOK, past
<1> QED BY <1>1, <1>2 DEF Archive, Restore, ServerTyped, ServerTypeOK, guards, past

\* A new request is well formed.
LEMMA RequestFine ==
  ASSUME NEW s \in Scenarios,
         NEW op \in {"promote", "save", "remove", "html", "pdf"},
         NEW pc \in {"duplicates", "reports", "revisions", "guard"},
         NEW n \in 0..MaxRevision, NEW c \in Contents \cup {None},
         NEW b \in Contents \cup {None}, NEW k \in Kinds \cup {None},
         op = "save" => c \in Contents /\ n < MaxRevision,
         op \in {"html", "pdf"} => k \in Kinds /\ n > 0
  PROVE  Request(op, pc, s, n, c, b, k) \in CallRecord /\ CallShape(Request(op, pc, s, n, c, b, k))
<1>1. Home[s] \in Properties
  BY HomeAssumption
<1> QED BY <1>1, BoundAssumption DEF Request, CallRecord, CallShape, Answers

\* The request to save a draft is well formed.
LEMMA SendSaveTyped ==
  ASSUME ServerTyped, Server, NEW t \in Tabs, NEW h \in Handlers, NEW s \in Scenarios,
         NEW d \in Draft, NEW r, NEW lock, d.revision < MaxRevision,
         SendSave(t, h, s, d, r, lock)
  PROVE  ServerTyped'
<1>1. d.revision \in 0..MaxRevision /\ d.content \in Contents /\ d.base \in Contents \cup {None}
  BY DEF Draft
<1> DEFINE c == Request("save", "revisions", s, d.revision, d.content, d.base, None)
<1>2. c \in CallRecord /\ CallShape(c)
  BY <1>1, RequestFine
<1>3. call' = [call EXCEPT ![h] = c]
  BY DEF SendSave
<1> QED BY <1>2, <1>3, CallStepTyped

\* Saving as the next revision or as a scenario of its own keeps the types.
LEMMA ChooseTargetTyped ==
  ASSUME ServerTyped, Server, NEW t \in Tabs, NEW h \in Handlers, NEW s \in Scenarios,
         NEW d \in Drafts, NEW lock, d # NoDraft, ChooseTarget(t, h, s, d, lock)
  PROVE  ServerTyped'
<1>1. d \in Draft
  BY DEF Drafts
<1>2. [d EXCEPT !.revision = 0, !.base = None] \in Draft
  <2>1. 0 \in 0..MaxRevision /\ None \in Contents \cup {None}
    BY BoundAssumption
  <2>2. d = [revision |-> d.revision, content |-> d.content, base |-> d.base, dirty |-> d.dirty]
        /\ d.content \in Contents /\ d.dirty \in BOOLEAN
    BY <1>1 DEF Draft
  <2> QED BY <2>1, <2>2 DEF Draft
<1>3. [d EXCEPT !.revision = 0, !.base = None].revision < MaxRevision
  BY <1>1, BoundAssumption DEF Draft
<1> QED BY <1>1, <1>2, <1>3, SendSaveTyped DEF ChooseTarget

\* The scenario on the screen has a draft.
LEMMA CurrentTyped ==
  ASSUME TabTyped, NEW t \in Tabs, Active(t)
  PROVE  active[t] \in Scenarios /\ Current(t) \in Drafts \ {NoDraft}
  BY DEF TabTyped, Active, Open, Current

\* What users, tabs and answers do to the requests.
LEMMA SaveServerTyped ==
  ASSUME Typed, NEW t \in Tabs, NEW h \in Handlers, NEW lock \in BOOLEAN, Save(t, h, lock)
  PROVE  ServerTyped'
<1>1. active[t] \in Scenarios /\ Current(t) \in Drafts \ {NoDraft}
  BY CurrentTyped DEF Save, Typed
<1>2. CASE Home[active[t]] \in known[t]
  BY <1>1, <1>2, ChooseTargetTyped DEF Save, Typed
<1>3. CASE Home[active[t]] \notin known[t]
  <2> DEFINE c == Request("promote", "duplicates", active[t], 0, None, None, None)
  <2>1. c \in CallRecord /\ CallShape(c)
    BY <1>1, RequestFine, BoundAssumption
  <2>2. call' = [call EXCEPT ![h] = c] /\ Server
    BY <1>3 DEF Save
  <2> QED BY <2>1, <2>2, CallStepTyped DEF Typed
<1> QED BY <1>2, <1>3

\* A clean draft is of a saved revision, so the request for its report is well formed.
LEMMA AskReportServerTyped ==
  ASSUME Typed, NEW t \in Tabs, NEW h \in Handlers, NEW op \in {"html", "pdf"}, NEW k \in Kinds,
         AskReport(t, h, op, k)
  PROVE  ServerTyped'
<1>1. active[t] \in Scenarios /\ Current(t) \in Drafts \ {NoDraft} /\ ~Current(t).dirty
  BY CurrentTyped DEF AskReport, Typed
<1>2. Current(t).revision \in 0..MaxRevision /\ Current(t).revision > 0
  BY <1>1 DEF Drafts, Draft
<1> DEFINE pc == IF op = "pdf" THEN "guard" ELSE "revisions"
           c == Request(op, pc, active[t], Current(t).revision, None, None, k)
<1>3. pc \in {"duplicates", "reports", "revisions", "guard"}
  OBVIOUS
<1>4. c \in CallRecord /\ CallShape(c)
  <2> HIDE DEF pc
  <2> QED BY <1>1, <1>2, <1>3, RequestFine
<1>5. call' = [call EXCEPT ![h] = c] /\ Server
  BY DEF AskReport
<1> HIDE DEF c
<1> QED BY <1>4, <1>5, CallStepTyped DEF Typed

\* The request to remove a scenario is well formed.
LEMMA RemoveServerTyped ==
  ASSUME ServerTyped, NEW h \in Handlers, NEW s \in Scenarios, Remove(h, s)
  PROVE  ServerTyped'
<1> DEFINE c == Request("remove", "reports", s, 0, None, None, None)
<1>1. c \in CallRecord /\ CallShape(c)
  BY RequestFine, BoundAssumption
<1>2. call' = [call EXCEPT ![h] = c] /\ Server
  BY DEF Remove, Receive, Server
<1> QED BY <1>1, <1>2, CallStepTyped

\* A saved request carries its revision.
LEMMA SavedCall ==
  ASSUME Typed, NEW t \in Tabs, Gets(t, "save", {"saved"})
  PROVE  /\ wait[t].handler \in Handlers
         /\ NewRevision(wait[t].handler) \in Revision
<1>1. wait[t].handler \in Handlers
  BY DEF Gets, Typed, TabTyped, WaitTyped
<1>2. /\ call[wait[t].handler] \in CallRecord /\ CallShape(call[wait[t].handler])
      /\ call[wait[t].handler].pc = "saved"
  BY <1>1 DEF Gets, Typed, ServerTyped, ServerTypeOK, CallRecord
<1> QED BY <1>1, <1>2, BoundAssumption DEF NewRevision, Revision, CallShape, CallRecord

\* The request for the report of the revision just saved is well formed.
LEMMA SavedServerTyped ==
  ASSUME Typed, NEW t \in Tabs, NEW k \in Kinds, Saved(t, k)
  PROVE  ServerTyped'
<1>1. PICK h \in Handlers : h = wait[t].handler /\ NewRevision(h) \in Revision
  BY SavedCall DEF Saved
<1>2. PICK r \in Revision : r = NewRevision(h)
  BY <1>1
<1> DEFINE c == Request("html", "revisions", r.scenario, r.revision, None, None, k)
<1>3. r.scenario \in Scenarios /\ r.revision \in 0..MaxRevision /\ r.revision > 0
  BY BoundAssumption DEF Revision
<1>4. c \in CallRecord /\ CallShape(c)
  BY <1>3, RequestFine
<1>5. Server /\ (call' = [call EXCEPT ![h] = c] \/ Free(h))
  BY <1>1, <1>2 DEF Saved
<1> HIDE DEF c
<1> QED BY <1>4, <1>5, CallStepTyped, FreeTyped DEF Typed

\* No answer a tab takes spoils the types of the server.
LEMMA RespondServerTyped ==
  ASSUME Typed, NEW t \in Tabs, Respond(t)
  PROVE  ServerTyped'
<1>1. CASE Promoted(t)
  <2>1. wait[t].handler \in Handlers /\ wait[t].scenario \in Scenarios
        /\ wait[t].draft \in Drafts \ {NoDraft}
    BY <1>1 DEF Promoted, Gets, Typed, TabTyped, WaitTyped
  <2> QED BY <1>1, <2>1, ChooseTargetTyped DEF Promoted, Typed
<1>2. CASE Previewed(t)
  BY <1>2, FreeTyped DEF Previewed, Gets, Typed, TabTyped, WaitTyped
<1>3. CASE GotPdf(t)
  BY <1>3, FreeTyped DEF GotPdf, Gets, Typed, TabTyped, WaitTyped
<1>4. CASE Refused(t)
  BY <1>4, FreeTyped DEF Refused, Busy, Typed, TabTyped, WaitTyped
<1>5. CASE \E k \in Kinds : Saved(t, k)
  BY <1>5, SavedServerTyped
<1> QED BY <1>1, <1>2, <1>3, <1>4, <1>5 DEF Respond

-----------------------------------------------------------------------------
(* The state of the tabs.                                                  *)

\* A revision becomes a draft without changes.
LEMMA CleanTyped ==
  ASSUME NEW r \in Revision
  PROVE  Clean(r) \in Drafts \ {NoDraft}
<1>1. r.revision \in 0..MaxRevision /\ r.revision > 0 /\ r.content \in Contents
  BY BoundAssumption DEF Revision
<1>2. Clean(r) \in Draft /\ Clean(r).revision > 0
  BY <1>1 DEF Clean, Draft
<1> QED BY <1>2 DEF Drafts, NoDraft

\* The latest stored revision of a listed scenario becomes a draft.
LEMMA LatestTyped ==
  ASSUME NEW s \in Scenarios, saved \subseteq Revision, Latest(s) # {}
  PROVE  Clean(CHOOSE r \in Latest(s) : TRUE) \in Drafts \ {NoDraft}
<1>1. (CHOOSE r \in Latest(s) : TRUE) \in Revision
  BY DEF Latest, Of
<1> QED BY <1>1, CleanTyped

\* What latestSaved() returns is a draft.
LEMMA LatestSavedTyped ==
  ASSUME NEW t \in Tabs, NEW s \in Scenarios, history[t] \subseteq Revision
  PROVE  LatestSaved(t, s) \in Drafts
<1> DEFINE mine == {r \in history[t] : r.scenario = s}
           last == {r \in mine : \A q \in mine : q.revision <= r.revision}
<1>1. CASE last = {}
  BY <1>1 DEF LatestSaved, Drafts
<1>2. CASE last # {}
  <2>1. (CHOOSE r \in last : TRUE) \in Revision
    BY <1>2
  <2> QED BY <1>2, <2>1, CleanTyped DEF LatestSaved
<1> QED BY <1>1, <1>2

\* The drafts on the screen and in localStorage.
DraftsTyped ==
  /\ draft \in [Tabs -> [Scenarios -> Drafts]]
  /\ active \in [Tabs -> Scenarios \cup {None}]
  /\ \A t \in Tabs : Active(t) => Open(t, active[t])
  /\ local \in [draft : [Scenarios -> Drafts], active : Scenarios \cup {None}]
  /\ local.active # None => local.draft[local.active] # NoDraft

\* Rendering well-formed drafts with an open one active.
LEMMA ShowTyped ==
  ASSUME DraftsTyped, NEW t \in Tabs, NEW ds \in [Scenarios -> Drafts], NEW s \in Scenarios,
         ds[s] # NoDraft, NEW clear, Show(t, ds, s, clear)
  PROVE  DraftsTyped'
<1>1. /\ draft' = [draft EXCEPT ![t] = ds] /\ active' = [active EXCEPT ![t] = s]
      /\ local' = [draft |-> ds, active |-> s]
  BY DEF Show
<1>2. draft' \in [Tabs -> [Scenarios -> Drafts]] /\ active' \in [Tabs -> Scenarios \cup {None}]
  BY <1>1 DEF DraftsTyped
<1>3. \A u \in Tabs : Active(u)' => Open(u, active[u])'
  BY <1>1 DEF DraftsTyped, Active, Open
<1>4. local' \in [draft : [Scenarios -> Drafts], active : Scenarios \cup {None}]
      /\ (local'.active # None => local'.draft[local'.active] # NoDraft)
  BY <1>1
<1> QED BY <1>2, <1>3, <1>4 DEF DraftsTyped

\* A step that leaves the drafts alone.
LEMMA PageTyped ==
  ASSUME DraftsTyped, UNCHANGED <<draft, active, local>>
  PROVE  DraftsTyped'
  BY DEF DraftsTyped, Active, Open

\* update() keeps the drafts well formed.
LEMMA EditTyped ==
  ASSUME DraftsTyped, NEW t \in Tabs, NEW c \in Contents, Edit(t, c)
  PROVE  DraftsTyped'
<1> DEFINE a == active[t]
           e == [draft[t][a] EXCEPT !.content = c, !.dirty = TRUE]
           ds == [draft[t] EXCEPT ![a].content = c, ![a].dirty = TRUE]
<1>1. a \in Scenarios /\ draft[t] \in [Scenarios -> Drafts] /\ draft[t][a] \in Drafts \ {NoDraft}
  BY DEF Edit, DraftsTyped, Active, Open
<1>2. draft[t][a] \in Draft
  BY <1>1 DEF Drafts
<1>3. e \in Draft /\ e.dirty
  BY <1>2 DEF Draft
<1>4. e \in Drafts /\ e # NoDraft
  BY <1>3 DEF Drafts, NoDraft
<1>5. ds = [draft[t] EXCEPT ![a] = e]
  BY <1>1, <1>2 DEF Draft
<1>6. ds \in [Scenarios -> Drafts] /\ ds[a] # NoDraft
  <2> HIDE DEF e, ds, a
  <2> QED BY <1>1, <1>4, <1>5
<1>7. Show(t, ds, a, TRUE)
  BY DEF Edit
<1> HIDE DEF ds, a
<1> QED BY <1>1, <1>6, <1>7, ShowTyped

\* newScenario() keeps the drafts well formed.
LEMMA NewScenarioTyped ==
  ASSUME DraftsTyped, NEW t \in Tabs, NEW s \in Scenarios, NEW c \in Contents, NewScenario(t, s, c)
  PROVE  DraftsTyped'
<1> DEFINE e == Unsaved(c)
           ds == [draft[t] EXCEPT ![s] = e]
<1>1. e = [revision |-> 0, content |-> c, base |-> None, dirty |-> TRUE]
  BY DEF Unsaved
<1>2. e \in Draft /\ e.dirty
  BY <1>1, BoundAssumption DEF Draft
<1>3. e \in Drafts /\ e # NoDraft
  BY <1>1, <1>2 DEF Drafts, NoDraft
<1>4. ds \in [Scenarios -> Drafts] /\ ds[s] # NoDraft
  <2> HIDE DEF e
  <2> QED BY <1>3 DEF DraftsTyped
<1>5. Show(t, ds, s, TRUE)
  BY DEF NewScenario
<1> HIDE DEF ds
<1> QED BY <1>4, <1>5, ShowTyped

\* chooseScenario() keeps the drafts well formed.
LEMMA ChooseTyped ==
  ASSUME DraftsTyped, NEW t \in Tabs, NEW s \in Scenarios, Choose(t, s)
  PROVE  DraftsTyped'
<1>1. draft[t] \in [Scenarios -> Drafts] /\ draft[t][s] # NoDraft /\ Show(t, draft[t], s, TRUE)
  BY DEF Choose, Open, DraftsTyped
<1> QED BY <1>1, ShowTyped

\* Hydration yields drafts, and the scenario of localStorage is among them.
LEMMA HydratedTyped ==
  ASSUME DraftsTyped, saved \subseteq Revision
  PROVE  /\ Hydrated \in [Scenarios -> Drafts]
         /\ local.active # None => Hydrated[local.active] # NoDraft
<1>1. \A s \in Scenarios : local.draft[s] \in Drafts
  BY DEF DraftsTyped
<1>2. \A s \in Scenarios : Latest(s) # {} => Clean(CHOOSE r \in Latest(s) : TRUE) \in Drafts \ {NoDraft}
  BY LatestTyped
<1>3. \A s \in Scenarios :
        Hydrated[s] = IF local.draft[s].dirty \/ Latest(s) = {} THEN local.draft[s]
                      ELSE Clean(CHOOSE r \in Latest(s) : TRUE)
  BY DEF Hydrated
<1>4. Hydrated \in [Scenarios -> Drafts]
  <2>1. \A s \in Scenarios : Hydrated[s] \in Drafts
    BY <1>1, <1>2, <1>3
  <2>2. Hydrated = [s \in Scenarios |-> Hydrated[s]]
    BY DEF Hydrated
  <2> QED BY <2>1, <2>2
<1>5. local.active # None => Hydrated[local.active] # NoDraft
  BY <1>2, <1>3 DEF DraftsTyped
<1> QED BY <1>4, <1>5

\* Reloading a tab keeps the drafts well formed.
LEMMA ReloadTyped ==
  ASSUME DraftsTyped, saved \subseteq Revision, NEW t \in Tabs, Reload(t)
  PROVE  DraftsTyped'
<1>1. /\ draft' = [draft EXCEPT ![t] = Hydrated] /\ active' = [active EXCEPT ![t] = local.active]
      /\ local' = [local EXCEPT !.draft = Hydrated]
  BY DEF Reload
<1>2. /\ Hydrated \in [Scenarios -> Drafts]
      /\ local.active # None => Hydrated[local.active] # NoDraft
  BY HydratedTyped
<1> HIDE DEF Hydrated
<1>3. draft' \in [Tabs -> [Scenarios -> Drafts]] /\ active' \in [Tabs -> Scenarios \cup {None}]
  BY <1>1, <1>2 DEF DraftsTyped
<1>4. \A u \in Tabs : Active(u)' => Open(u, active[u])'
  BY <1>1, <1>2 DEF DraftsTyped, Active, Open
<1>5. local' = [draft |-> Hydrated, active |-> local.active]
  BY <1>1 DEF DraftsTyped
<1>6. local' \in [draft : [Scenarios -> Drafts], active : Scenarios \cup {None}]
      /\ (local'.active # None => local'.draft[local'.active] # NoDraft)
  BY <1>2, <1>5 DEF DraftsTyped
<1> QED BY <1>3, <1>4, <1>6 DEF DraftsTyped

\* Taking the answer to a save keeps the drafts well formed.
LEMMA SavedTabTyped ==
  ASSUME Typed, DraftsTyped, NEW t \in Tabs, NEW k \in Kinds, Saved(t, k)
  PROVE  DraftsTyped'
<1>1. PICK r \in Revision : r = NewRevision(wait[t].handler)
  BY SavedCall DEF Saved
<1>2. r.scenario \in Scenarios /\ Clean(r) \in Drafts \ {NoDraft}
  BY CleanTyped DEF Revision
<1>3. draft[t] \in [Scenarios -> Drafts] /\ history[t] \subseteq Revision
  BY DEF DraftsTyped, Typed, TabTyped
<1> DEFINE back == wait[t].replaces
           rest == IF back = None THEN draft[t] ELSE [draft[t] EXCEPT ![back] = LatestSaved(t, back)]
<1>4. rest \in [Scenarios -> Drafts]
  <2>1. \A s \in Scenarios : LatestSaved(t, s) \in Drafts
    BY <1>3, LatestSavedTyped
  <2>2. CASE back \in Scenarios
    BY <1>3, <2>1, <2>2
  <2>3. CASE back \notin Scenarios
    BY <1>3, <2>3
  <2> QED BY <2>2, <2>3
<1>5. AfterSave(t, r) = [rest EXCEPT ![r.scenario] = Clean(r)]
  BY DEF AfterSave
<1> HIDE DEF rest
<1>6. AfterSave(t, r) \in [Scenarios -> Drafts] /\ AfterSave(t, r)[r.scenario] # NoDraft
  BY <1>2, <1>4, <1>5
<1>7. Show(t, AfterSave(t, r), r.scenario, FALSE)
  BY <1>1 DEF Saved
<1> QED BY <1>2, <1>6, <1>7, ShowTyped

\* What a tab knows and what it waits for.
RestTyped ==
  /\ known \in [Tabs -> SUBSET Properties]
  /\ history \in [Tabs -> SUBSET Revision]
  /\ wait = [t \in Tabs |-> wait[t]]
  /\ \A t \in Tabs : WaitTyped(wait[t])
  /\ acts \in 0..MaxActs

\* The types of the tabs, in two parts.
LEMMA TabParts == TabTyped <=> DraftsTyped /\ RestTyped
  BY DEF TabTyped, DraftsTyped, RestTyped

\* A tab that waits for nothing.
LEMMA IdleTyped == WaitTyped(Idle)
  BY DEF Idle, WaitTyped

\* One tab begins to wait for something well formed.
LEMMA WaitsTyped ==
  ASSUME RestTyped, NEW t \in Tabs, NEW w, WaitTyped(w), Waits(t, w)
  PROVE  wait' = [u \in Tabs |-> wait'[u]] /\ \A u \in Tabs : WaitTyped(wait'[u])
  BY DEF RestTyped, Waits

\* One tab stops waiting.
LEMMA EndWaitTyped ==
  ASSUME RestTyped, NEW t \in Tabs, EndWait(t)
  PROVE  wait' = [u \in Tabs |-> wait'[u]] /\ \A u \in Tabs : WaitTyped(wait'[u])
  BY IdleTyped, WaitsTyped DEF EndWait

\* Counting an act keeps the bound.
LEMMA ActTyped == ASSUME RestTyped, Act PROVE acts' \in 0..MaxActs
  BY ActsAssumption DEF RestTyped, Act

\* A tab that saves waits for a handler.
LEMMA ChooseTargetWaits ==
  ASSUME RestTyped, NEW t \in Tabs, NEW h \in Handlers, NEW s, NEW d, NEW lock,
         ChooseTarget(t, h, s, d, lock)
  PROVE  wait' = [u \in Tabs |-> wait'[u]] /\ \A u \in Tabs : WaitTyped(wait'[u])
<1>1. ASSUME NEW x, NEW e, NEW r, SendSave(t, h, x, e, r, lock)
      PROVE  wait' = [u \in Tabs |-> wait'[u]] /\ \A u \in Tabs : WaitTyped(wait'[u])
  <2> DEFINE w == [Idle EXCEPT !.op = "save", !.handler = h, !.scenario = x, !.draft = e,
                               !.replaces = r, !.lock = lock]
  <2>1. WaitTyped(w)
    BY DEF Idle, WaitTyped
  <2>2. Waits(t, w)
    BY <1>1 DEF SendSave
  <2> QED BY <2>1, <2>2, WaitsTyped
<1> QED BY <1>1 DEF ChooseTarget

\* save() and saveAndPreview() keep the types of the tabs.
LEMMA SaveTyped ==
  ASSUME Typed, NEW t \in Tabs, NEW h \in Handlers, NEW lock \in BOOLEAN, Save(t, h, lock)
  PROVE  TabTyped'
<1>1. RestTyped /\ DraftsTyped
  BY TabParts DEF Typed
<1>2. wait' = [u \in Tabs |-> wait'[u]] /\ \A u \in Tabs : WaitTyped(wait'[u])
  <2>1. CASE Home[active[t]] \in known[t]
    BY <1>1, <2>1, ChooseTargetWaits DEF Save
  <2>2. CASE Home[active[t]] \notin known[t]
    <3> DEFINE w == [Idle EXCEPT !.op = "promote", !.handler = h, !.scenario = active[t],
                                 !.draft = Current(t), !.lock = lock]
    <3>1. active[t] \in Scenarios /\ Current(t) \in Drafts \ {NoDraft}
      BY CurrentTyped DEF Save, Typed
    <3>2. WaitTyped(w)
      BY <3>1 DEF Idle, WaitTyped
    <3>3. Waits(t, w)
      BY <2>2 DEF Save
    <3> QED BY <1>1, <3>2, <3>3, WaitsTyped
  <2> QED BY <2>1, <2>2
<1>3. acts' \in 0..MaxActs
  BY <1>1, ActTyped DEF Save
<1>4. DraftsTyped'
  BY <1>1, PageTyped DEF Save, Page
<1>5. RestTyped'
  BY <1>1, <1>2, <1>3 DEF Save, RestTyped
<1> QED BY <1>4, <1>5, TabParts DEF TabTyped, DraftsTyped, RestTyped

\* previewReport() and generatePdf() keep the types of the tabs.
LEMMA AskReportTyped ==
  ASSUME Typed, NEW t \in Tabs, NEW h \in Handlers, NEW op \in {"html", "pdf"}, NEW k \in Kinds,
         AskReport(t, h, op, k)
  PROVE  TabTyped'
<1>1. RestTyped /\ DraftsTyped
  BY TabParts DEF Typed
<1>2. wait' = [u \in Tabs |-> wait'[u]] /\ \A u \in Tabs : WaitTyped(wait'[u])
  <2> DEFINE w == [Idle EXCEPT !.op = op, !.handler = h, !.kind = k, !.key = CalcKey(t), !.lock = TRUE]
  <2>1. WaitTyped(w)
    BY DEF Idle, WaitTyped
  <2>2. Waits(t, w)
    BY DEF AskReport
  <2> HIDE DEF w
  <2> QED BY <1>1, <2>1, <2>2, WaitsTyped
<1>3. acts' \in 0..MaxActs
  BY <1>1, ActTyped DEF AskReport
<1>4. DraftsTyped'
  BY <1>1, PageTyped DEF AskReport, Page
<1>5. RestTyped'
  BY <1>1, <1>2, <1>3 DEF AskReport, RestTyped
<1> QED BY <1>4, <1>5 DEF TabTyped, DraftsTyped, RestTyped

\* An edit leaves the server and what a tab waits for alone.
LEMMA EditsTyped ==
  ASSUME Typed, Edits, Act, DraftsTyped'
  PROVE  Typed'
<1>1. RestTyped
  BY TabParts DEF Typed
<1>2. acts' \in 0..MaxActs
  BY <1>1, ActTyped
<1>3. TabTyped'
  BY <1>1, <1>2 DEF Edits, TabTyped, DraftsTyped, RestTyped
<1>4. ServerTyped'
  BY DEF Edits, Typed, ServerTyped, ServerTypeOK, serverVars, documents, guards, past
<1> QED BY <1>3, <1>4 DEF Typed

\* A step that leaves the tabs alone, but for the count of acts.
LEMMA TabsTyped ==
  ASSUME TabTyped, UNCHANGED tabVars, UNCHANGED acts \/ Act
  PROVE  TabTyped'
<1>1. acts' \in 0..MaxActs
  BY ActTyped, TabParts DEF RestTyped
<1> QED BY <1>1 DEF TabTyped, tabVars, Active, Open

\* Taking an answer keeps the types of the tabs.
LEMMA RespondTyped ==
  ASSUME Typed, NEW t \in Tabs, Respond(t)
  PROVE  TabTyped'
<1>1. RestTyped /\ DraftsTyped
  BY TabParts DEF Typed
<1>2. CASE Promoted(t)
  <2>1. wait[t].handler \in Handlers /\ wait[t].scenario \in Scenarios
    BY <1>2 DEF Promoted, Gets, Typed, TabTyped, WaitTyped
  <2>2. wait' = [u \in Tabs |-> wait'[u]] /\ \A u \in Tabs : WaitTyped(wait'[u])
    BY <1>1, <1>2, <2>1, ChooseTargetWaits DEF Promoted
  <2>3. known' \in [Tabs -> SUBSET Properties]
    BY <1>1, <1>2, <2>1, HomeAssumption DEF Promoted, RestTyped
  <2>4. DraftsTyped'
    BY <1>1, <1>2, PageTyped DEF Promoted, Page
  <2> QED BY <1>1, <1>2, <2>2, <2>3, <2>4 DEF Promoted, TabTyped, DraftsTyped, RestTyped
<1>3. CASE Previewed(t)
  <2>1. DraftsTyped'
    BY <1>1, <1>3, PageTyped DEF Previewed
  <2> QED BY <1>1, <1>3, <2>1, EndWaitTyped DEF Previewed, TabTyped, DraftsTyped, RestTyped
<1>4. CASE GotPdf(t)
  <2>1. DraftsTyped'
    BY <1>1, <1>4, PageTyped DEF GotPdf, Page
  <2> QED BY <1>1, <1>4, <2>1, EndWaitTyped DEF GotPdf, TabTyped, DraftsTyped, RestTyped
<1>5. CASE Refused(t)
  <2>1. DraftsTyped'
    BY <1>1, <1>5, PageTyped DEF Refused, Page
  <2> QED BY <1>1, <1>5, <2>1, EndWaitTyped DEF Refused, TabTyped, DraftsTyped, RestTyped
<1>6. ASSUME NEW k \in Kinds, Saved(t, k) PROVE TabTyped'
  <2>1. DraftsTyped'
    BY <1>1, <1>6, SavedTabTyped
  <2>2. PICK r \in Revision : r = NewRevision(wait[t].handler)
    BY <1>6, SavedCall DEF Saved
  <2>3. history' \in [Tabs -> SUBSET Revision]
    BY <1>1, <1>6, <2>2 DEF Saved, RestTyped
  <2>4. wait' = [u \in Tabs |-> wait'[u]] /\ \A u \in Tabs : WaitTyped(wait'[u])
    <3> DEFINE w == [Idle EXCEPT !.op = "html", !.handler = wait[t].handler, !.kind = k, !.lock = TRUE]
    <3>1. WaitTyped(w)
      BY <1>6, SavedCall DEF Saved, Idle, WaitTyped
    <3>2. Waits(t, w) \/ EndWait(t)
      BY <1>6 DEF Saved
    <3> HIDE DEF w
    <3> QED BY <1>1, <3>1, <3>2, WaitsTyped, EndWaitTyped
  <2> QED BY <1>1, <1>6, <2>1, <2>3, <2>4 DEF Saved, TabTyped, DraftsTyped, RestTyped
<1> QED BY <1>2, <1>3, <1>4, <1>5, <1>6 DEF Respond

\* A checkpoint writes well-formed drafts to the local storage.
LEMMA CheckpointTyped ==
  ASSUME DraftsTyped, NEW t \in Tabs, Checkpoint(t)
  PROVE  DraftsTyped'
<1>1. UNCHANGED <<draft, active>> /\ local' = [draft |-> draft[t], active |-> active[t]]
  BY DEF Checkpoint
<1>2. draft[t] \in [Scenarios -> Drafts] /\ active[t] \in Scenarios \cup {None}
      /\ (active[t] # None => draft[t][active[t]] # NoDraft)
  BY DEF DraftsTyped, Active, Open
<1>3. local' \in [draft : [Scenarios -> Drafts], active : Scenarios \cup {None}]
      /\ (local'.active # None => local'.draft[local'.active] # NoDraft)
  BY <1>1, <1>2
<1> QED BY <1>1, <1>3 DEF DraftsTyped, Active, Open

\* A checkpoint, reloading, a lost answer and an analysis that arrives keep every
\* type.
LEMMA OtherTabStepsTyped ==
  ASSUME Typed, NEW t \in Tabs
  PROVE  /\ Checkpoint(t) => Typed'
         /\ Reload(t) => Typed'
         /\ LoseAnswer(t) => Typed'
         /\ Analyzed(t) => Typed'
<1>1. RestTyped /\ DraftsTyped /\ saved \subseteq Revision
  BY TabParts DEF Typed, ServerTyped, ServerTypeOK
<1>2. ASSUME UNCHANGED serverVars PROVE ServerTyped'
  BY <1>2 DEF Typed, ServerTyped, ServerTypeOK, serverVars, documents, guards, past
<1>3. ASSUME Reload(t) PROVE Typed'
  <2>1. DraftsTyped'
    BY <1>1, <1>3, ReloadTyped
  <2>2. RestTyped'
    BY <1>1, <1>3, IdleTyped, ActTyped DEF Reload, RestTyped
  <2> QED BY <1>2, <1>3, <2>1, <2>2 DEF Reload, Typed, TabTyped, DraftsTyped, RestTyped
<1>4. ASSUME LoseAnswer(t) PROVE Typed'
  <2>1. DraftsTyped'
    BY <1>1, <1>4, PageTyped DEF LoseAnswer
  <2>2. RestTyped'
    BY <1>1, <1>4, EndWaitTyped, ActTyped DEF LoseAnswer, RestTyped
  <2> QED BY <1>2, <1>4, <2>1, <2>2 DEF LoseAnswer, Typed, TabTyped, DraftsTyped, RestTyped
<1>5. ASSUME Analyzed(t) PROVE Typed'
  <2>1. UNCHANGED <<serverVars, draft, active, known, history, local, wait, acts>>
    BY <1>5 DEF Analyzed
  <2>2. TabTyped'
    BY <2>1 DEF Typed, TabTyped, Active, Open
  <2> QED BY <1>2, <2>1, <2>2 DEF Typed
<1>6. ASSUME Checkpoint(t) PROVE Typed'
  <2>1. DraftsTyped'
    BY <1>1, <1>6, CheckpointTyped
  <2>2. RestTyped'
    BY <1>1, <1>6, ActTyped DEF Checkpoint, RestTyped
  <2> QED BY <1>2, <1>6, <2>1, <2>2 DEF Checkpoint, Typed, TabTyped, DraftsTyped, RestTyped
<1> QED BY <1>3, <1>4, <1>5, <1>6

\* Typed is inductive.
LEMMA StepTyped == Typed /\ [Next]_vars => Typed'
<1> SUFFICES ASSUME Typed, [Next]_vars PROVE Typed'
  OBVIOUS
<1>1. DraftsTyped
  BY TabParts DEF Typed
<1>2. ASSUME NEW t \in Tabs, NEW c \in Contents, Edit(t, c) PROVE Typed'
  BY <1>1, <1>2, EditTyped, EditsTyped DEF Edit
<1>3. ASSUME NEW t \in Tabs, NEW s \in Scenarios, Choose(t, s) PROVE Typed'
  BY <1>1, <1>3, ChooseTyped, EditsTyped DEF Choose
<1>4. ASSUME NEW t \in Tabs, NEW s \in Scenarios, NEW c \in Contents, NewScenario(t, s, c) PROVE Typed'
  BY <1>1, <1>4, NewScenarioTyped, EditsTyped DEF NewScenario
<1>5. ASSUME NEW t \in Tabs, NEW h \in Handlers, NEW lock \in BOOLEAN, Save(t, h, lock) PROVE Typed'
  BY <1>5, SaveTyped, SaveServerTyped DEF Typed
<1>6. ASSUME NEW t \in Tabs, NEW h \in Handlers, NEW op \in {"html", "pdf"}, NEW k \in Kinds,
             AskReport(t, h, op, k)
      PROVE Typed'
  BY <1>6, AskReportTyped, AskReportServerTyped DEF Typed
<1>7. ASSUME NEW h \in Handlers, NEW s \in Scenarios, Remove(h, s), Act, UNCHANGED tabVars PROVE Typed'
  BY <1>7, RemoveServerTyped, TabsTyped DEF Typed
<1>8. ASSUME Manage, Act, UNCHANGED tabVars PROVE Typed'
  BY <1>8, ManageTyped, TabsTyped DEF Typed
<1>9. ASSUME NEW t \in Tabs,
             Respond(t) \/ Analyzed(t) \/ LoseAnswer(t) \/ Checkpoint(t) \/ Reload(t)
      PROVE  Typed'
  BY <1>9, RespondTyped, RespondServerTyped, OtherTabStepsTyped DEF Typed
<1>10. ASSUME NEW h \in Handlers, Unheard(h) PROVE Typed'
  BY <1>10, FreeTyped, TabsTyped DEF Unheard, Typed
<1>11. ASSUME NEW h \in Handlers, Proceed(h) PROVE Typed'
  BY <1>11, ServeTyped, TabsTyped DEF Proceed, Typed
<1>12. ASSUME NEW h \in Handlers, Throw(h), Act, UNCHANGED tabVars PROVE Typed'
  BY <1>12, ThrowTyped, TabsTyped DEF Typed
<1>13. ASSUME UNCHANGED vars PROVE Typed'
  <2>1. ServerTyped'
    BY <1>13 DEF vars, Typed, ServerTyped, ServerTypeOK, serverVars, documents, guards, past
  <2> QED BY <1>13, <2>1, TabsTyped DEF vars, Typed
<1> QED BY <1>2, <1>3, <1>4, <1>5, <1>6, <1>7, <1>8, <1>9, <1>10, <1>11, <1>12, <1>13 DEF Next, UserActs

\* Typed holds initially, whether or not a scenario was saved before.
LEMMA InitTyped == Init => Typed
<1> SUFFICES ASSUME Init PROVE Typed
  OBVIOUS
<1> DEFINE FirstOf(s, c) == IF s = None THEN {}
                            ELSE {[scenario |-> s, revision |-> 1, content |-> c, base |-> None]}
           DraftsOf(s, c) == [x \in Scenarios |-> IF x = s THEN Clean(CHOOSE r \in FirstOf(s, c) : TRUE)
                                                           ELSE NoDraft]
<1>0. PICK s \in Scenarios \cup {None} : \E c \in IF s = None THEN {None} ELSE Contents :
        /\ ServerInit({Home[r.scenario] : r \in FirstOf(s, c)}, FirstOf(s, c))
        /\ draft = [t \in Tabs |-> DraftsOf(s, c)]
        /\ active = [t \in Tabs |-> s]
        /\ known = [t \in Tabs |-> {Home[r.scenario] : r \in FirstOf(s, c)}]
        /\ history = [t \in Tabs |-> FirstOf(s, c)]
        /\ local = [draft |-> DraftsOf(s, c), active |-> s]
        /\ wait = [t \in Tabs |-> Idle]
        /\ acts = 0
  BY DEF Init
<1>1. PICK c \in Contents \cup {None} :
        /\ s # None => c \in Contents
        /\ ServerInit({Home[r.scenario] : r \in FirstOf(s, c)}, FirstOf(s, c))
        /\ draft = [t \in Tabs |-> DraftsOf(s, c)]
        /\ active = [t \in Tabs |-> s]
        /\ known = [t \in Tabs |-> {Home[r.scenario] : r \in FirstOf(s, c)}]
        /\ history = [t \in Tabs |-> FirstOf(s, c)]
        /\ local = [draft |-> DraftsOf(s, c), active |-> s]
        /\ wait = [t \in Tabs |-> Idle]
        /\ acts = 0
  <2> HIDE DEF FirstOf, DraftsOf
  <2>1. CASE s = None
    BY <1>0, <2>1
  <2>2. CASE s # None
    BY <1>0, <2>2
  <2> QED BY <2>1, <2>2
<1> DEFINE first == FirstOf(s, c)
           ds == DraftsOf(s, c)
           homes == {Home[r.scenario] : r \in first}
<1>2. first \subseteq Revision
  BY <1>1, BoundAssumption DEF Revision
<1>3. homes \subseteq Properties
  BY <1>2, HomeAssumption DEF Revision
<1>4. ds \in [Scenarios -> Drafts] /\ (s # None => ds[s] # NoDraft)
  <2>1. CASE s = None
    BY <2>1, NoneAssumption DEF Drafts
  <2>2. CASE s # None
    <3>1. (CHOOSE r \in first : TRUE) \in Revision
      BY <1>2, <2>2
    <3>2. Clean(CHOOSE r \in first : TRUE) \in Drafts \ {NoDraft}
      BY <3>1, CleanTyped
    <3> QED BY <2>2, <3>2 DEF Drafts
  <2> QED BY <2>1, <2>2
<1> HIDE DEF ds, first, FirstOf, DraftsOf
<1>5. ServerTyped
  <2>1. property \in [Properties -> {"none", "SAVED", "ARCHIVED"}] /\ saved \subseteq Revision
    BY <1>1, <1>2 DEF ServerInit, first
  <2>2. call \in [Handlers -> CallRecord] /\ \A h \in Handlers : CallShape(call[h])
    BY <1>1, NoCallFine DEF ServerInit
  <2> QED BY <1>1, <2>1, <2>2 DEF ServerInit, ServerTyped, ServerTypeOK, CallRecord
<1>6. TabTyped
  <2>1. DraftsTyped
    BY <1>1, <1>4 DEF DraftsTyped, Active, Open, ds
  <2>2. RestTyped
    BY <1>1, <1>2, <1>3, IdleTyped, ActsAssumption DEF RestTyped, first, homes
  <2> QED BY <2>1, <2>2, TabParts
<1> QED BY <1>5, <1>6 DEF Typed

\* Every reachable state is well typed: the type invariant of the runs, with what
\* the place of a handler says about its request (CallShape).
THEOREM TypeCorrect == Spec => []TypeOK
<1>1. Typed => TypeOK
  BY DEF Typed, TabTyped, ServerTyped, TypeOK, Drafts, WaitTyped
<1> QED BY <1>1, InitTyped, StepTyped, PTL DEF Spec
=============================================================================
