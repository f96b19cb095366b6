----------------------------- MODULE ScenarioStore -----------------------------
(***************************************************************************)
(* Durable properties, the immutable revisions of their scenarios and the  *)
(* reports linked to them: the investment routes of auth/netlify-auth.js   *)
(* over investment-workspace/durable-properties.js and its Firestore       *)
(* repository.                                                             *)
(*                                                                         *)
(* A handler serves one request at a time and interleaves with the others  *)
(* at every await; call[h] is its local state.  A Firestore transaction or *)
(* batch is one step.  A property stands for its normalized address, a     *)
(* scenario for its id, and a content for everything an analyst entered.   *)
(***************************************************************************)
EXTENDS Integers, FiniteSets, FiniteSetsExt

CONSTANTS
  Properties,   \* addresses that can become durable properties
  Scenarios,    \* scenario ids
  Home,         \* the property a scenario belongs to (propertyRef)
  Contents,     \* what a draft can contain
  Complete,     \* the contents that can be analyzed
  Kinds,        \* report kinds
  Handlers,     \* requests that can be served at once
  MaxRevision,  \* bound on the revisions of a scenario
  None          \* no content, no property, no scenario

ASSUME HomeAssumption     == Home \in [Scenarios -> Properties]
ASSUME CompleteAssumption == Complete \subseteq Contents
ASSUME NoneAssumption     == None \notin Contents \cup Properties \cup Scenarios \cup Kinds
ASSUME BoundAssumption    == MaxRevision \in Nat \ {0}

VARIABLES
  property,   \* lifecycleStatus of each property, "none" before promotion
  saved,      \* scenarioRevisions documents
  reports,    \* reportRevisions documents
  call,       \* what each handler is doing
  pdfBusy,    \* the report service renders a PDF
  rendering,  \* auxiliary: the handlers between setting pdfBusy and clearing it
  archived,   \* auxiliary: the properties that have been archived at some time
  removed     \* auxiliary: the scenarios of which revisions have been removed

documents  == <<property, saved, reports>>
guards     == <<pdfBusy, rendering>>
past       == <<archived, removed>>
serverVars == <<documents, call, guards, past>>

\* A revision remembers, as auxiliary information, the content of the revision
\* it was edited from (base).
Revision == [scenario : Scenarios, revision : 1..MaxRevision,
             content : Contents, base : Contents \cup {None}]

\* raced: the scenario was being removed while the report was made (auxiliary).
Report == [scenario : Scenarios, revision : 1..MaxRevision,
           kind : Kinds, raced : BOOLEAN]

Of(s) == {r \in saved : r.scenario = s}
Stored(s, n) == {r \in Of(s) : r.revision = n}
Highest(s) == Max({0} \cup {r.revision : r \in Of(s)})

\* A property doubles as an address: the keys of an archived property stay.
IsSaved(p) == property[p] = "SAVED"

\* The fields of a request that no operation has filled in.
NoCall == [op |-> "idle", pc |-> "idle", property |-> None, scenario |-> None,
           revision |-> 0, content |-> None, base |-> None, kind |-> None,
           listed |-> {}, raced |-> FALSE]

\* The properties ps have been promoted and the revisions rs saved before.
ServerInit(ps, rs) ==
  /\ property = [p \in Properties |-> IF p \in ps THEN "SAVED" ELSE "none"]
  /\ saved = rs /\ reports = {}
  /\ call = [h \in Handlers |-> NoCall]
  /\ pdfBusy = FALSE /\ rendering = {}
  /\ archived = {} /\ removed = {}

-----------------------------------------------------------------------------
(* A request arrives at an idle handler, is served step by step and waits  *)
(* with its answer until somebody takes it.                                *)

\* Operation op on scenario s begins at pc: revision n, content c edited from
\* content b, a report of kind k.
Request(op, pc, s, n, c, b, k) ==
  [op |-> op, pc |-> pc, property |-> Home[s], scenario |-> s, revision |-> n,
   content |-> c, base |-> b, kind |-> k, listed |-> {}, raced |-> FALSE]

Receive(h, request) == call[h].pc = "idle" /\ call' = [call EXCEPT ![h] = request]

At(h, ops, pc) == call[h].op \in ops /\ call[h].pc = pc
Goto(h, pc)    == call' = [call EXCEPT ![h].pc = pc]

Answers == {"saved", "promoted", "duplicate", "notFound", "conflict", "notSaved",
            "busy", "hasReports", "removed", "html", "pdf", "error"}
Answer(h, a) == Goto(h, a)
Answered(h)  == call[h].pc \in Answers

\* The answer was delivered, or nobody waits for it.
Free(h) == call' = [call EXCEPT ![h] = NoCall]

-----------------------------------------------------------------------------
(* Promotion of an address to a durable property.                          *)

\* The duplicates shown to the user before he confirms.
FindDuplicates(h) ==
  /\ At(h, {"promote"}, "duplicates")
  /\ IF property[call[h].property] # "none" THEN Answer(h, "duplicate")
                                            ELSE Goto(h, "create")
  /\ UNCHANGED <<documents, guards, past>>

\* The transaction that creates the property unless its address has a key.
Create(h) ==
  /\ At(h, {"promote"}, "create")
  /\ IF property[call[h].property] # "none"
     THEN Answer(h, "duplicate") /\ UNCHANGED property
     ELSE Answer(h, "promoted") /\ property' = [property EXCEPT ![call[h].property] = "SAVED"]
  /\ UNCHANGED <<saved, reports, guards, past>>

\* Archiving and restoring are one transaction each.
Archive(p) ==
  /\ IsSaved(p)
  /\ property' = [property EXCEPT ![p] = "ARCHIVED"]
  /\ archived' = archived \cup {p}
  /\ UNCHANGED <<saved, reports, call, guards, removed>>

Restore(p) ==
  /\ property[p] = "ARCHIVED"
  /\ property' = [property EXCEPT ![p] = "SAVED"]
  /\ UNCHANGED <<saved, reports, call, guards, past>>

-----------------------------------------------------------------------------
(* Saving a revision.                                                      *)

\* Mutant: any revision is taken for the current one.
CheckNothing(h) ==
  /\ At(h, {"save"}, "revisions")
  /\ IF IsSaved(call[h].property)
     THEN call' = [call EXCEPT ![h].pc = "link", ![h].revision = Highest(call[h].scenario)]
     ELSE Answer(h, "notFound")
  /\ UNCHANGED <<documents, guards, past>>

\* The property must not be archived, and the revision the draft was edited from
\* must be the highest one.  (Two reads; of the first one only the id, which
\* never changes, is used later.)
CheckBaseline(h) ==
  /\ At(h, {"save"}, "revisions")
  /\ IF ~IsSaved(call[h].property) THEN Answer(h, "notFound")
     ELSE IF call[h].revision # Highest(call[h].scenario) THEN Answer(h, "conflict")
     ELSE Goto(h, "link")
  /\ UNCHANGED <<documents, guards, past>>

\* linkScenarioRevision looks for the property once more; if it has been
\* archived the revision is dropped and the route answers as if it were saved.
LinkRevision(h) ==
  /\ At(h, {"save"}, "link")
  /\ IF IsSaved(call[h].property) THEN Goto(h, "store") ELSE Answer(h, "saved")
  /\ UNCHANGED <<documents, guards, past>>

NewRevision(h) ==
  [scenario |-> call[h].scenario, revision |-> call[h].revision + 1,
   content |-> call[h].content, base |-> call[h].base]

\* Mutant: the transaction overwrites a revision with the same number.
StoreOver(h) ==
  /\ At(h, {"save"}, "store")
  /\ saved' = (saved \ Stored(call[h].scenario, call[h].revision + 1)) \cup {NewRevision(h)}
  /\ Answer(h, "saved")
  /\ UNCHANGED <<property, reports, guards, past>>

\* Mutant: a revision that exists already is answered as saved.
StoreOrKeep(h) ==
  /\ At(h, {"save"}, "store")
  /\ IF Stored(call[h].scenario, call[h].revision + 1) # {}
     THEN Answer(h, "saved") /\ UNCHANGED saved
     ELSE Answer(h, "saved") /\ saved' = saved \cup {NewRevision(h)}
  /\ UNCHANGED <<property, reports, guards, past>>

\* The transaction: a document with this number and another hash is a conflict
\* (the hash covers the time of saving, so the hash of another save differs).
\* The property is read once more before the answer, and that may throw.
StoreRevision(h) ==
  /\ At(h, {"save"}, "store")
  /\ IF Stored(call[h].scenario, call[h].revision + 1) # {}
     THEN Answer(h, "conflict") /\ UNCHANGED saved
     ELSE /\ saved' = saved \cup {NewRevision(h)}
          /\ Answer(h, "saved") \/ Answer(h, "error")
  /\ UNCHANGED <<property, reports, guards, past>>

-----------------------------------------------------------------------------
(* Removing a scenario.                                                    *)

\* Mutant: the reports are not looked at.
IgnoreReports(h) ==
  /\ At(h, {"remove"}, "reports")
  /\ Goto(h, "list")
  /\ UNCHANGED <<documents, guards, past>>

\* A scenario with reports is not removed.
CheckReports(h) ==
  /\ At(h, {"remove"}, "reports")
  /\ IF property[call[h].property] = "none" THEN Answer(h, "notFound")
     ELSE IF \E d \in reports : d.scenario = call[h].scenario THEN Answer(h, "hasReports")
     ELSE Goto(h, "list")
  /\ UNCHANGED <<documents, guards, past>>

ListRevisions(h) ==
  /\ At(h, {"remove"}, "list")
  /\ IF Of(call[h].scenario) = {}
     THEN Answer(h, "notFound")
     ELSE call' = [call EXCEPT ![h].pc = "delete",
                               ![h].listed = {r.revision : r \in Of(call[h].scenario)}]
  /\ UNCHANGED <<documents, guards, past>>

\* The batch deletes the listed documents, whatever is in them by now.  A
\* report under way on the scenario is marked as racing with the removal.
DeleteRevisions(h) ==
  /\ At(h, {"remove"}, "delete")
  /\ saved' = {r \in saved : ~(r.scenario = call[h].scenario /\ r.revision \in call[h].listed)}
  /\ removed' = removed \cup {call[h].scenario}
  /\ call' = [k \in Handlers |->
                IF k = h THEN [call[h] EXCEPT !.pc = "removed"]
                ELSE [call[k] EXCEPT !.raced =
                        @ \/ (call[k].op = "pdf" /\ call[k].scenario = call[h].scenario)]]
  /\ UNCHANGED <<property, reports, guards, archived>>

-----------------------------------------------------------------------------
(* Reports.  A preview is answered with HTML; a PDF is rendered, linked to *)
(* the property and answered.  The guards are variables of the service     *)
(* instance that renders.                                                  *)

\* A PDF is refused while another one is rendered; this test and the
\* assignment in ReadRevision are separated by reads.
CheckBusy(h) ==
  /\ At(h, {"pdf"}, "guard")
  /\ IF pdfBusy THEN Answer(h, "busy") ELSE Goto(h, "revisions")
  /\ UNCHANGED <<documents, guards, past>>

\* Mutant: the report shows any revision of the scenario.
ReadAnyRevision(h) ==
  /\ At(h, {"html", "pdf"}, "revisions")
  /\ LET found == {r \in Of(call[h].scenario) : r.content \in Complete}
     IN IF ~IsSaved(call[h].property) \/ found = {}
        THEN Answer(h, "notSaved") /\ UNCHANGED guards
        ELSE \E r \in found :
               /\ call' = [call EXCEPT ![h].pc = IF call[h].op = "pdf" THEN "render" ELSE "html",
                                       ![h].content = r.content]
               /\ IF call[h].op = "pdf"
                  THEN pdfBusy' = TRUE /\ rendering' = rendering \cup {h}
                  ELSE UNCHANGED guards
  /\ UNCHANGED <<documents, past>>

\* The report shows a stored revision with an analysis, of a property that is
\* not archived.
ReadRevision(h) ==
  /\ At(h, {"html", "pdf"}, "revisions")
  /\ LET found == {r \in Stored(call[h].scenario, call[h].revision) : r.content \in Complete}
     IN IF ~IsSaved(call[h].property) \/ found = {}
        THEN Answer(h, "notSaved") /\ UNCHANGED guards
        ELSE \E r \in found :
               /\ call' = [call EXCEPT ![h].pc = IF call[h].op = "pdf" THEN "render" ELSE "html",
                                       ![h].content = r.content]
               /\ IF call[h].op = "pdf"
                  THEN pdfBusy' = TRUE /\ rendering' = rendering \cup {h}
                  ELSE UNCHANGED guards
  /\ UNCHANGED <<documents, past>>

\* The finally clause of the PDF branch.
ReleaseGuards(h) == pdfBusy' = FALSE /\ rendering' = rendering \ {h}

\* The HTML is rendered and linkReport looks for the property: of an archived
\* one the PDF is delivered without a link.
Render(h) ==
  /\ At(h, {"pdf"}, "render")
  /\ IF IsSaved(call[h].property)
     THEN Goto(h, "attach") /\ UNCHANGED guards
     ELSE Answer(h, "pdf") /\ ReleaseGuards(h)
  /\ UNCHANGED <<documents, past>>

\* A removal of scenario s has looked for reports and not yet finished.
BeingRemoved(s) == \E k \in Handlers : call[k].scenario = s /\ call[k].pc \in {"list", "delete"}

\* The transaction that links the report; it looks at the property only.
AttachReport(h) ==
  /\ At(h, {"pdf"}, "attach")
  /\ reports' = reports \cup {[scenario |-> call[h].scenario, revision |-> call[h].revision,
                               kind |-> call[h].kind,
                               raced |-> call[h].raced \/ BeingRemoved(call[h].scenario)]}
  /\ Answer(h, "pdf") /\ ReleaseGuards(h)
  /\ UNCHANGED <<property, saved, past>>

\* Mutant: the guards are released on the way to the answer only.
ThrowWithGuards(h) ==
  /\ call[h].pc \notin Answers \cup {"idle"}
  /\ Answer(h, "error")
  /\ rendering' = rendering \ {h}
  /\ UNCHANGED <<documents, pdfBusy, past>>

\* Any await may throw, validateDraft may refuse the draft, and the user may
\* decline to create the property.
Throw(h) ==
  /\ call[h].pc \notin Answers \cup {"idle"}
  /\ Answer(h, "error")
  /\ IF h \in rendering THEN ReleaseGuards(h) ELSE UNCHANGED guards
  /\ UNCHANGED <<documents, past>>

-----------------------------------------------------------------------------

\* A handler that goes on.
Serve(h) ==
  \/ FindDuplicates(h) \/ Create(h)
  \/ CheckBaseline(h) \/ LinkRevision(h) \/ StoreRevision(h)
  \/ CheckReports(h) \/ ListRevisions(h) \/ DeleteRevisions(h)
  \/ CheckBusy(h) \/ ReadRevision(h) \/ Render(h) \/ AttachReport(h)

\* Requests of the pages that do not edit: the saved work of an organization.
Remove(h, s) ==
  /\ Receive(h, Request("remove", "reports", s, 0, None, None, None))
  /\ UNCHANGED <<documents, guards, past>>
Manage == \E p \in Properties : Archive(p) \/ Restore(p)

-----------------------------------------------------------------------------
(* Properties.                                                             *)

ServerTypeOK ==
  /\ property \in [Properties -> {"none", "SAVED", "ARCHIVED"}]
  /\ saved \subseteq Revision
  /\ reports \subseteq Report
  /\ call \in [Handlers ->
       [op : {"idle", "promote", "save", "remove", "html", "pdf"},
        pc : {"idle", "duplicates", "create", "revisions", "link", "store",
              "reports", "list", "delete", "guard", "render", "attach"} \cup Answers,
        property : Properties \cup {None}, scenario : Scenarios \cup {None},
        revision : 0..MaxRevision, content : Contents \cup {None},
        base : Contents \cup {None}, kind : Kinds \cup {None},
        listed : SUBSET (1..MaxRevision), raced : BOOLEAN]]
  /\ pdfBusy \in BOOLEAN /\ rendering \subseteq Handlers
  /\ archived \subseteq Properties /\ removed \subseteq Scenarios

\* Nothing has removed the scenario or archived its property.
Undisturbed(s) == s \notin removed /\ Home[s] \notin archived

\* No update is lost: every later revision was edited from the content that is
\* stored as the revision before it, unless the scenario has been removed or its
\* property archived (a save dropped by LinkRevision counts for its tab).
SavesBuildOnSaved ==
  \A r \in saved :
    Undisturbed(r.scenario) /\ r.revision > 1 =>
      \E q \in Stored(r.scenario, r.revision - 1) : q.content = r.base

\* A save that was answered with success is stored with its content, unless the
\* property has been archived or the scenario removed.
AcknowledgedIsStored ==
  \A h \in Handlers :
    At(h, {"save"}, "saved") /\ Undisturbed(call[h].scenario) => NewRevision(h) \in saved

\* A linked report shows a stored revision with an analysis; only a removal that
\* ran while the report was made can leave a report without its revision.
ReportsBacked ==
  \A d \in reports :
    \/ \E r \in Stored(d.scenario, d.revision) : r.content \in Complete
    \/ d.raced

\* The PDF guard is set only while a PDF is being made: no exit leaves it set.
GuardReleased == pdfBusy => rendering # {}

\* A stored revision stays as it is and disappears only with its scenario, however
\* many handlers store the same revision number, and an archived property comes
\* back by being restored, never by being promoted again.  (Links of reports are
\* removed in ReportLibrary.)
HistoryImmutable ==
  [][ /\ \A r \in saved : r \in saved' \/ r.scenario \in removed'
      /\ \A p \in Properties :
           property[p] = "ARCHIVED" => property'[p] = "ARCHIVED" \/ call' = call ]_serverVars
=============================================================================
