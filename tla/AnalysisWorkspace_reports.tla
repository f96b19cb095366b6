----------------------- MODULE AnalysisWorkspace_reports -----------------------
(***************************************************************************)
(* Reports and analyses: the guards of the report service, answers that come *)
(* late, reports and the removal of their scenario, and what a tab shows.  *)
(*                                                                         *)
(* ReportsBacked needs the reports under way (ReportCall): one that has read *)
(* its revision finds it stored or is marked, and a removal that has looked *)
(* for reports leaves none of its scenario unmarked.                       *)
(***************************************************************************)
EXTENDS AnalysisWorkspace_saves, TLAPS
-----------------------------------------------------------------------------
(* What a step does to the server: a handler goes on or throws, a manager  *)
(* archives or restores, or requests begin and end.                        *)

BeginsOrEnds ==
  /\ Server
  /\ \/ call' = call
     \/ \E h \in Handlers, c \in CallRecord :
          /\ c.pc \in {"idle", "duplicates", "reports", "revisions", "guard"}
          /\ call' = [call EXCEPT ![h] = c]

\* A request that begins.
LEMMA RequestBegins ==
  ASSUME Server, NEW h \in Handlers, NEW s \in Scenarios,
         NEW op \in {"promote", "save", "remove", "html", "pdf"},
         NEW pc \in {"duplicates", "reports", "revisions", "guard"},
         NEW n \in 0..MaxRevision, NEW c \in Contents \cup {None},
         NEW b \in Contents \cup {None}, NEW k \in Kinds \cup {None},
         op = "save" => c \in Contents /\ n < MaxRevision,
         op \in {"html", "pdf"} => k \in Kinds /\ n > 0,
         call' = [call EXCEPT ![h] = Request(op, pc, s, n, c, b, k)]
  PROVE  BeginsOrEnds
<1>0. Request(op, pc, s, n, c, b, k) \in CallRecord
  <2>1. Home[s] \in Properties
    BY HomeAssumption
  <2> QED BY <2>1 DEF Request, CallRecord
<1>1. PICK r \in CallRecord : r = Request(op, pc, s, n, c, b, k)
  BY <1>0
<1>2. r.pc \in {"idle", "duplicates", "reports", "revisions", "guard"}
  BY <1>1 DEF Request
<1> QED BY <1>1, <1>2 DEF BeginsOrEnds

\* A request that ends.
LEMMA FreeEnds == ASSUME Server, NEW h \in Handlers, Free(h) PROVE BeginsOrEnds
<1>1. NoCall \in CallRecord /\ NoCall.pc = "idle"
  BY NoCallFine DEF NoCall
<1> QED BY <1>1 DEF Free, BeginsOrEnds

\* A save that begins.
LEMMA ChooseTargetBegins ==
  ASSUME Server, NEW t \in Tabs, NEW h \in Handlers, NEW s \in Scenarios,
         NEW d \in Drafts, NEW lock, d # NoDraft, ChooseTarget(t, h, s, d, lock)
  PROVE  BeginsOrEnds
<1>1. /\ d.revision \in 0..MaxRevision /\ d.content \in Contents
      /\ d.base \in Contents \cup {None} /\ d \in Draft
  BY DEF Drafts, Draft
<1>2. ASSUME NEW x \in Scenarios, NEW n \in 0..MaxRevision, NEW b \in Contents \cup {None},
             n < MaxRevision,
             call' = [call EXCEPT ![h] = Request("save", "revisions", x, n, d.content, b, None)]
      PROVE  BeginsOrEnds
  BY <1>1, <1>2, RequestBegins
<1>3. CASE d.revision < MaxRevision /\ SendSave(t, h, s, d, None, lock)
  <2>1. call' = [call EXCEPT ![h] =
                   Request("save", "revisions", s, d.revision, d.content, d.base, None)]
    BY <1>3 DEF SendSave
  <2> QED BY <1>1, <1>2, <1>3, <2>1
<1>4. ASSUME NEW n \in Scenarios, SendSave(t, h, n, [d EXCEPT !.revision = 0, !.base = None], s, lock)
      PROVE  BeginsOrEnds
  <2> DEFINE e == [d EXCEPT !.revision = 0, !.base = None]
  <2>1. e.revision = 0 /\ e.base = None /\ e.content = d.content
    BY <1>1 DEF Draft
  <2>2. call' = [call EXCEPT ![h] =
                   Request("save", "revisions", n, e.revision, e.content, e.base, None)]
    BY <1>4 DEF SendSave
  <2> HIDE DEF e
  <2>3. call' = [call EXCEPT ![h] = Request("save", "revisions", n, 0, d.content, None, None)]
    BY <2>1, <2>2
  <2>4. 0 \in 0..MaxRevision /\ 0 < MaxRevision
    BY BoundAssumption
  <2> QED BY <1>2, <2>3, <2>4
<1> QED BY <1>3, <1>4 DEF ChooseTarget

\* Every step is of one of the four kinds.
LEMMA StepKinds ==
  ASSUME Typed, [Next]_vars
  PROVE  \/ \E h \in Handlers : Serve(h) \/ Throw(h)
         \/ Manage
         \/ BeginsOrEnds
<1>1. ASSUME UNCHANGED serverVars PROVE BeginsOrEnds
  BY <1>1 DEF serverVars, BeginsOrEnds, Server
<1>2. ASSUME NEW t \in Tabs, NEW h \in Handlers, NEW lock \in BOOLEAN, Save(t, h, lock)
      PROVE  BeginsOrEnds
  <2>1. active[t] \in Scenarios /\ Current(t) \in Drafts \ {NoDraft} /\ Server
    BY <1>2, CurrentTyped DEF Save, Typed
  <2>2. CASE Home[active[t]] \in known[t]
    BY <1>2, <2>1, <2>2, ChooseTargetBegins DEF Save
  <2>3. CASE Home[active[t]] \notin known[t]
    <3>1. call' = [call EXCEPT ![h] =
                     Request("promote", "duplicates", active[t], 0, None, None, None)]
      BY <1>2, <2>3 DEF Save
    <3>2. 0 \in 0..MaxRevision
      BY BoundAssumption
    <3> QED BY <2>1, <3>1, <3>2, RequestBegins
  <2> QED BY <2>2, <2>3
<1>3. ASSUME NEW t \in Tabs, NEW h \in Handlers, NEW op \in {"html", "pdf"}, NEW k \in Kinds,
             AskReport(t, h, op, k)
      PROVE  BeginsOrEnds
  <2>1. active[t] \in Scenarios /\ Current(t).revision \in 0..MaxRevision /\ Current(t).revision > 0
    BY <1>3, CurrentTyped DEF AskReport, Typed, Drafts, Draft
  <2> DEFINE pc == IF op = "pdf" THEN "guard" ELSE "revisions"
  <2>2. pc \in {"duplicates", "reports", "revisions", "guard"}
    OBVIOUS
  <2>3. Server /\ call' = [call EXCEPT ![h] =
                             Request(op, pc, active[t], Current(t).revision, None, None, k)]
    BY <1>3 DEF AskReport
  <2> HIDE DEF pc
  <2> QED BY <2>1, <2>2, <2>3, RequestBegins
<1>4. ASSUME NEW h \in Handlers, NEW s \in Scenarios, Remove(h, s) PROVE BeginsOrEnds
  <2>1. Server /\ call' = [call EXCEPT ![h] = Request("remove", "reports", s, 0, None, None, None)]
    BY <1>4 DEF Remove, Receive, Server
  <2>2. 0 \in 0..MaxRevision
    BY BoundAssumption
  <2> QED BY <2>1, <2>2, RequestBegins
<1>5. ASSUME NEW t \in Tabs, Respond(t) PROVE BeginsOrEnds
  <2>1. CASE Promoted(t)
    <3>1. wait[t].handler \in Handlers /\ wait[t].scenario \in Scenarios
          /\ wait[t].draft \in Drafts \ {NoDraft}
      BY <2>1 DEF Promoted, Gets, Typed, TabTyped, WaitTyped
    <3> QED BY <2>1, <3>1, ChooseTargetBegins DEF Promoted
  <2>2. CASE Previewed(t) \/ GotPdf(t) \/ Refused(t)
    BY <2>2, FreeEnds DEF Previewed, GotPdf, Refused, Gets, Busy, Typed, TabTyped, WaitTyped
  <2>3. ASSUME NEW k \in Kinds, Saved(t, k) PROVE BeginsOrEnds
    <3>1. PICK h \in Handlers, r \in Revision : h = wait[t].handler /\ r = NewRevision(h)
      BY <2>3, SavedCall DEF Saved
    <3>2. r.scenario \in Scenarios /\ r.revision \in 0..MaxRevision /\ r.revision > 0
      BY BoundAssumption DEF Revision
    <3>3. Server /\ (\/ Free(h)
                     \/ call' = [call EXCEPT ![h] =
                          Request("html", "revisions", r.scenario, r.revision, None, None, k)])
      BY <2>3, <3>1 DEF Saved
    <3> QED BY <3>2, <3>3, RequestBegins, FreeEnds
  <2> QED BY <1>5, <2>1, <2>2, <2>3 DEF Respond
<1>6. ASSUME NEW h \in Handlers, Unheard(h) PROVE BeginsOrEnds
  BY <1>6, FreeEnds DEF Unheard
<1>7. ASSUME NEW t \in Tabs, NEW c \in Contents, NEW s \in Scenarios,
             Edit(t, c) \/ Choose(t, s) \/ NewScenario(t, s, c)
      PROVE  BeginsOrEnds
  BY <1>1, <1>7 DEF Edit, Choose, NewScenario, Edits
<1>8. ASSUME NEW t \in Tabs, NEW c \in Contents, Edit(t, c) PROVE BeginsOrEnds
  BY <1>1, <1>8 DEF Edit, Edits
<1>9. ASSUME NEW t \in Tabs, NEW s \in Scenarios, Choose(t, s) PROVE BeginsOrEnds
  BY <1>1, <1>9 DEF Choose, Edits
<1>10. ASSUME NEW t \in Tabs, Checkpoint(t) \/ Reload(t) \/ Analyzed(t) \/ LoseAnswer(t)
       PROVE  BeginsOrEnds
  BY <1>1, <1>10 DEF Checkpoint, Reload, Analyzed, LoseAnswer
<1>11. ASSUME UNCHANGED vars PROVE BeginsOrEnds
  BY <1>1, <1>11 DEF vars
<1> QED BY <1>2, <1>3, <1>4, <1>5, <1>6, <1>7, <1>8, <1>9, <1>10, <1>11 DEF Next, UserActs, Proceed

\* No way out of the PDF branch leaves the guard of a service instance set: it is
\* never busy with nobody rendering, so PDFs cannot be refused for good.
THEOREM GuardIsReleased == Spec => []GuardReleased
<1>1. Init => GuardReleased
  BY DEF Init, ServerInit, GuardReleased
<1>2. Typed /\ GuardReleased /\ [Next]_vars => GuardReleased'
  <2> SUFFICES ASSUME Typed, GuardReleased, [Next]_vars PROVE GuardReleased'
    OBVIOUS
  <2>1. CASE UNCHANGED guards
    BY <2>1 DEF guards, GuardReleased
  <2>2. ASSUME NEW h \in Handlers, Serve(h) PROVE GuardReleased'
    <3>1. CASE ReadRevision(h)
      BY <2>1, <3>1 DEF ReadRevision, GuardReleased
    <3>2. CASE Render(h)
      BY <2>1, <3>2 DEF Render, ReleaseGuards, GuardReleased
    <3>3. CASE AttachReport(h)
      BY <3>3 DEF AttachReport, ReleaseGuards, GuardReleased
    <3> QED BY <2>1, <2>2, <3>1, <3>2, <3>3 DEF Serve, FindDuplicates, Create, CheckBaseline,
            LinkRevision, StoreRevision, CheckReports, ListRevisions, DeleteRevisions, CheckBusy
  <2>3. ASSUME NEW h \in Handlers, Throw(h) PROVE GuardReleased'
    BY <2>1, <2>3 DEF Throw, ReleaseGuards, GuardReleased
  <2>4. CASE Manage
    BY <2>1, <2>4 DEF Manage, Archive, Restore
  <2>5. CASE BeginsOrEnds
    BY <2>1, <2>5 DEF BeginsOrEnds, Server
  <2> QED BY <2>2, <2>3, <2>4, <2>5, StepKinds
<1> QED BY <1>1, <1>2, InitTyped, StepTyped, PTL DEF Spec

-----------------------------------------------------------------------------
(* Answers that come late.                                                 *)

\* The request a tab has not overtaken asks for the calculation on its screen.
AskedIsCurrent ==
  /\ shown = [t \in Tabs |-> shown[t]] /\ asked = [t \in Tabs |-> asked[t]]
  /\ \A t \in Tabs : \A a \in asked[t] :
       a = [key |-> a.key, live |-> a.live] /\ (a.live => a.key = CalcKey(t))

\* The effect of a new calculation key: what is shown and asked is current again.
LEMMA ShowCurrent ==
  ASSUME Typed, AskedIsCurrent, ShownIsCurrent, NEW t \in Tabs, NEW ds \in [Scenarios -> Drafts],
         NEW s \in Scenarios, NEW clear, Show(t, ds, s, clear)
  PROVE  AskedIsCurrent' /\ ShownIsCurrent'
<1>1. s # None /\ draft \in [Tabs -> [Scenarios -> Drafts]] /\ active \in [Tabs -> Scenarios \cup {None}]
  BY NoneAssumption DEF Typed, TabTyped
<1>2. draft' = [draft EXCEPT ![t] = ds] /\ active' = [active EXCEPT ![t] = s]
  BY DEF Show
<1>3. CalcKey(t)' = Key(s, ds[s])
  BY <1>1, <1>2 DEF CalcKey, Active, Current
<1>4. \A u \in Tabs \ {t} : CalcKey(u)' = CalcKey(u)
  BY <1>1, <1>2 DEF CalcKey, Active, Current
<1>5. PICK old, new, analysis, overtaken :
        /\ old = CalcKey(t) /\ new = Key(s, ds[s]) /\ analysis = SavedAnalysis(s, ds[s])
        /\ overtaken = Overtaken(t)
  OBVIOUS
<1>6. analysis \in {None, new}
      /\ \A a \in overtaken : a = [key |-> a.key, live |-> a.live] /\ ~a.live
  BY <1>5 DEF SavedAnalysis, Overtaken
<1>7. /\ shown' = [shown EXCEPT ![t] = IF new # old THEN analysis ELSE @]
      /\ asked' = [asked EXCEPT ![t] =
                     IF new # old THEN overtaken \cup {[key |-> new, live |-> TRUE]} ELSE @]
  BY <1>1, <1>5 DEF Show, Ask
<1>8. ASSUME NEW u \in Tabs, NEW a \in asked'[u]
      PROVE  a = [key |-> a.key, live |-> a.live] /\ (a.live => a.key = CalcKey(u)')
  <2>1. CASE u = t
    BY <1>3, <1>5, <1>6, <1>7, <1>8, <2>1 DEF AskedIsCurrent
  <2>2. CASE u # t
    BY <1>4, <1>7, <1>8, <2>2 DEF AskedIsCurrent
  <2> QED BY <2>1, <2>2
<1>9. ASSUME NEW u \in Tabs, shown'[u] # None PROVE shown'[u] = CalcKey(u)'
  <2>1. CASE u = t
    BY <1>3, <1>5, <1>6, <1>7, <1>9, <2>1 DEF AskedIsCurrent, ShownIsCurrent
  <2>2. CASE u # t
    BY <1>4, <1>7, <1>9, <2>2 DEF AskedIsCurrent, ShownIsCurrent
  <2> QED BY <2>1, <2>2
<1>10. shown' = [u \in Tabs |-> shown'[u]] /\ asked' = [u \in Tabs |-> asked'[u]]
  BY <1>7 DEF AskedIsCurrent
<1> QED BY <1>8, <1>9, <1>10 DEF AskedIsCurrent, ShownIsCurrent

\* The drafts an edit, a new scenario or a saved revision shows.
LEMMA EditShows ==
  ASSUME Typed, NEW t \in Tabs
  PROVE  /\ \A c \in Contents : Edit(t, c) =>
              \E ds \in [Scenarios -> Drafts], s \in Scenarios : Show(t, ds, s, TRUE)
         /\ \A s \in Scenarios, c \in Contents : NewScenario(t, s, c) =>
              \E ds \in [Scenarios -> Drafts], x \in Scenarios : Show(t, ds, x, TRUE)
         /\ \A s \in Scenarios : Choose(t, s) =>
              \E ds \in [Scenarios -> Drafts], x \in Scenarios : Show(t, ds, x, TRUE)
         /\ \A k \in Kinds : Saved(t, k) =>
              \E ds \in [Scenarios -> Drafts], s \in Scenarios : Show(t, ds, s, FALSE)
<1>1. ASSUME NEW c \in Contents, Edit(t, c)
      PROVE  \E ds \in [Scenarios -> Drafts], s \in Scenarios : Show(t, ds, s, TRUE)
  <2> DEFINE a == active[t]
             ds == [draft[t] EXCEPT ![a].content = c, ![a].dirty = TRUE]
  <2>1. a \in Scenarios /\ Show(t, ds, a, TRUE)
    BY <1>1, CurrentTyped DEF Edit, Typed
  <2>2. draft'[t] = ds /\ DraftsTyped'
    BY <1>1, <2>1, EditTyped, TabParts DEF Show, Typed, TabTyped
  <2>3. ds \in [Scenarios -> Drafts]
    <3> HIDE DEF ds
    <3> QED BY <2>2 DEF DraftsTyped
  <2> HIDE DEF ds
  <2> QED BY <2>1, <2>3
<1>2. ASSUME NEW s \in Scenarios, NEW c \in Contents, NewScenario(t, s, c)
      PROVE  \E ds \in [Scenarios -> Drafts], x \in Scenarios : Show(t, ds, x, TRUE)
  <2> DEFINE ds == [draft[t] EXCEPT ![s] = Unsaved(c)]
  <2>1. Show(t, ds, s, TRUE)
    BY <1>2 DEF NewScenario
  <2>2. Unsaved(c) \in Drafts
    BY BoundAssumption DEF Unsaved, Drafts, Draft
  <2>3. ds \in [Scenarios -> Drafts]
    BY <2>2 DEF Typed, TabTyped
  <2> HIDE DEF ds
  <2> QED BY <2>1, <2>3
<1>3. ASSUME NEW s \in Scenarios, Choose(t, s)
      PROVE  \E ds \in [Scenarios -> Drafts], x \in Scenarios : Show(t, ds, x, TRUE)
  BY <1>3 DEF Choose, Typed, TabTyped
<1>4. ASSUME NEW k \in Kinds, Saved(t, k)
      PROVE  \E ds \in [Scenarios -> Drafts], s \in Scenarios : Show(t, ds, s, FALSE)
  <2>1. PICK r \in Revision : r = NewRevision(wait[t].handler)
    BY <1>4, SavedCall DEF Saved
  <2>2. r.scenario \in Scenarios /\ Show(t, AfterSave(t, r), r.scenario, FALSE)
    BY <1>4, <2>1 DEF Saved, Revision
  <2>3. draft'[t] = AfterSave(t, r) /\ DraftsTyped'
    BY <1>4, <2>2, SavedTabTyped, TabParts DEF Show, Typed, TabTyped
  <2>4. AfterSave(t, r) \in [Scenarios -> Drafts]
    BY <2>3 DEF DraftsTyped
  <2> QED BY <2>2, <2>4
<1> QED BY <1>1, <1>2, <1>3, <1>4

\* The invariant is inductive.
LEMMA StepCurrent ==
  Typed /\ AskedIsCurrent /\ ShownIsCurrent /\ [Next]_vars => AskedIsCurrent' /\ ShownIsCurrent'
<1> SUFFICES ASSUME Typed, AskedIsCurrent, ShownIsCurrent, [Next]_vars
             PROVE  AskedIsCurrent' /\ ShownIsCurrent'
  OBVIOUS
<1>1. ASSUME UNCHANGED <<draft, active, shown, asked>> PROVE AskedIsCurrent' /\ ShownIsCurrent'
  BY <1>1 DEF AskedIsCurrent, ShownIsCurrent, CalcKey, Active, Current
<1>2. ASSUME NEW t \in Tabs, NEW ds \in [Scenarios -> Drafts], NEW s \in Scenarios,
             Show(t, ds, s, TRUE) \/ Show(t, ds, s, FALSE)
      PROVE  AskedIsCurrent' /\ ShownIsCurrent'
  BY <1>2, ShowCurrent
<1>3. ASSUME NEW t \in Tabs, NEW c \in Contents, Edit(t, c) PROVE AskedIsCurrent' /\ ShownIsCurrent'
  BY <1>2, <1>3, EditShows
<1>4. ASSUME NEW t \in Tabs, NEW s \in Scenarios, Choose(t, s) PROVE AskedIsCurrent' /\ ShownIsCurrent'
  BY <1>2, <1>4, EditShows
<1>5. ASSUME NEW t \in Tabs, NEW s \in Scenarios, NEW c \in Contents, NewScenario(t, s, c)
      PROVE  AskedIsCurrent' /\ ShownIsCurrent'
  BY <1>2, <1>5, EditShows
<1>6. ASSUME NEW t \in Tabs, Respond(t) PROVE AskedIsCurrent' /\ ShownIsCurrent'
  <2>1. CASE Promoted(t) \/ Previewed(t) \/ GotPdf(t) \/ Refused(t)
    BY <1>1, <2>1 DEF Promoted, Previewed, GotPdf, Refused, Page
  <2>2. CASE \E k \in Kinds : Saved(t, k)
    BY <1>2, <2>2, EditShows
  <2> QED BY <1>6, <2>1, <2>2 DEF Respond
<1>7. ASSUME NEW t \in Tabs, Analyzed(t) PROVE AskedIsCurrent' /\ ShownIsCurrent'
  <2>1. PICK a \in asked[t] :
          /\ asked' = [asked EXCEPT ![t] = @ \ {a}]
          /\ \/ shown' = [shown EXCEPT ![t] = @]
             \/ shown' = [shown EXCEPT ![t] = None]
             \/ a.live /\ shown' = [shown EXCEPT ![t] = a.key]
          /\ UNCHANGED <<draft, active>>
    BY <1>7 DEF Analyzed
  <2>2. \A u \in Tabs : CalcKey(u)' = CalcKey(u)
    BY <2>1 DEF CalcKey, Active, Current
  <2>3. a.live => a.key = CalcKey(t)
    BY DEF AskedIsCurrent
  <2>4. \A u \in Tabs : asked'[u] \subseteq asked[u]
    BY <2>1 DEF AskedIsCurrent
  <2>5. \A u \in Tabs : shown'[u] \in {shown[u], None} \/ shown'[u] = CalcKey(u)
    BY <2>1, <2>3 DEF AskedIsCurrent
  <2>6. shown' = [u \in Tabs |-> shown'[u]] /\ asked' = [u \in Tabs |-> asked'[u]]
    BY <2>1 DEF AskedIsCurrent
  <2> QED BY <2>2, <2>4, <2>5, <2>6 DEF AskedIsCurrent, ShownIsCurrent
<1>8. ASSUME NEW t \in Tabs, Reload(t) PROVE AskedIsCurrent' /\ ShownIsCurrent'
  <2>1. PICK ds : ds = Hydrated
    OBVIOUS
  <2>2. PICK s : s = local.active
    OBVIOUS
  <2>3. /\ draft' = [draft EXCEPT ![t] = ds] /\ active' = [active EXCEPT ![t] = s]
        /\ shown' = [shown EXCEPT ![t] = IF s = None THEN None ELSE SavedAnalysis(s, ds[s])]
        /\ asked' = [asked EXCEPT ![t] = Ask(s, ds)]
    BY <1>8, <2>1, <2>2 DEF Reload
  <2>4. draft \in [Tabs -> [Scenarios -> Drafts]] /\ active \in [Tabs -> Scenarios \cup {None}]
    BY DEF Typed, TabTyped
  <2>5. s # None => CalcKey(t)' = Key(s, ds[s])
    BY <2>3, <2>4 DEF CalcKey, Active, Current
  <2>6. \A u \in Tabs \ {t} : CalcKey(u)' = CalcKey(u)
    BY <2>3, <2>4 DEF CalcKey, Active, Current
  <2>7. PICK key : key = CalcKey(t)'
    OBVIOUS
  <2>8. shown'[t] \in {None, key} /\ \A a \in asked'[t] : a = [key |-> a.key, live |-> a.live] /\ a.key = key
    BY <2>3, <2>5, <2>7 DEF SavedAnalysis, Ask, AskedIsCurrent
  <2>9. \A u \in Tabs \ {t} : shown'[u] = shown[u] /\ asked'[u] = asked[u]
    BY <2>3 DEF AskedIsCurrent
  <2>10. shown' = [u \in Tabs |-> shown'[u]] /\ asked' = [u \in Tabs |-> asked'[u]]
    BY <2>3 DEF AskedIsCurrent
  <2> QED BY <2>6, <2>7, <2>8, <2>9, <2>10 DEF AskedIsCurrent, ShownIsCurrent
<1>9. ASSUME NEW t \in Tabs, Checkpoint(t) \/ LoseAnswer(t) PROVE AskedIsCurrent' /\ ShownIsCurrent'
  BY <1>1, <1>9 DEF Checkpoint, LoseAnswer
<1>10. ASSUME NEW t \in Tabs, NEW h \in Handlers, NEW lock \in BOOLEAN, Save(t, h, lock)
       PROVE  AskedIsCurrent' /\ ShownIsCurrent'
  BY <1>1, <1>10 DEF Save, Page
<1>11. ASSUME NEW t \in Tabs, NEW h \in Handlers, NEW op \in {"html", "pdf"}, NEW k \in Kinds,
              AskReport(t, h, op, k)
       PROVE  AskedIsCurrent' /\ ShownIsCurrent'
  BY <1>1, <1>11 DEF AskReport, Page
<1>12. ASSUME UNCHANGED tabVars PROVE AskedIsCurrent' /\ ShownIsCurrent'
  BY <1>1, <1>12 DEF tabVars
<1> QED BY <1>3, <1>4, <1>5, <1>6, <1>7, <1>8, <1>9, <1>10, <1>11, <1>12
        DEF Next, UserActs, Proceed, Unheard, vars

\* The analysis on the screen is that of the inputs on the screen, although answers
\* arrive late and in any order and the drafts change under them.
THEOREM AnalysisIsCurrent == Spec => []ShownIsCurrent
<1>1. Init => AskedIsCurrent /\ ShownIsCurrent
  <2> SUFFICES ASSUME Init PROVE AskedIsCurrent /\ ShownIsCurrent
    OBVIOUS
  <2>1. PICK s, ds : /\ shown = [t \in Tabs |-> IF s = None THEN None ELSE SavedAnalysis(s, ds[s])]
                     /\ asked = [t \in Tabs |-> {}]
                     /\ active = [t \in Tabs |-> s] /\ draft = [t \in Tabs |-> ds]
    <3> DEFINE FirstOf(s, c) == IF s = None THEN {}
                                ELSE {[scenario |-> s, revision |-> 1, content |-> c, base |-> None]}
               DraftsOf(s, c) == [x \in Scenarios |->
                                    IF x = s THEN Clean(CHOOSE r \in FirstOf(s, c) : TRUE) ELSE NoDraft]
    <3>1. PICK s \in Scenarios \cup {None} : \E c \in IF s = None THEN {None} ELSE Contents :
            /\ shown = [t \in Tabs |-> IF s = None THEN None ELSE SavedAnalysis(s, DraftsOf(s, c)[s])]
            /\ asked = [t \in Tabs |-> {}]
            /\ active = [t \in Tabs |-> s] /\ draft = [t \in Tabs |-> DraftsOf(s, c)]
      BY DEF Init
    <3> HIDE DEF FirstOf, DraftsOf
    <3> QED BY <3>1
  <2>2. \A t \in Tabs : shown[t] # None => shown[t] = CalcKey(t)
    BY <2>1 DEF SavedAnalysis, CalcKey, Active, Current
  <2> QED BY <2>1, <2>2 DEF AskedIsCurrent, ShownIsCurrent
<1> QED BY <1>1, InitTyped, StepTyped, StepCurrent, PTL DEF Spec

-----------------------------------------------------------------------------
(* What reports are made of.                                               *)

Analyzable(s, n) == \E q \in Stored(s, n) : q.content \in Complete

\* Content c is what is stored as revision n of scenario s, unless s was removed.
Pictured(s, n, c) == s \notin removed => \E q \in Stored(s, n) : q.content = c

\* A report being made shows what is stored; a removal under way has seen to it
\* that no report of its scenario is without a mark.
ReportCall(c) ==
  /\ c.pc \in {"html", "render", "attach", "pdf"} => Pictured(c.scenario, c.revision, c.content)
  /\ c.pc \in {"render", "attach"} => c.raced \/ Analyzable(c.scenario, c.revision)
  /\ c.pc \in {"list", "delete"} => \A d \in reports : d.scenario = c.scenario => d.raced

ReportsInv == ReportsBacked /\ \A h \in Handlers : ReportCall(call[h])

\* Nothing but requests has changed.
LEMMA OneCallReports ==
  ASSUME ServerTyped, ReportsInv, UNCHANGED <<saved, reports, removed>>, NEW h \in Handlers,
         NEW c, call' = [call EXCEPT ![h] = c], ReportCall(c)
  PROVE  ReportsInv'
<1>1. \A k \in Handlers : call'[k] = IF k = h THEN c ELSE call[k]
  BY DEF ServerTyped, ServerTypeOK
<1>2. \A k \in Handlers : ReportCall(call[k])'
  BY <1>1 DEF ReportsInv, ReportCall, Pictured, Analyzable, Stored, Of
<1> QED BY <1>2 DEF ReportsInv, ReportsBacked, Stored, Of

\* A handler that goes on, with the places that matter to reports.
LEMMA GotoReports ==
  ASSUME ServerTyped, ReportsInv, UNCHANGED <<saved, reports, removed>>, NEW h \in Handlers,
         NEW pc, Goto(h, pc),
         \/ pc \notin {"html", "render", "attach", "pdf", "list", "delete"}
         \/ pc = "attach" /\ call[h].pc = "render"
         \/ pc = "pdf" /\ call[h].pc \in {"render", "attach"}
         \/ pc = "list" /\ \A d \in reports : d.scenario # call[h].scenario
  PROVE  ReportsInv'
<1> DEFINE c == [call[h] EXCEPT !.pc = pc]
<1>1. call[h] \in CallRecord /\ ReportCall(call[h])
  BY DEF ServerTyped, ServerTypeOK, CallRecord, ReportsInv
<1>2. /\ c.pc = pc /\ c.scenario = call[h].scenario /\ c.revision = call[h].revision
      /\ c.content = call[h].content /\ c.raced = call[h].raced
  BY <1>1 DEF CallRecord
<1> HIDE DEF c
<1>3. ReportCall(c)
  BY <1>1, <1>2 DEF ReportCall
<1>4. call' = [call EXCEPT ![h] = c]
  BY DEF Goto, c
<1> QED BY <1>3, <1>4, OneCallReports

\* A step that leaves revisions, links and requests alone.
LEMMA ReportsStay ==
  ASSUME ReportsInv, UNCHANGED <<saved, reports, removed, call>>
  PROVE  ReportsInv'
  BY DEF ReportsInv, ReportsBacked, ReportCall, Pictured, Analyzable, Stored, Of

\* Every step of a handler keeps the invariant.
LEMMA ServeReports ==
  ASSUME ServerTyped, ReportsInv, NEW h \in Handlers, Serve(h)
  PROVE  ReportsInv'
<1>1. call \in [Handlers -> CallRecord] /\ call[h] \in CallRecord /\ CallShape(call[h])
  BY DEF ServerTyped, ServerTypeOK, CallRecord
<1>2. CASE FindDuplicates(h)
  BY <1>2, GotoReports DEF FindDuplicates, Answer, documents, past
<1>3. CASE Create(h)
  BY <1>3, GotoReports DEF Create, Answer, past
<1>4. CASE CheckBaseline(h)
  BY <1>4, GotoReports DEF CheckBaseline, Answer, documents, past
<1>5. CASE LinkRevision(h)
  BY <1>5, GotoReports DEF LinkRevision, Answer, documents, past
<1>6. CASE StoreRevision(h)
  <2>1. saved \subseteq saved' /\ UNCHANGED <<reports, removed>>
    BY <1>6 DEF StoreRevision, past
  <2>2. \A k \in Handlers :
          \/ call'[k] = call[k]
          \/ call'[k].pc \in {"conflict", "saved", "error"}
    BY <1>1, <1>6 DEF StoreRevision, Answer, Goto, CallRecord
  <2>3. \A k \in Handlers : ReportCall(call[k])'
    BY <2>1, <2>2 DEF ReportsInv, ReportCall, Pictured, Analyzable, Stored, Of
  <2> QED BY <2>1, <2>3 DEF ReportsInv, ReportsBacked, Stored, Of
<1>7. CASE CheckReports(h)
  BY <1>7, GotoReports DEF CheckReports, Answer, documents, past
<1>8. CASE ListRevisions(h)
  <2>1. CASE Goto(h, "notFound")
    BY <1>8, <2>1, GotoReports DEF ListRevisions, documents, past
  <2>2. CASE ~Goto(h, "notFound")
    <3> DEFINE c == [call[h] EXCEPT !.pc = "delete",
                                    !.listed = {r.revision : r \in Of(call[h].scenario)}]
    <3>1. c.pc = "delete" /\ c.scenario = call[h].scenario
      BY <1>1 DEF CallRecord
    <3>2. call' = [call EXCEPT ![h] = c]
      BY <1>8, <2>2 DEF ListRevisions, Answer
    <3> HIDE DEF c
    <3>3. ReportCall(c)
      BY <1>8, <3>1 DEF ListRevisions, At, ReportsInv, ReportCall
    <3> QED BY <1>8, <3>2, <3>3, OneCallReports DEF ListRevisions, documents, past
  <2> QED BY <2>1, <2>2
<1>9. CASE DeleteRevisions(h)
  <2> DEFINE s == call[h].scenario
  <2>1. /\ removed' = removed \cup {s} /\ reports' = reports
        /\ \A q \in saved : q.scenario # s => q \in saved'
    BY <1>9 DEF DeleteRevisions
  <2>2. \A d \in reports : d.scenario = s => d.raced
    BY <1>9 DEF DeleteRevisions, At, ReportsInv, ReportCall
  <2>3. ASSUME NEW k \in Handlers PROVE ReportCall(call[k])'
    <3>1. CASE k = h
      <4>1. call'[k].pc = "removed"
        BY <1>1, <1>9, <3>1 DEF DeleteRevisions, CallRecord
      <4> QED BY <4>1 DEF ReportCall
    <3>2. CASE k # h
      <4>1. call[k] \in CallRecord /\ CallShape(call[k]) /\ ReportCall(call[k])
        BY DEF ServerTyped, ServerTypeOK, CallRecord, ReportsInv
      <4>2. call'[k] = [call[k] EXCEPT !.raced = @ \/ (call[k].op = "pdf" /\ call[k].scenario = s)]
        BY <1>9, <3>2 DEF DeleteRevisions
      <4>3. /\ call'[k].pc = call[k].pc /\ call'[k].scenario = call[k].scenario
            /\ call'[k].revision = call[k].revision /\ call'[k].content = call[k].content
            /\ call'[k].raced <=> call[k].raced \/ (call[k].op = "pdf" /\ call[k].scenario = s)
        BY <4>1, <4>2 DEF CallRecord
      <4>4. call[k].pc \in {"render", "attach"} => call[k].op = "pdf"
        BY <4>1 DEF CallShape
      <4>5. call'[k].pc \in {"html", "render", "attach", "pdf"} =>
              Pictured(call[k].scenario, call[k].revision, call[k].content)'
        BY <2>1, <4>1, <4>3 DEF ReportCall, Pictured, Stored, Of
      <4>6. call'[k].pc \in {"render", "attach"} =>
              call'[k].raced \/ Analyzable(call[k].scenario, call[k].revision)'
        BY <2>1, <4>1, <4>3, <4>4 DEF ReportCall, Analyzable, Stored, Of
      <4>7. call'[k].pc \in {"list", "delete"} =>
              \A d \in reports' : d.scenario = call'[k].scenario => d.raced
        BY <2>1, <4>1, <4>3 DEF ReportCall
      <4> QED BY <4>5, <4>6, <4>7 DEF ReportCall
    <3> QED BY <3>1, <3>2
  <2>4. ReportsBacked'
    BY <2>1, <2>2 DEF ReportsInv, ReportsBacked, Stored, Of
  <2> QED BY <2>3, <2>4 DEF ReportsInv
<1>10. CASE CheckBusy(h)
  BY <1>10, GotoReports DEF CheckBusy, Answer, documents, past
<1>11. CASE ReadRevision(h)
  <2>1. UNCHANGED <<saved, reports, removed>>
    BY <1>11 DEF ReadRevision, documents, past
  <2>2. CASE Goto(h, "notSaved")
    BY <2>1, <2>2, GotoReports
  <2>3. CASE ~Goto(h, "notSaved")
    <3>1. PICK r \in Stored(call[h].scenario, call[h].revision) :
            /\ r.content \in Complete
            /\ call' = [call EXCEPT ![h].pc = IF call[h].op = "pdf" THEN "render" ELSE "html",
                                    ![h].content = r.content]
      BY <1>11, <2>3 DEF ReadRevision, Answer
    <3> DEFINE c == [call[h] EXCEPT !.pc = IF call[h].op = "pdf" THEN "render" ELSE "html",
                                    !.content = r.content]
    <3>2. /\ c.pc \in {"render", "html"} /\ c.scenario = call[h].scenario
          /\ c.revision = call[h].revision /\ c.content = r.content
      BY <1>1 DEF CallRecord
    <3>3. call' = [call EXCEPT ![h] = c]
      BY <3>1
    <3> HIDE DEF c
    <3>4. ReportCall(c)
      BY <3>1, <3>2 DEF ReportCall, Pictured, Analyzable
    <3> QED BY <2>1, <3>3, <3>4, OneCallReports
  <2> QED BY <2>2, <2>3
<1>12. CASE Render(h)
  BY <1>12, GotoReports DEF Render, At, Answer, documents, past
<1>13. CASE AttachReport(h)
  <2> DEFINE s == call[h].scenario
             n == call[h].revision
             d == [scenario |-> s, revision |-> n, kind |-> call[h].kind,
                   raced |-> call[h].raced \/ BeingRemoved(s)]
  <2>1. /\ call[h].pc = "attach" /\ reports' = reports \cup {d} /\ Goto(h, "pdf")
        /\ UNCHANGED <<saved, removed>>
    BY <1>13 DEF AttachReport, At, Answer, past
  <2>2. ReportCall(call[h])
    BY DEF ReportsInv
  <2>3. d.scenario = s /\ d.revision = n /\ (d.raced <=> call[h].raced \/ BeingRemoved(s))
    OBVIOUS
  <2> HIDE DEF d
  <2>4. ReportsBacked'
    BY <2>1, <2>2, <2>3 DEF ReportsInv, ReportsBacked, ReportCall, Analyzable, Stored, Of
  <2>5. ASSUME NEW k \in Handlers PROVE ReportCall(call[k])'
    <3>1. CASE k = h
      <4>1. /\ call'[h].pc = "pdf" /\ call'[h].scenario = s /\ call'[h].revision = n
            /\ call'[h].content = call[h].content
        BY <1>1, <2>1 DEF Goto, CallRecord
      <4> QED BY <2>1, <2>2, <3>1, <4>1 DEF ReportCall, Pictured, Stored, Of
    <3>2. CASE k # h
      <4>1. call'[k] = call[k] /\ ReportCall(call[k])
        BY <1>1, <2>1, <3>2 DEF Goto, ReportsInv
      <4>2. call[k].pc \in {"list", "delete"} /\ call[k].scenario = s => d.raced
        BY <2>3 DEF BeingRemoved
      <4> QED BY <2>1, <2>3, <4>1, <4>2 DEF ReportCall, Pictured, Analyzable, Stored, Of
    <3> QED BY <3>1, <3>2
  <2> QED BY <2>4, <2>5 DEF ReportsInv
<1> QED BY <1>2, <1>3, <1>4, <1>5, <1>6, <1>7, <1>8, <1>9, <1>10, <1>11, <1>12, <1>13 DEF Serve

\* The invariant is inductive.
LEMMA StepReports == Typed /\ ReportsInv /\ [Next]_vars => ReportsInv'
<1> SUFFICES ASSUME Typed, ReportsInv, [Next]_vars PROVE ReportsInv'
  OBVIOUS
<1>1. ServerTyped
  BY DEF Typed
<1>2. ASSUME NEW h \in Handlers, Throw(h) PROVE ReportsInv'
  BY <1>1, <1>2, GotoReports DEF Throw, Answer, documents, past
<1>3. CASE Manage
  BY <1>3, ReportsStay DEF Manage, Archive, Restore, past
<1>4. CASE BeginsOrEnds
  <2>1. UNCHANGED <<saved, reports, removed>>
    BY <1>4 DEF BeginsOrEnds, Server, documents, past
  <2>2. ASSUME NEW h \in Handlers, NEW c \in CallRecord,
               c.pc \in {"idle", "duplicates", "reports", "revisions", "guard"},
               call' = [call EXCEPT ![h] = c]
        PROVE  ReportsInv'
    <3>1. ReportCall(c)
      BY <2>2 DEF ReportCall
    <3> QED BY <1>1, <2>1, <2>2, <3>1, OneCallReports
  <2>3. CASE call' = call
    BY <2>1, <2>3, ReportsStay
  <2> QED BY <1>4, <2>2, <2>3 DEF BeginsOrEnds
<1> QED BY <1>1, <1>2, <1>3, <1>4, ServeReports, StepKinds

\* No report has been made initially.
LEMMA InitReports == Init => ReportsInv
<1> SUFFICES ASSUME Init PROVE ReportsInv
  OBVIOUS
<1>1. reports = {} /\ call = [h \in Handlers |-> NoCall]
  BY DEF Init, ServerInit
<1> QED BY <1>1 DEF ReportsInv, ReportsBacked, ReportCall, NoCall

\* A linked report has its revision, with an analysis, unless the removal of its
\* scenario overlapped with making it.
THEOREM ReportsAreBacked == Spec => []ReportsBacked
<1>1. ReportsInv => ReportsBacked
  BY DEF ReportsInv
<1> QED BY <1>1, InitTyped, StepTyped, InitReports, StepReports, PTL DEF Spec

-----------------------------------------------------------------------------
(* What a tab shows or offers for download.                                *)

TabPictured ==
  /\ preview = [t \in Tabs |-> preview[t]] /\ pdf = [t \in Tabs |-> pdf[t]]
  /\ \A t \in Tabs : \A d \in {preview[t], pdf[t]} \ {None} :
       Pictured(d.scenario, d.revision, d.content)

\* What a report shows stays stored, or its scenario is removed.
LEMMA PicturedStays ==
  ASSUME Grows, NEW s, NEW n, NEW c, Pictured(s, n, c)
  PROVE  Pictured(s, n, c)'
  BY DEF Grows, Pictured, Stored, Of

\* Each tab shows what it showed, nothing, or a report that has just come.
LEMMA TabsPictured ==
  ASSUME TabPictured, Grows,
         preview' = [t \in Tabs |-> preview'[t]], pdf' = [t \in Tabs |-> pdf'[t]],
         \A t \in Tabs : \A d \in {preview'[t], pdf'[t]} \ {None} :
           d \in {preview[t], pdf[t]} \/ Pictured(d.scenario, d.revision, d.content)
  PROVE  TabPictured'
<1>1. ASSUME NEW t \in Tabs, NEW d \in {preview'[t], pdf'[t]} \ {None}
      PROVE  Pictured(d.scenario, d.revision, d.content)'
  <2>1. Pictured(d.scenario, d.revision, d.content)
    BY DEF TabPictured
  <2> QED BY <2>1, PicturedStays
<1> QED BY <1>1 DEF TabPictured

\* A report that arrives shows what is stored.
LEMMA ReceivedPictured ==
  ASSUME ReportsInv, NEW h \in Handlers, call[h].pc \in {"html", "pdf"}
  PROVE  Pictured(Received(h).scenario, Received(h).revision, Received(h).content)
  BY DEF ReportsInv, ReportCall, Received

\* The invariant is inductive.
LEMMA StepPictured ==
  Typed /\ AllGrounded /\ ReportsInv /\ TabPictured /\ [Next]_vars => TabPictured'
<1> SUFFICES ASSUME Typed, AllGrounded, ReportsInv, TabPictured, [Next]_vars PROVE TabPictured'
  OBVIOUS
<1>1. Grows
  BY StepGrounded
<1>2. CASE UNCHANGED <<preview, pdf>>
  BY <1>1, <1>2, TabsPictured DEF TabPictured
<1>3. ASSUME NEW t \in Tabs, NEW ds, NEW s, NEW clear, Show(t, ds, s, clear) PROVE TabPictured'
  <2>1. /\ \E x \in {None, preview[t]} : preview' = [preview EXCEPT ![t] = x]
        /\ \E x \in {None, pdf[t]} : pdf' = [pdf EXCEPT ![t] = x]
    BY <1>3 DEF Show
  <2> QED BY <1>1, <2>1, TabsPictured DEF TabPictured
<1>4. ASSUME NEW t \in Tabs, Respond(t) PROVE TabPictured'
  <2>1. CASE Promoted(t) \/ Refused(t)
    BY <1>2, <2>1 DEF Promoted, Refused, Page
  <2>2. CASE Previewed(t)
    <3>1. PICK d : d = Received(wait[t].handler)
      OBVIOUS
    <3>2. Pictured(d.scenario, d.revision, d.content)
      BY <2>2, <3>1, ReceivedPictured DEF Previewed, Gets, Typed, TabTyped, WaitTyped
    <3>3. /\ \E x \in {d, preview[t]} : preview' = [preview EXCEPT ![t] = x]
          /\ pdf' = pdf
      BY <2>2, <3>1 DEF Previewed
    <3> QED BY <1>1, <3>2, <3>3, TabsPictured DEF TabPictured
  <2>3. CASE GotPdf(t)
    <3>1. PICK d : d = Received(wait[t].handler)
      OBVIOUS
    <3>2. Pictured(d.scenario, d.revision, d.content)
      BY <2>3, <3>1, ReceivedPictured DEF GotPdf, Gets, Typed, TabTyped, WaitTyped
    <3>3. pdf' = [pdf EXCEPT ![t] = d] /\ preview' = preview
      BY <2>3, <3>1 DEF GotPdf, Page
    <3> QED BY <1>1, <3>2, <3>3, TabsPictured DEF TabPictured
  <2>4. ASSUME NEW k \in Kinds, Saved(t, k) PROVE TabPictured'
    BY <1>3, <2>4 DEF Saved
  <2> QED BY <1>4, <2>1, <2>2, <2>3, <2>4 DEF Respond
<1>5. ASSUME NEW t \in Tabs, NEW h \in Handlers, NEW op \in {"html", "pdf"}, NEW k \in Kinds,
             AskReport(t, h, op, k)
      PROVE  TabPictured'
  <2>1. preview' = preview /\ \E x \in {None, pdf[t]} : pdf' = [pdf EXCEPT ![t] = x]
    BY <1>5 DEF AskReport, Page
  <2> QED BY <1>1, <2>1, TabsPictured DEF TabPictured
<1>6. ASSUME NEW t \in Tabs, Reload(t) PROVE TabPictured'
  <2>1. preview' = [preview EXCEPT ![t] = None] /\ pdf' = [pdf EXCEPT ![t] = None]
    BY <1>6 DEF Reload
  <2> QED BY <1>1, <2>1, TabsPictured DEF TabPictured
<1>7. ASSUME NEW t \in Tabs, Checkpoint(t) \/ Analyzed(t) \/ LoseAnswer(t) PROVE TabPictured'
  BY <1>2, <1>7 DEF Checkpoint, Analyzed, LoseAnswer
<1>8. ASSUME NEW t \in Tabs, NEW h \in Handlers, NEW lock \in BOOLEAN, Save(t, h, lock)
      PROVE  TabPictured'
  BY <1>2, <1>8 DEF Save, Page
<1>9. ASSUME NEW t \in Tabs, NEW c \in Contents, Edit(t, c) PROVE TabPictured'
  BY <1>3, <1>9 DEF Edit
<1>10. ASSUME NEW t \in Tabs, NEW s \in Scenarios, Choose(t, s) PROVE TabPictured'
  BY <1>3, <1>10 DEF Choose
<1>11. ASSUME NEW t \in Tabs, NEW s \in Scenarios, NEW c \in Contents, NewScenario(t, s, c)
       PROVE  TabPictured'
  BY <1>3, <1>11 DEF NewScenario
<1>12. ASSUME UNCHANGED tabVars PROVE TabPictured'
  BY <1>2, <1>12 DEF tabVars
<1> QED BY <1>4, <1>5, <1>6, <1>7, <1>8, <1>9, <1>10, <1>11, <1>12
        DEF Next, UserActs, Proceed, Unheard, vars

\* The report on the screen, and the PDF offered for download, show the stored
\* revision they name, whatever the draft has become since.
THEOREM ReportsAreOfRevisions == Spec => []ReportIsOfRevision
<1>1. Init => TabPictured
  BY DEF Init, TabPictured
<1>2. TabPictured => ReportIsOfRevision
  BY DEF TabPictured, ReportIsOfRevision, Pictured
<1> QED BY <1>1, <1>2, InitTyped, StepTyped, InitGrounded, StepGrounded, InitReports, StepReports,
           StepPictured, PTL DEF Spec
=============================================================================
