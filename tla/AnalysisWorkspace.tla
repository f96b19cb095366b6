--------------------------- MODULE AnalysisWorkspace ---------------------------
(***************************************************************************)
(* The browser tabs of the investment workspace (Workspace.jsx and         *)
(* draft-recovery.js) on top of the server of ScenarioStore: drafts kept   *)
(* in the tab and in the local storage that tabs share, saving with        *)
(* optimistic revision numbers, the calculated preview, report previews    *)
(* and PDFs.                                                               *)
(*                                                                         *)
(* A step of a tab is one event handler up to its next await, with the     *)
(* React effects that its state changes trigger.                           *)
(***************************************************************************)
EXTENDS ScenarioStore

CONSTANTS
  Tabs,         \* browser tabs of one browser
  Blank,        \* what a new scenario contains
  Calculation,  \* the part of a content the calculation depends on
  MaxActs       \* bound on what users do and on mishaps

ASSUME ActsAssumption == MaxActs \in Nat

VARIABLES
  draft,     \* drafts of each tab, by scenario
  active,    \* activeId of each tab
  known,     \* the properties a tab knows to be durable (subjectKind)
  history,   \* the saved revisions a tab has seen (revisions)
  local,     \* the workspace in localStorage, shared by the tabs
  asked,     \* answers of /analyze on their way to a tab
  shown,     \* what result was calculated from
  preview,   \* the report shown
  pdf,       \* the PDF offered for download (pdfDownload)
  wait,      \* the operation a tab is busy with
  acts       \* what has been done so far

tabVars == <<draft, active, known, history, local, asked, shown, preview, pdf, wait>>
vars    == <<serverVars, tabVars, acts>>

NoDraft == [revision |-> 0, content |-> None, base |-> None, dirty |-> FALSE]

\* A scenario that has never been saved.
Unsaved(c) == [revision |-> 0, content |-> c, base |-> None, dirty |-> TRUE]

Draft   == [revision : 0..MaxRevision, content : Contents, base : Contents \cup {None},
            dirty : BOOLEAN]

\* lock: a report is made of what is saved (reportRequest); kind and key are those
\* of the closure, draft the scenario as the handler captured it, replaces the
\* draft it takes the place of.
Idle == [op |-> "idle", handler |-> None, scenario |-> None, draft |-> NoDraft,
         replaces |-> None, kind |-> None, key |-> None, lock |-> FALSE]

Open(t, s)  == draft[t][s] # NoDraft
Active(t)   == active[t] # None
Current(t)  == draft[t][active[t]]
Busy(t)     == wait[t].op # "idle"
Act         == acts < MaxActs /\ acts' = acts + 1

\* scenarioCalculationKey: notes and the revision are not part of it.
Key(s, d) == IF s = None THEN None ELSE <<s, Calculation[d.content]>>
CalcKey(t) == IF Active(t) THEN Key(active[t], Current(t)) ELSE None

\* An id nobody has seen yet (crypto.randomUUID).
Unused(s) ==
  /\ \A t \in Tabs : ~Open(t, s) /\ wait[t].scenario # s
  /\ local.draft[s] = NoDraft
  /\ Of(s) = {} /\ s \notin removed
  /\ \A h \in Handlers : call[h].scenario # s

\* The analysis stored with a saved revision, if it could be calculated.
SavedAnalysis(s, d) == IF ~d.dirty /\ d.content \in Complete THEN Key(s, d) ELSE None

\* A scenario as the server sends it.
Clean(r) == [revision |-> r.revision, content |-> r.content, base |-> r.content, dirty |-> FALSE]

\* What the tab asks for when it shows scenario s of the drafts ds.
Ask(s, ds) == IF s = None THEN {} ELSE {[key |-> Key(s, ds[s]), live |-> TRUE]}

\* Nobody has saved anything, or one scenario was saved earlier and every tab
\* has been opened and has calculated it since.
Init ==
  \E s \in Scenarios \cup {None} : \E c \in IF s = None THEN {None} ELSE Contents :
    LET first == IF s = None THEN {}
                 ELSE {[scenario |-> s, revision |-> 1, content |-> c, base |-> None]}
        ds == [x \in Scenarios |-> IF x = s THEN Clean(CHOOSE r \in first : TRUE) ELSE NoDraft]
        homes == {Home[r.scenario] : r \in first}
    IN /\ ServerInit(homes, first)
       /\ draft = [t \in Tabs |-> ds]
       /\ active = [t \in Tabs |-> s]
       /\ known = [t \in Tabs |-> homes]
       /\ history = [t \in Tabs |-> first]
       /\ local = [draft |-> ds, active |-> s]
       /\ asked = [t \in Tabs |-> {}]
       /\ shown = [t \in Tabs |-> IF s = None THEN None ELSE SavedAnalysis(s, ds[s])]
       /\ preview = [t \in Tabs |-> None]
       /\ pdf = [t \in Tabs |-> None]
       /\ wait = [t \in Tabs |-> Idle]
       /\ acts = 0

-----------------------------------------------------------------------------
(* Rendering.                                                              *)

\* Requests for an analysis that a newer one has overtaken (cancelled,
\* analysisRequest); their answers are on the way all the same.
Overtaken(t) == {[key |-> a.key, live |-> FALSE] : a \in asked[t]}

\* The drafts ds with scenario s active become the state of tab t, and the
\* workspace is written to localStorage.  When the calculation key has changed,
\* the effect shows the analysis of a clean scenario or nothing, clears the
\* preview and the PDF and asks for an analysis.
Show(t, ds, s, clear) ==
  LET changed == Key(s, ds[s]) # CalcKey(t)
  IN /\ draft' = [draft EXCEPT ![t] = ds]
     /\ active' = [active EXCEPT ![t] = s]
     /\ local' = [draft |-> ds, active |-> s]
     /\ shown' = [shown EXCEPT ![t] = IF changed THEN SavedAnalysis(s, ds[s]) ELSE @]
     /\ asked' = [asked EXCEPT ![t] =
                    IF changed THEN Overtaken(t) \cup Ask(s, ds) ELSE @]
     /\ preview' = [preview EXCEPT ![t] = IF changed \/ clear THEN None ELSE @]
     /\ pdf' = [pdf EXCEPT ![t] = IF changed THEN None ELSE @]

\* Mutant: an answer is shown although a newer request has overtaken it.
AnalyzedLate(t) ==
  \E a \in asked[t] :
    /\ asked' = [asked EXCEPT ![t] = @ \ {a}]
    /\ shown' = [shown EXCEPT ![t] =
                   IF \E c \in Complete : Calculation[c] = a.key[2] THEN a.key ELSE None]
    /\ UNCHANGED <<serverVars, draft, active, known, history, local, preview, pdf, wait, acts>>

\* The answer to the current request is shown; any other one is dropped.
Analyzed(t) ==
  \E a \in asked[t] :
    /\ asked' = [asked EXCEPT ![t] = @ \ {a}]
    /\ shown' = [shown EXCEPT ![t] =
                   IF ~a.live THEN @
                   ELSE IF \E c \in Complete : Calculation[c] = a.key[2] THEN a.key ELSE None]
    /\ UNCHANGED <<serverVars, draft, active, known, history, local, preview, pdf, wait, acts>>

-----------------------------------------------------------------------------
(* Editing.  Nothing in it waits for the server, and nothing is disabled   *)
(* while a save or a report is under way.                                  *)

Edits == UNCHANGED <<serverVars, known, history, wait>>

\* update(): the active draft is dirty from now on.
Edit(t, c) ==
  /\ Active(t) /\ c # Current(t).content /\ Act
  /\ Show(t, [draft[t] EXCEPT ![active[t]].content = c, ![active[t]].dirty = TRUE], active[t], TRUE)
  /\ Edits

\* newScenario(), blank or a copy of the current one.
NewScenario(t, s, c) ==
  /\ Unused(s) /\ Act
  /\ c = Blank \/ (Active(t) /\ Home[active[t]] = Home[s] /\ c = Current(t).content)
  /\ Show(t, [draft[t] EXCEPT ![s] = Unsaved(c)], s, TRUE)
  /\ Edits

\* chooseScenario() and open().
Choose(t, s) ==
  /\ Open(t, s) /\ s # active[t] /\ Act
  /\ Show(t, draft[t], s, TRUE)
  /\ Edits

\* What the server lists for a scenario: its latest revision.
Latest(s) == {r \in Of(s) : \A q \in Of(s) : q.revision <= r.revision}

\* Mutant: only what the server lists is kept.
HydratedFromServer ==
  [s \in Scenarios |-> IF Latest(s) = {} THEN NoDraft ELSE Clean(CHOOSE r \in Latest(s) : TRUE)]

\* The drafts after hydration: what is saved, except where a local draft has
\* unsaved changes or is of a scenario the server does not list.
Hydrated == [s \in Scenarios |->
               IF local.draft[s].dirty \/ Latest(s) = {} THEN local.draft[s]
               ELSE Clean(CHOOSE r \in Latest(s) : TRUE)]

\* The session of the tab expires while it has unsaved changes: it writes its own
\* workspace over whatever another tab has left in localStorage.
Checkpoint(t) ==
  /\ \E s \in Scenarios : draft[t][s].dirty
  /\ Act
  /\ local' = [draft |-> draft[t], active |-> active[t]]
  /\ UNCHANGED <<serverVars, draft, active, known, history, asked, shown, preview, pdf, wait>>

\* The tab is closed and opened again, or its user signs in again after the
\* session expired: whatever it waited for is forgotten, requests go on.
Reload(t) ==
  /\ Act
  /\ draft' = [draft EXCEPT ![t] = Hydrated]
  /\ active' = [active EXCEPT ![t] = local.active]
  /\ local' = [local EXCEPT !.draft = Hydrated]
  /\ known' = [known EXCEPT ![t] = {p \in Properties : IsSaved(p)}]
  /\ history' = [history EXCEPT ![t] = saved]
  /\ shown' = [shown EXCEPT ![t] =
                 IF local.active = None THEN None
                 ELSE SavedAnalysis(local.active, Hydrated[local.active])]
  /\ asked' = [asked EXCEPT ![t] = Ask(local.active, Hydrated)]
  /\ preview' = [preview EXCEPT ![t] = None] /\ pdf' = [pdf EXCEPT ![t] = None]
  /\ wait' = [wait EXCEPT ![t] = Idle]
  /\ UNCHANGED serverVars

-----------------------------------------------------------------------------
(* Saving.                                                                 *)

Server    == UNCHANGED <<documents, guards, past>>
Page      == UNCHANGED <<draft, active, local, shown, asked, preview>>
Waits(t, w) == wait' = [wait EXCEPT ![t] = w]
EndWait(t)  == Waits(t, Idle)

\* POST save of draft d as scenario s, which takes the place of draft r.
SendSave(t, h, s, d, r, lock) ==
  /\ call' = [call EXCEPT ![h] =
                 Request("save", "revisions", s, d.revision, d.content, d.base, None)]
  /\ Waits(t, [Idle EXCEPT !.op = "save", !.handler = h, !.scenario = s, !.draft = d,
                           !.replaces = r, !.lock = lock])

\* The next revision of the scenario, or a scenario of its own.
ChooseTarget(t, h, s, d, lock) ==
  \/ d.revision < MaxRevision /\ SendSave(t, h, s, d, None, lock)
  \/ d.revision > 0 /\ \E n \in Scenarios :
       /\ Unused(n) /\ Home[n] = Home[s]
       /\ SendSave(t, h, n, [d EXCEPT !.revision = 0, !.base = None], s, lock)

\* save(), or saveAndPreview() when lock holds: a property the tab does not
\* know to be saved is promoted first.  The draft is the one on the screen now,
\* whatever is edited while the request is under way.
Save(t, h, lock) ==
  /\ Active(t) /\ ~Busy(t) /\ Current(t).dirty /\ call[h].pc = "idle" /\ Act
  /\ lock => shown[t] # None
  /\ IF Home[active[t]] \in known[t]
     THEN ChooseTarget(t, h, active[t], Current(t), lock)
     ELSE /\ call' = [call EXCEPT ![h] =
                         Request("promote", "duplicates", active[t], 0, None, None, None)]
          /\ Waits(t, [Idle EXCEPT !.op = "promote", !.handler = h, !.scenario = active[t],
                                   !.draft = Current(t), !.lock = lock])
  /\ Server /\ Page /\ UNCHANGED <<known, history, pdf>>

\* The answer a tab waits for.
Gets(t, op, answers) == wait[t].op = op /\ call[wait[t].handler].pc \in answers

\* The property has been promoted, and the draft is saved.
Promoted(t) ==
  /\ Gets(t, "promote", {"promoted"})
  /\ known' = [known EXCEPT ![t] = @ \cup {Home[wait[t].scenario]}]
  /\ ChooseTarget(t, wait[t].handler, wait[t].scenario, wait[t].draft, wait[t].lock)
  /\ Server /\ Page /\ UNCHANGED <<history, pdf, acts>>

\* latestSaved(): what a draft that became a scenario of its own goes back to.
LatestSaved(t, s) ==
  LET mine == {r \in history[t] : r.scenario = s}
      last == {r \in mine : \A q \in mine : q.revision <= r.revision}
  IN IF last = {} THEN NoDraft ELSE Clean(CHOOSE r \in last : TRUE)

\* Mutant: the draft is marked clean and keeps what it shows.
CleanInPlace(t, r) ==
  [draft[t] EXCEPT ![r.scenario] =
     [Clean(r) EXCEPT !.content = IF Open(t, r.scenario) THEN Current(t).content ELSE r.content]]

\* The drafts after revision r was saved: what was saved takes the place of
\* what is in the tab by now.
AfterSave(t, r) ==
  LET back == wait[t].replaces
      rest == IF back = None THEN draft[t] ELSE [draft[t] EXCEPT ![back] = LatestSaved(t, back)]
  IN [rest EXCEPT ![r.scenario] = Clean(r)]

\* persistScenario() goes on; saveAndPreview() asks for the report of exactly
\* this revision.
Saved(t, k) ==
  /\ Gets(t, "save", {"saved"})
  /\ LET h == wait[t].handler
         r == NewRevision(h)
     IN /\ Show(t, AfterSave(t, r), r.scenario, FALSE)
        /\ history' = [history EXCEPT ![t] = @ \cup {r}]
        /\ IF wait[t].lock /\ r.content \in Complete
           THEN /\ call' = [call EXCEPT ![h] =
                     Request("html", "revisions", r.scenario, r.revision, None, None, k)]
                /\ Waits(t, [Idle EXCEPT !.op = "html", !.handler = h, !.kind = k, !.lock = TRUE])
           ELSE Free(h) /\ EndWait(t)
  /\ Server /\ UNCHANGED <<known, acts>>

-----------------------------------------------------------------------------
(* Reports.                                                                *)

\* previewReport() and generatePdf(): of a clean scenario, one at a time
\* (reportRequest).
AskReport(t, h, op, k) ==
  /\ Active(t) /\ ~Busy(t) /\ ~Current(t).dirty /\ call[h].pc = "idle" /\ Act
  /\ op = "pdf" => Current(t).content \in Complete
  /\ call' = [call EXCEPT ![h] =
       Request(op, IF op = "pdf" THEN "guard" ELSE "revisions", active[t],
               Current(t).revision, None, None, k)]
  /\ Waits(t, [Idle EXCEPT !.op = op, !.handler = h, !.kind = k, !.key = CalcKey(t), !.lock = TRUE])
  /\ pdf' = [pdf EXCEPT ![t] = IF op = "pdf" THEN None ELSE @]
  /\ Server /\ Page /\ UNCHANGED <<known, history>>

\* A report as the tab keeps it: what it shows, and of which revision.
Received(h) ==
  [scenario |-> call[h].scenario, revision |-> call[h].revision,
   content |-> call[h].content, kind |-> call[h].kind]

\* A preview is shown if the scenario that asked for it is still the one on the
\* screen; saveAndPreview() (no key) does not look.
Previewed(t) ==
  /\ Gets(t, "html", {"html"})
  /\ preview' = [preview EXCEPT ![t] =
       IF wait[t].key \in {None, CalcKey(t)} THEN Received(wait[t].handler) ELSE @]
  /\ Free(wait[t].handler) /\ EndWait(t)
  /\ Server /\ UNCHANGED <<draft, active, local, shown, asked, known, history, pdf, acts>>

GotPdf(t) ==
  /\ Gets(t, "pdf", {"pdf"})
  /\ pdf' = [pdf EXCEPT ![t] = Received(wait[t].handler)]
  /\ Free(wait[t].handler) /\ EndWait(t)
  /\ Server /\ Page /\ UNCHANGED <<known, history, acts>>

\* Every other answer is an error: the draft stays, the lock is released.
Refused(t) ==
  /\ Busy(t)
  /\ call[wait[t].handler].pc \in Answers \ {"promoted", "saved", "html", "pdf"}
  /\ Free(wait[t].handler) /\ EndWait(t)
  /\ Server /\ Page /\ UNCHANGED <<known, history, pdf, acts>>

\* The answer is lost on the way: an error for the tab, the request goes on.
LoseAnswer(t) ==
  /\ Busy(t) /\ EndWait(t) /\ Act
  /\ UNCHANGED <<serverVars, draft, active, local, shown, asked, preview, known, history, pdf>>

-----------------------------------------------------------------------------

Respond(t) ==
  \/ Promoted(t) \/ Previewed(t) \/ GotPdf(t) \/ Refused(t)
  \/ \E k \in Kinds : Saved(t, k)

Proceed(h) == Serve(h) /\ UNCHANGED <<tabVars, acts>>

\* Nobody waits for the answer.
Unheard(h) ==
  /\ Answered(h) /\ \A t \in Tabs : wait[t].handler # h
  /\ Free(h)
  /\ Server /\ UNCHANGED <<tabVars, acts>>

\* What users and managers decide to do.
UserActs ==
  \/ \E t \in Tabs, c \in Contents : Edit(t, c)
  \/ \E t \in Tabs, s \in Scenarios : Choose(t, s) \/ \E c \in Contents : NewScenario(t, s, c)
  \/ \E t \in Tabs, h \in Handlers, lock \in BOOLEAN : Save(t, h, lock)
  \/ \E t \in Tabs, h \in Handlers, op \in {"html", "pdf"}, k \in Kinds : AskReport(t, h, op, k)
  \/ \E t \in Tabs : Checkpoint(t) \/ Reload(t)
  \/ \E h \in Handlers, s \in Scenarios : Remove(h, s) /\ Act /\ UNCHANGED tabVars
  \/ Manage /\ Act /\ UNCHANGED tabVars

Next ==
  \/ UserActs
  \/ \E t \in Tabs : Respond(t) \/ Analyzed(t) \/ LoseAnswer(t)
  \/ \E h \in Handlers : Unheard(h) \/ Proceed(h) \/ (Throw(h) /\ Act /\ UNCHANGED tabVars)

Spec == Init /\ [][Next]_vars

-----------------------------------------------------------------------------
(* Properties.                                                             *)

TypeOK ==
  /\ ServerTypeOK
  /\ draft \in [Tabs -> [Scenarios -> Draft \cup {NoDraft}]]
  /\ active \in [Tabs -> Scenarios \cup {None}]
  /\ \A t \in Tabs : Active(t) => Open(t, active[t])
  /\ known \in [Tabs -> SUBSET Properties]
  /\ history \in [Tabs -> SUBSET Revision]
  /\ \A t \in Tabs : wait[t].handler \in Handlers \cup {None}
  /\ acts \in 0..MaxActs

\* What the screen says is saved is what the server has: a scenario without
\* unsaved changes shows the content of the stored revision with its number,
\* unless the scenario was removed or its property archived.
CleanIsStored ==
  \A t \in Tabs, s \in Scenarios :
    Open(t, s) /\ ~draft[t][s].dirty /\ Undisturbed(s)
    => \E r \in Stored(s, draft[t][s].revision) : r.content = draft[t][s].content

\* The analysis on the screen was calculated from the inputs on the screen.
ShownIsCurrent ==
  \A t \in Tabs : shown[t] # None => shown[t] = CalcKey(t)

\* A report on the screen or offered for download shows a stored revision, and
\* not what the draft has become.
ReportIsOfRevision ==
  \A t \in Tabs : \A d \in {preview[t], pdf[t]} \ {None} :
    d.scenario \notin removed => \E r \in Stored(d.scenario, d.revision) : r.content = d.content
=============================================================================
