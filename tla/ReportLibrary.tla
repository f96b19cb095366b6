----------------------------- MODULE ReportLibrary -----------------------------
(***************************************************************************)
(* Full reports of a property, with the supporting documents they show,    *)
(* and the library of finalized reports: the report route and the report   *)
(* removal of auth/netlify-auth.js, with commercial-service.js (manifests  *)
(* and grants), durable-properties.js (links) and the private storage of   *)
(* report files.  Composed with SupportingDocuments.                       *)
(***************************************************************************)
EXTENDS SupportingDocuments

CONSTANTS
  Reports,   \* ids of linked reports
  Viewers    \* members who can be granted a report

ASSUME ReportsAssumption == None \notin Reports \cup Viewers

VARIABLES
  links,       \* reportRevisions of the property
  stored,      \* report files
  manifests,   \* generatedReports
  grants,      \* ACTIVE documents of reportAccess
  issued,      \* auxiliary: the reports that have been linked at some time
  shown,       \* auxiliary: the document versions linked reports contain
  unfinished,  \* auxiliary: reports removed, or given up, before they were registered
  raced        \* auxiliary: reports granted while they were being removed

libraryVars == <<links, stored, manifests, grants, issued, shown, unfinished, raced>>
vars == <<documentVars, call, requests, mishaps, libraryVars>>

\* Report r, if it is one, was finalized earlier and granted to the viewers ws.
LibraryInit(r, ws) ==
  /\ issued = {r} \ {None}
  /\ links = issued /\ stored = issued /\ manifests = issued
  /\ grants = issued \X ws
  /\ shown = {} /\ unfinished = {} /\ raced = {}

\* Nothing is there, or a reviewed document with one version, or a report.
Init ==
  \E d \in Documents, c \in Contents, r \in Reports, ws \in SUBSET Viewers :
    \/ DocumentsInit({}) /\ LibraryInit(None, {})
    \/ DocumentsInit({[doc |-> d, version |-> 1, content |-> c, included |-> TRUE]})
       /\ LibraryInit(None, {})
    \/ DocumentsInit({}) /\ LibraryInit(r, ws)

-----------------------------------------------------------------------------
(* A full report.                                                          *)

\* The scenario refers to version n of a document, or (n = 0) to none, and then
\* every document is shown in its current version.
Report(h, d, n) ==
  /\ Receive(h, [NoCall EXCEPT !.op = "report", !.pc = "parent", !.doc = d, !.version = n])
  /\ UNCHANGED <<documentVars, libraryVars>>

Wanted(h) == IF call[h].version = 0 THEN call[h].prior.current ELSE call[h].version

\* reportDocuments(): the document is shown if the wanted version has the rights.
Select(h) ==
  /\ At(h, {"report"}, "versions")
  /\ IF ~Consistent(h) \/ Stored(call[h].doc, Wanted(h)) = {} THEN End(h)
     ELSE \E r \in Stored(call[h].doc, Wanted(h)) :
            call' = [call EXCEPT ![h].pc = IF r.included THEN "fetch" ELSE "link",
                                 ![h].version = IF r.included THEN r.version ELSE 0,
                                 ![h].content = r.content]
  /\ Counted /\ UNCHANGED <<documentVars, libraryVars>>

\* The bytes of the version; a report without them fails.
Fetch(h) ==
  /\ At(h, {"report"}, "fetch")
  /\ IF Key(call[h]) \in files THEN Goto(h, "link") ELSE End(h)
  /\ Counted /\ UNCHANGED <<documentVars, libraryVars>>

\* linkReport().  A report that was not finalized is answered now; a finalized
\* one is kept.
Link(h) ==
  /\ At(h, {"report"}, "link")
  /\ \E r \in Reports \ issued :
       /\ issued' = issued \cup {r} /\ links' = links \cup {r}
       /\ \/ End(h)
          \/ call' = [call EXCEPT ![h].pc = "store", ![h].report = r]
  /\ shown' = IF call[h].version = 0 THEN shown
              ELSE shown \cup {<<call[h].doc, call[h].version>>}
  /\ Counted /\ UNCHANGED <<documentVars, stored, manifests, grants, unfinished, raced>>

StoreReport(h) ==
  /\ At(h, {"report"}, "store")
  /\ stored' = stored \cup {call[h].report} /\ Goto(h, "register")
  /\ Counted /\ UNCHANGED <<documentVars, links, manifests, grants, issued, shown, unfinished, raced>>

RegisterReport(h) ==
  /\ At(h, {"report"}, "register")
  /\ manifests' = manifests \cup {call[h].report} /\ End(h)
  /\ Counted /\ UNCHANGED <<documentVars, links, stored, grants, issued, shown, unfinished, raced>>

-----------------------------------------------------------------------------
(* Grants.  A grant reads the manifest and is written later; a revocation  *)
(* reads the grant only to know whether there is one, and is one step.     *)

Grant(h, r, w) ==
  /\ r \in issued
  /\ Receive(h, [NoCall EXCEPT !.op = "grant", !.pc = "manifest", !.report = r, !.viewer = w])
  /\ UNCHANGED <<documentVars, libraryVars>>

CheckManifest(h) ==
  /\ At(h, {"grant"}, "manifest")
  /\ IF call[h].report \in manifests THEN Goto(h, "grant") ELSE End(h)
  /\ Counted /\ UNCHANGED <<documentVars, libraryVars>>

\* A removal of report r has listed the grants and not yet finished.
Revoking(r) == \E k \in Handlers : At(k, {"remove"}, "revoke") /\ call[k].report = r

WriteGrant(h) ==
  /\ At(h, {"grant"}, "grant")
  /\ LET r == call[h].report
     IN /\ grants' = grants \cup {<<r, call[h].viewer>>}
        /\ raced' = IF Revoking(r) \/ r \notin manifests THEN raced \cup {r} ELSE raced
  /\ End(h)
  /\ Counted /\ UNCHANGED <<documentVars, links, stored, manifests, issued, shown, unfinished>>

Revoke(r, w) ==
  /\ <<r, w>> \in grants
  /\ requests < MaxRequests /\ requests' = requests + 1
  /\ grants' = grants \ {<<r, w>>}
  /\ UNCHANGED <<documentVars, call, mishaps, links, stored, manifests, issued, shown, unfinished, raced>>

-----------------------------------------------------------------------------
(* Removal of a report.                                                    *)

Remove(h, r) ==
  /\ r \in links
  /\ Receive(h, [NoCall EXCEPT !.op = "remove", !.pc = "registered", !.report = r])
  /\ UNCHANGED <<documentVars, libraryVars>>

Registering(r) == \E k \in Handlers : call[k].op = "report" /\ call[k].report = r

\* removeReport() of the service does nothing for a report without a manifest.
FindManifest(h) ==
  /\ At(h, {"remove"}, "registered")
  /\ LET r == call[h].report
     IN IF r \in manifests THEN Goto(h, "file") /\ UNCHANGED unfinished
        ELSE /\ Goto(h, "unlink")
             /\ unfinished' = IF Registering(r) THEN unfinished \cup {r} ELSE unfinished
  /\ Counted /\ UNCHANGED <<documentVars, links, stored, manifests, grants, issued, shown, raced>>

RemoveFile(h) ==
  /\ At(h, {"remove"}, "file")
  /\ stored' = stored \ {call[h].report} /\ Goto(h, "list")
  /\ Counted /\ UNCHANGED <<documentVars, links, manifests, grants, issued, shown, unfinished, raced>>

ListGrants(h) ==
  /\ At(h, {"remove"}, "list")
  /\ call' = [call EXCEPT ![h].pc = "revoke",
                          ![h].listed = {w \in Viewers : <<call[h].report, w>> \in grants}]
  /\ Counted /\ UNCHANGED <<documentVars, libraryVars>>

\* One grant after the other.
RevokeListed(h) ==
  /\ At(h, {"remove"}, "revoke")
  /\ \E w \in call[h].listed :
       /\ grants' = grants \ {<<call[h].report, w>>}
       /\ call' = [call EXCEPT ![h].listed = @ \ {w}]
  /\ Counted /\ UNCHANGED <<documentVars, links, stored, manifests, issued, shown, unfinished, raced>>

\* Mutant: the manifest goes before the grants.
DeleteManifestEarly(h) ==
  /\ At(h, {"remove"}, "revoke")
  /\ manifests' = manifests \ {call[h].report}
  /\ IF call[h].listed = {} THEN Goto(h, "unlink") ELSE UNCHANGED call
  /\ Counted /\ UNCHANGED <<documentVars, links, stored, grants, issued, shown, unfinished, raced>>

DeleteManifest(h) ==
  /\ At(h, {"remove"}, "revoke") /\ call[h].listed = {}
  /\ manifests' = manifests \ {call[h].report} /\ Goto(h, "unlink")
  /\ Counted /\ UNCHANGED <<documentVars, links, stored, grants, issued, shown, unfinished, raced>>

\* The link goes last, so that a removal that failed can be asked for again.
Unlink(h) ==
  /\ At(h, {"remove"}, "unlink")
  /\ links' = links \ {call[h].report} /\ End(h)
  /\ Counted /\ UNCHANGED <<documentVars, stored, manifests, grants, issued, shown, unfinished, raced>>

-----------------------------------------------------------------------------

\* An await throws or the instance is lost, with or without the effect of the
\* step that was under way.
GiveUp(h) ==
  /\ call[h].op \in {"report", "grant", "remove"}
  /\ unfinished' = IF At(h, {"report"}, "register") THEN unfinished \cup {call[h].report}
                                                    ELSE unfinished
  /\ End(h) /\ Mishap
  /\ UNCHANGED <<documentVars, links, stored, manifests, grants, issued, shown, raced>>

LibraryRequests(h) ==
  \/ \E d \in Documents, n \in 0..MaxVersion : Report(h, d, n)
  \/ \E r \in Reports, w \in Viewers : Grant(h, r, w)
  \/ \E r \in Reports : Remove(h, r)

LibrarySteps(h) ==
  \/ Select(h) \/ Fetch(h) \/ Link(h) \/ StoreReport(h) \/ RegisterReport(h)
  \/ CheckManifest(h) \/ WriteGrant(h)
  \/ FindManifest(h) \/ RemoveFile(h) \/ ListGrants(h) \/ RevokeListed(h)
  \/ DeleteManifest(h) \/ Unlink(h)
  \/ GiveUp(h)

Next ==
  \/ \E h \in Handlers :
       \/ (DocumentRequests(h) \/ DocumentSteps(h)) /\ UNCHANGED libraryVars
       \/ LibraryRequests(h) \/ LibrarySteps(h)
  \/ \E r \in Reports, w \in Viewers : Revoke(r, w)

Spec == Init /\ [][Next]_vars

-----------------------------------------------------------------------------
(* Properties.                                                             *)

TypeOK ==
  /\ DocumentsTypeOK
  /\ links \subseteq issued /\ stored \subseteq issued /\ manifests \subseteq issued
  /\ issued \subseteq Reports
  /\ grants \subseteq issued \X Viewers
  /\ shown \subseteq Documents \X (1..MaxVersion)
  /\ unfinished \subseteq issued /\ raced \subseteq issued

\* An approval is given to one version and not inherited by the next: what is in
\* reports, or was put into one, was included as the version it is.
ReportsShowReviewed ==
  /\ \A r \in versions : r.included => <<r.doc, r.version>> \in reviewed
  /\ shown \subseteq reviewed

\* A report removed from the workspace is gone for everybody: no file, manifest
\* or active grant is left, however its removal failed and was repeated, unless
\* it was removed before its registration was finished or granted meanwhile.
AccessEndsWithReport ==
  \A r \in issued \ (links \cup unfinished) :
    /\ r \notin stored \cup manifests
    /\ r \notin raced => \A w \in Viewers : <<r, w>> \notin grants
=============================================================================
