-------------------------- MODULE SupportingDocuments --------------------------
(***************************************************************************)
(* Supporting documents of a property, their versions and the private      *)
(* files: investment-workspace/supporting-documents.js with the Firestore  *)
(* repository and the storage of firebase-supporting-documents.js.         *)
(*                                                                         *)
(* A handler interleaves with the others at every await; a Firestore       *)
(* transaction and a storage call are one step each.  The review status,   *)
(* the confidentiality, the permission and the selection that together     *)
(* admit a version to reports are one truth value, included.               *)
(***************************************************************************)
EXTENDS Integers, FiniteSets

CONSTANTS
  Documents,    \* document ids
  Contents,     \* file contents (sha256)
  Handlers,     \* requests that can be served at once
  MaxVersion,   \* bound on the versions of a document
  MaxRequests,  \* bound on the requests
  MaxMishaps,   \* bound on throws, lost handlers and failed clean-ups
  None          \* no document, no content

ASSUME DocumentsAssumption == None \notin Documents \cup Contents
ASSUME BoundsAssumption    == MaxVersion \in Nat \ {0} /\ {MaxRequests, MaxMishaps} \subseteq Nat

VARIABLES
  parent,    \* supportingDocuments: current version (0: none) and its rights
  versions,  \* versions subcollections
  reserved,  \* documentHashes
  files,     \* objects in the private storage
  call,      \* what each handler is doing
  stranded,  \* auxiliary: objects whose upload failed and was not cleaned up
  unread,    \* auxiliary: objects removed after their version was committed
  reviewed,  \* auxiliary: versions somebody decided to include in reports
  requests, mishaps  \* what has been done so far

catalog   == <<parent, versions, reserved>>
history   == <<stranded, unread, reviewed>>
documentVars == <<catalog, files, history>>

Absent  == [current |-> 0, included |-> FALSE]
Parent  == [current : 0..MaxVersion, included : BOOLEAN]
Version == [doc : Documents, version : 1..MaxVersion, content : Contents, included : BOOLEAN]

\* storageKey; the hash reservation names the same three things.
Key(r) == <<r.doc, r.version, r.content>>
Keys   == Documents \X (1..MaxVersion) \X Contents

NoCall == [op |-> "idle", pc |-> "idle", doc |-> None, version |-> 0, content |-> None,
           fresh |-> FALSE, patch |-> None, prior |-> Absent,
           report |-> None, viewer |-> None, listed |-> {}]

\* The versions rs, the current one of each document, were uploaded before.
DocumentsInit(rs) ==
  /\ parent = [d \in Documents |->
       IF \E r \in rs : r.doc = d
       THEN LET r == CHOOSE r \in rs : r.doc = d
            IN [current |-> r.version, included |-> r.included]
       ELSE Absent]
  /\ versions = rs
  /\ reserved = {Key(r) : r \in rs} /\ files = {Key(r) : r \in rs}
  /\ call = [h \in Handlers |-> NoCall]
  /\ stranded = {} /\ unread = {}
  /\ reviewed = {<<r.doc, r.version>> : r \in {x \in rs : x.included}}
  /\ requests = 0 /\ mishaps = 0

-----------------------------------------------------------------------------

\* A request reaches an idle handler.
Receive(h, request) ==
  /\ call[h] = NoCall
  /\ requests < MaxRequests /\ requests' = requests + 1
  /\ call' = [call EXCEPT ![h] = request]
  /\ UNCHANGED mishaps

At(h, ops, pc) == call[h].op \in ops /\ call[h].pc = pc
Goto(h, pc)    == call' = [call EXCEPT ![h].pc = pc]
End(h)         == call' = [call EXCEPT ![h] = NoCall]
Counted        == UNCHANGED <<requests, mishaps>>
Mishap         == mishaps < MaxMishaps /\ mishaps' = mishaps + 1 /\ UNCHANGED requests

-----------------------------------------------------------------------------
(* hydrate(): a document is read in two steps, first its record, then its  *)
(* versions.  The rights of the record must be those of the current        *)
(* version.                                                                *)

OldParent(h) == [call EXCEPT ![h].prior = parent[call[h].doc], ![h].pc = "versions"]

\* A report passes over a document that is absent; other requests end.
ReadParent(h) ==
  /\ At(h, {"upload", "update", "report"}, "parent")
  /\ IF parent[call[h].doc] # Absent THEN call' = OldParent(h)
     ELSE IF call[h].op = "report"
     THEN call' = [call EXCEPT ![h].version = 0, ![h].pc = "link"]
     ELSE End(h)
  /\ Counted /\ UNCHANGED documentVars

\* Version n of the document, as it is stored now.
Stored(d, n) == {r \in versions : r.doc = d /\ r.version = n}

Consistent(h) ==
  \E r \in Stored(call[h].doc, call[h].prior.current) : r.included = call[h].prior.included

-----------------------------------------------------------------------------
(* Upload of a new document or of the next version of one.                 *)

\* An id nobody has seen yet (randomUUID).
Unused(d) ==
  /\ parent[d] = Absent /\ \A h \in Handlers : call[h].doc # d
  /\ \A k \in files : k[1] # d

Upload(h, d, c, fresh) ==
  /\ IF fresh THEN Unused(d) ELSE parent[d].current \in 1..MaxVersion - 1
  /\ Receive(h, [NoCall EXCEPT !.op = "upload", !.pc = "duplicate", !.doc = d,
                               !.content = c, !.fresh = fresh])
  /\ UNCHANGED documentVars

\* Mutant: the first version has the number of no version.
FindDuplicateZero(h) ==
  /\ At(h, {"upload"}, "duplicate")
  /\ IF \E k \in reserved : k[3] = call[h].content THEN End(h)
     ELSE Goto(h, IF call[h].fresh THEN "put" ELSE "parent")
  /\ Counted /\ UNCHANGED documentVars

\* The file has been inspected and scanned; its content must be new.
FindDuplicate(h) ==
  /\ At(h, {"upload"}, "duplicate")
  /\ IF \E k \in reserved : k[3] = call[h].content THEN End(h)
     ELSE IF call[h].fresh
     THEN call' = [call EXCEPT ![h].version = 1, ![h].pc = "put"]
     ELSE Goto(h, "parent")
  /\ Counted /\ UNCHANGED documentVars

NumberVersion(h) ==
  /\ At(h, {"upload"}, "versions")
  /\ IF Consistent(h)
     THEN /\ call[h].prior.current < MaxVersion
          /\ call' = [call EXCEPT ![h].version = call[h].prior.current + 1, ![h].pc = "put"]
     ELSE End(h)
  /\ Counted /\ UNCHANGED documentVars

\* Mutant: an object with this key is overwritten.
PutOver(h) ==
  /\ At(h, {"upload"}, "put")
  /\ files' = files \cup {Key(call[h])} /\ Goto(h, "create")
  /\ Counted /\ UNCHANGED <<catalog, history>>

\* ifGenerationMatch 0: the object must not exist.  The call is outside the try
\* block, so a failure removes nothing.
Put(h) ==
  /\ At(h, {"upload"}, "put")
  /\ IF Key(call[h]) \in files
     THEN End(h) /\ UNCHANGED files
     ELSE files' = files \cup {Key(call[h])} /\ Goto(h, "create")
  /\ Counted /\ UNCHANGED <<catalog, history>>

\* The object was stored, but the answer says otherwise.
LosePut(h) ==
  /\ At(h, {"upload"}, "put") /\ Key(call[h]) \notin files
  /\ files' = files \cup {Key(call[h])} /\ stranded' = stranded \cup {Key(call[h])}
  /\ End(h) /\ Mishap /\ UNCHANGED <<catalog, unread, reviewed>>

\* What the transaction of createVersion finds in its way.
Taken(h) ==
  LET c == call[h]
  IN \/ \E k \in reserved : k[3] = c.content
     \/ Stored(c.doc, c.version) # {}
     \/ (c.version = 1) # (parent[c.doc] = Absent)

\* Mutant: a new version keeps the rights of the one before it.
CreateWithRights(h) ==
  /\ At(h, {"upload"}, "create")
  /\ LET c == call[h]
     IN IF Taken(h)
        THEN Goto(h, "remove") /\ UNCHANGED catalog
        ELSE /\ parent' = [parent EXCEPT ![c.doc] = [current |-> c.version, included |-> c.prior.included]]
             /\ versions' = versions \cup {[doc |-> c.doc, version |-> c.version,
                                            content |-> c.content, included |-> c.prior.included]}
             /\ reserved' = reserved \cup {Key(c)}
             /\ Goto(h, "backParent")
  /\ Counted /\ UNCHANGED <<files, history>>

\* createVersion(): record, version and hash reservation in one transaction.  A
\* new version is not in reports.
CreateVersion(h) ==
  /\ At(h, {"upload"}, "create")
  /\ LET c == call[h]
     IN IF Taken(h)
        THEN Goto(h, "remove") /\ UNCHANGED catalog
        ELSE /\ parent' = [parent EXCEPT ![c.doc] = [current |-> c.version, included |-> FALSE]]
             /\ versions' = versions \cup {[doc |-> c.doc, version |-> c.version,
                                            content |-> c.content, included |-> FALSE]}
             /\ reserved' = reserved \cup {Key(c)}
             /\ Goto(h, "backParent")
  /\ Counted /\ UNCHANGED <<files, history>>

\* createVersion() reads the document back, still inside the try block.
ReadBackParent(h) ==
  /\ At(h, {"upload"}, "backParent")
  /\ call' = [OldParent(h) EXCEPT ![h].pc = "backVersions"]
  /\ Counted /\ UNCHANGED documentVars

\* An update between the two reads makes them differ.  What follows (the audit
\* entry, another read) changes nothing any more.
ReadBackVersions(h) ==
  /\ At(h, {"upload"}, "backVersions")
  /\ IF Consistent(h) THEN End(h) ELSE Goto(h, "remove")
  /\ Counted /\ UNCHANGED documentVars

\* The catch clause: the object is removed, whatever the error was; a failure
\* to remove it is ignored.
CleanUp(h) ==
  /\ At(h, {"upload"}, "remove")
  /\ LET committed == {k \in {Key(call[h])} : k \in {Key(r) : r \in versions}}
     IN \/ /\ files' = files \ {Key(call[h])} /\ unread' = unread \cup committed
           /\ Counted /\ UNCHANGED stranded
        \/ /\ stranded' = stranded \cup ({Key(call[h])} \ committed)
           /\ Mishap /\ UNCHANGED <<files, unread>>
  /\ End(h) /\ UNCHANGED <<catalog, reviewed>>

-----------------------------------------------------------------------------
(* update(): a change of the metadata includes the current version in      *)
(* reports, excludes it or keeps its rights.                               *)

Update(h, d, patch) ==
  /\ parent[d] # Absent
  /\ Receive(h, [NoCall EXCEPT !.op = "update", !.pc = "parent", !.doc = d, !.patch = patch])
  /\ UNCHANGED documentVars

CheckUpdate(h) ==
  /\ At(h, {"update"}, "versions")
  /\ IF Consistent(h) THEN Goto(h, "write") ELSE End(h)
  /\ Counted /\ UNCHANGED documentVars

NewRights(h) == IF call[h].patch = "keep" THEN call[h].prior.included ELSE call[h].patch = "include"

\* Mutant: the rights are written to the record only.
UpdateParent(h) ==
  /\ At(h, {"update"}, "write")
  /\ LET d == call[h].doc
         n == call[h].prior.current
     IN IF parent[d].current # n
        THEN UNCHANGED <<catalog, reviewed>>
        ELSE /\ parent' = [parent EXCEPT ![d].included = NewRights(h)]
             /\ reviewed' = IF call[h].patch = "include" THEN reviewed \cup {<<d, n>>} ELSE reviewed
             /\ UNCHANGED <<versions, reserved>>
  /\ End(h) /\ Counted /\ UNCHANGED <<files, stranded, unread>>

\* The transaction: unless there is a newer version, the rights are written to
\* the record and to the version.
UpdateRights(h) ==
  /\ At(h, {"update"}, "write")
  /\ LET d == call[h].doc
         n == call[h].prior.current
     IN IF parent[d].current # n
        THEN UNCHANGED <<catalog, reviewed>>
        ELSE /\ parent' = [parent EXCEPT ![d].included = NewRights(h)]
             /\ versions' = (versions \ Stored(d, n))
                  \cup {[r EXCEPT !.included = NewRights(h)] : r \in Stored(d, n)}
             /\ reviewed' = IF call[h].patch = "include" THEN reviewed \cup {<<d, n>>} ELSE reviewed
             /\ UNCHANGED reserved
  /\ End(h) /\ Counted /\ UNCHANGED <<files, stranded, unread>>

-----------------------------------------------------------------------------
(* Mishaps.                                                                *)

\* An await throws (a scan may also refuse the file).  After the object has been
\* stored the catch clause is next.
Throw(h) ==
  /\ call[h].op \in {"upload", "update"}
  /\ IF call[h].pc \in {"create", "backParent", "backVersions"} THEN Goto(h, "remove")
                                                               ELSE call[h].pc # "remove" /\ End(h)
  /\ Mishap /\ UNCHANGED documentVars

\* The function instance is lost (a crash, a time limit).
Lose(h) ==
  /\ call[h].op \in {"upload", "update"}
  /\ stranded' = IF call[h].pc \in {"create", "remove"} /\ \A r \in versions : Key(r) # Key(call[h])
                 THEN stranded \cup {Key(call[h])} ELSE stranded
  /\ End(h) /\ Mishap /\ UNCHANGED <<catalog, files, unread, reviewed>>

DocumentRequests(h) ==
  \E d \in Documents :
    \/ \E c \in Contents, fresh \in BOOLEAN : Upload(h, d, c, fresh)
    \/ \E patch \in {"include", "exclude", "keep"} : Update(h, d, patch)

DocumentSteps(h) ==
  \/ ReadParent(h)
  \/ FindDuplicate(h) \/ NumberVersion(h) \/ Put(h) \/ LosePut(h) \/ CreateVersion(h)
  \/ ReadBackParent(h) \/ ReadBackVersions(h) \/ CleanUp(h)
  \/ CheckUpdate(h) \/ UpdateRights(h)
  \/ Throw(h) \/ Lose(h)

-----------------------------------------------------------------------------
(* Properties.                                                             *)

DocumentsTypeOK ==
  /\ parent \in [Documents -> Parent]
  /\ versions \subseteq Version
  /\ reserved \subseteq Keys /\ files \subseteq Keys
  /\ stranded \subseteq Keys /\ unread \subseteq Keys
  /\ reviewed \subseteq Documents \X (1..MaxVersion)
  /\ requests \in 0..MaxRequests /\ mishaps \in 0..MaxMishaps

\* Every version has its file, unless the clean-up of an upload that had already
\* been committed removed it; every file has its version, is being uploaded, or
\* is known to have been left behind by a failure.
FilesAccounted ==
  /\ \A r \in versions : Key(r) \in files \cup unread
  /\ \A k \in files :
       \/ \E r \in versions : Key(r) = k
       \/ \E h \in Handlers : call[h].pc \in {"create", "remove"} /\ Key(call[h]) = k
       \/ k \in stranded

\* The record of a document names its highest version and carries its rights, and
\* every content is reserved by exactly one version.
CatalogConsistent ==
  /\ \A d \in Documents : parent[d] # Absent =>
       /\ \E r \in versions :
            r.doc = d /\ r.version = parent[d].current /\ r.included = parent[d].included
       /\ \A r \in versions : r.doc = d => r.version <= parent[d].current
  /\ reserved = {Key(r) : r \in versions}
  /\ \A r, q \in versions : r.content = q.content => r = q

\* What docs/PI_V2_5_SUPPORTING_DOCUMENTS.md says of versions: the object of a
\* version is never removed.
VersionsKeepTheirFile == \A r \in versions : Key(r) \in files
=============================================================================
