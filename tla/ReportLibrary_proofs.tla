-------------------------- MODULE ReportLibrary_proofs --------------------------
(***************************************************************************)
(* Proofs about ReportLibrary and SupportingDocuments, for any number of   *)
(* documents, reports, viewers and requests at once.                       *)
(*                                                                         *)
(* The inductive invariant has two halves.  CatalogInv follows an upload   *)
(* from the object it stores to the version it commits: nobody else has    *)
(* the object of an upload, and the versions of a document are numbered    *)
(* without a gap.  LibraryInv follows a report from its link to its        *)
(* removal: once it is out of the hands of the request that made it,       *)
(* nothing brings its file or manifest back, and while its grants are      *)
(* being revoked, the list that was read names all that are left.          *)
(***************************************************************************)
EXTENDS ReportLibrary, TLAPS

-----------------------------------------------------------------------------
(* Documents.                                                              *)

CallType ==
  [op : {"idle", "upload", "update", "report", "grant", "remove"},
   pc : {"idle", "duplicate", "parent", "versions", "put", "create", "backParent",
         "backVersions", "remove", "write", "fetch", "link", "store", "register",
         "manifest", "grant", "registered", "file", "list", "revoke", "unlink"},
   doc : Documents \cup {None}, version : 0..MaxVersion, content : Contents \cup {None},
   fresh : BOOLEAN, patch : {None, "include", "exclude", "keep"}, prior : Parent,
   report : Reports \cup {None}, viewer : Viewers \cup {None}, listed : SUBSET Viewers]

\* The upload has stored its object, and has neither ended nor cleaned up.
Uploading == {"create", "backParent", "backVersions", "remove"}

\* An upload is about a document and a content; its version follows the one it
\* read, and from Put on its object is there.
UploadOK(j) ==
  /\ j.op = "upload" => /\ j.doc \in Documents /\ j.content \in Contents
                        /\ j.prior.current <= parent[j.doc].current
  /\ j.pc = "duplicate" => j.prior = Absent
  /\ j.pc \in {"put"} \cup Uploading => j.op = "upload" /\ j.version # 0
  /\ j.pc \in {"put", "create"} => j.version = j.prior.current + 1
  /\ j.pc \in Uploading => Key(j) \in files

\* The rights an update keeps, and what a report shows, were decided for the same
\* version.
ReviewOK(j) ==
  /\ j.op \in {"update", "report"} => j.doc \in Documents
  /\ j.op = "update" /\ j.pc = "write" =>
       /\ j.prior.current # 0
       /\ j.prior.included => <<j.doc, j.prior.current>> \in reviewed
  /\ j.op = "report" /\ j.pc \in {"fetch", "link"} /\ j.version # 0 =>
       <<j.doc, j.version>> \in reviewed

\* No two uploads have stored the same object.
UploadsApart ==
  \A g, h \in Handlers :
    call[g].pc \in Uploading /\ call[h].pc \in Uploading /\ Key(call[g]) = Key(call[h]) => g = h

\* The versions of a document are numbered from 1 to its current one.
NoGaps ==
  /\ \A d \in Documents : parent[d].current = 0 => parent[d] = Absent
  /\ \A d \in Documents : \A n \in 1..parent[d].current :
       \E r \in versions : r.doc = d /\ r.version = n
  /\ \A r \in versions : r.version <= parent[r.doc].current

CatalogInv ==
  /\ DocumentsTypeOK /\ call \in [Handlers -> CallType]
  /\ \A h \in Handlers : UploadOK(call[h]) /\ ReviewOK(call[h])
  /\ UploadsApart /\ NoGaps
  /\ FilesAccounted /\ CatalogConsistent /\ ReportsShowReviewed

-----------------------------------------------------------------------------
(* Reports.                                                                *)

\* The report a request is making.
Making(j) == IF j.op = "report" THEN j.report ELSE None

BeingMade == {Making(call[h]) : h \in Handlers} \ {None}

\* A report is made by one request, from its link on; grants and removals are of
\* reports that were linked.
ServesReport(j) ==
  /\ j.op = "idle" => j = NoCall
  /\ j.op = "report" => IF j.pc \in {"store", "register"} THEN j.report \in issued
                                                          ELSE j.report = None
  /\ j.op = "report" /\ j.pc = "store" => j.report \notin stored
  /\ j.op = "grant" => j.report \in issued /\ j.viewer \in Viewers
  /\ j.op = "remove" => j.report \in issued

\* A removal past its first step finds nobody making the report any more, or has
\* noted that it was unfinished; the grants it has listed are all that are left.
RemovalOK(j) ==
  j.op = "remove" =>
    /\ j.pc \in {"file", "list", "revoke"} => j.report \notin BeingMade
    /\ j.pc \in {"list", "revoke"} => j.report \notin stored
    /\ j.pc = "revoke" /\ j.report \notin raced =>
         \A w \in Viewers : <<j.report, w>> \in grants => w \in j.listed
    /\ j.pc = "unlink" /\ j.report \notin unfinished =>
         j.report \notin stored \cup manifests \cup BeingMade

OneMaker ==
  \A g, h \in Handlers :
    Making(call[g]) = Making(call[h]) /\ Making(call[g]) # None => g = h

\* What each report has left behind.
ReportsTracked ==
  /\ manifests \cap BeingMade = {}
  /\ \A r \in issued \ (manifests \cup unfinished) : r \in stored => r \in BeingMade
  /\ \A r \in issued \ (manifests \cup raced) : \A w \in Viewers : <<r, w>> \notin grants
  /\ \A r \in issued \ (links \cup unfinished) : r \notin stored \cup manifests \cup BeingMade

LibraryType ==
  /\ links \subseteq issued /\ stored \subseteq issued /\ manifests \subseteq issued
  /\ issued \subseteq Reports
  /\ grants \subseteq issued \X Viewers
  /\ unfinished \subseteq issued /\ raced \subseteq issued

LibraryInv ==
  /\ LibraryType
  /\ \A h \in Handlers : ServesReport(call[h]) /\ RemovalOK(call[h])
  /\ OneMaker /\ ReportsTracked

-----------------------------------------------------------------------------
(* The documents: one step at a time.                                      *)

\* Changing fields of one element is changing the element.
LEMMA OnlyPlace ==
  ASSUME NEW T, NEW f \in [Handlers -> T], NEW h \in Handlers, NEW pc, NEW r,
         r = [f[h] EXCEPT !.pc = pc]
  PROVE  [f EXCEPT ![h].pc = pc] = [f EXCEPT ![h] = r]
OBVIOUS

LEMMA VersionAndPlace ==
  ASSUME NEW T, NEW f \in [Handlers -> T], NEW h \in Handlers, NEW n, NEW pc, NEW r,
         r = [f[h] EXCEPT !.version = n, !.pc = pc]
  PROVE  [f EXCEPT ![h].version = n, ![h].pc = pc] = [f EXCEPT ![h] = r]
OBVIOUS

LEMMA PriorAndPlace ==
  ASSUME NEW T, NEW f \in [Handlers -> T], NEW h \in Handlers, NEW p, NEW pc, NEW r,
         r = [f[h] EXCEPT !.prior = p, !.pc = pc]
  PROVE  [f EXCEPT ![h].prior = p, ![h].pc = pc] = [f EXCEPT ![h] = r]
OBVIOUS

\* What the upload read of its document before, it reads again.
LEMMA ParentReadBack ==
  ASSUME call \in [Handlers -> CallType], NEW h \in Handlers, ReadBackParent(h),
         NEW p, p = parent[call[h].doc],
         NEW r, r = [call[h] EXCEPT !.prior = p, !.pc = "backVersions"]
  PROVE  call' = [call EXCEPT ![h] = r]
BY DEF ReadBackParent, OldParent, CallType

LEMMA PlaceAndList ==
  ASSUME NEW T, NEW f \in [Handlers -> T], NEW h \in Handlers, NEW l, NEW pc, NEW r,
         r = [f[h] EXCEPT !.pc = pc, !.listed = l]
  PROVE  [f EXCEPT ![h].pc = pc, ![h].listed = l] = [f EXCEPT ![h] = r]
OBVIOUS

\* A handler that is idle does nothing.
LEMMA IdleCall ==
  /\ 0 \in 0..MaxVersion /\ Absent \in Parent
  /\ NoCall \in CallType /\ UploadOK(NoCall) /\ ReviewOK(NoCall) /\ Making(NoCall) = None
<1>1. 0 \in 0..MaxVersion
  BY BoundsAssumption
<1>2. Absent \in Parent
  BY <1>1 DEF Absent, Parent
<1>3. NoCall \in CallType
  BY <1>1, <1>2 DEF NoCall, CallType
<1>4. QED
  BY <1>1, <1>2, <1>3 DEF NoCall, UploadOK, ReviewOK, Uploading, Making

\* A step changes a few fields of what a handler is doing.
LEMMA CallChanges ==
  ASSUME NEW j \in CallType
  PROVE  /\ \A p \in Parent, pc \in {"versions", "backVersions"} :
              [j EXCEPT !.prior = p, !.pc = pc] \in CallType
         /\ \A n \in 0..MaxVersion : [j EXCEPT !.version = n, !.pc = "put"] \in CallType
         /\ \A n \in 0..MaxVersion, c \in Contents, pc \in {"fetch", "link"} :
              [j EXCEPT !.pc = pc, !.version = n, !.content = c] \in CallType
         /\ \A x \in Reports : [j EXCEPT !.pc = "store", !.report = x] \in CallType
         /\ \A l \in SUBSET Viewers : [j EXCEPT !.pc = "revoke", !.listed = l] \in CallType
         /\ [j EXCEPT !.version = 0, !.pc = "link"] \in CallType
<1>1. ASSUME NEW p \in Parent, NEW pc \in {"versions", "backVersions"}
      PROVE  [j EXCEPT !.prior = p, !.pc = pc] \in CallType
  BY <1>1 DEF CallType
<1>2. ASSUME NEW n \in 0..MaxVersion PROVE [j EXCEPT !.version = n, !.pc = "put"] \in CallType
  BY <1>2 DEF CallType
<1>3. ASSUME NEW n \in 0..MaxVersion, NEW c \in Contents, NEW pc \in {"fetch", "link"}
      PROVE  [j EXCEPT !.pc = pc, !.version = n, !.content = c] \in CallType
  BY <1>3 DEF CallType
<1>4. ASSUME NEW x \in Reports PROVE [j EXCEPT !.pc = "store", !.report = x] \in CallType
  BY <1>4 DEF CallType
<1>5. ASSUME NEW l \in SUBSET Viewers PROVE [j EXCEPT !.pc = "revoke", !.listed = l] \in CallType
  BY <1>5 DEF CallType
<1>6. [j EXCEPT !.version = 0, !.pc = "link"] \in CallType
  <2>1. 0 \in 0..MaxVersion
    BY BoundsAssumption
  <2> QED BY <2>1 DEF CallType
<1> QED BY <1>1, <1>2, <1>3, <1>4, <1>5, <1>6

\* After a step of one handler, the others are where they were.
LEMMA OneMoves ==
  ASSUME call \in [Handlers -> CallType], NEW h \in Handlers, NEW r \in CallType,
         call' = [call EXCEPT ![h] = r]
  PROVE  /\ call' \in [Handlers -> CallType]
         /\ call'[h] = r
         /\ \A g \in Handlers \ {h} : call'[g] = call[g]
OBVIOUS

\* A request or a mishap is counted within its bound.
LEMMA CountersTyped ==
  ASSUME DocumentsTypeOK,
         \/ requests < MaxRequests /\ requests' = requests + 1 /\ UNCHANGED mishaps
         \/ Counted
         \/ Mishap
  PROVE  requests' \in 0..MaxRequests /\ mishaps' \in 0..MaxMishaps
BY BoundsAssumption DEF DocumentsTypeOK, Counted, Mishap

\* A step that leaves the documents alone, and starts or ends no upload's hold on
\* its object, preserves the invariant of the documents.
LEMMA QuietStep ==
  ASSUME CatalogInv, NEW h \in Handlers, NEW r \in CallType,
         call' = [call EXCEPT ![h] = r], UNCHANGED documentVars,
         requests' \in 0..MaxRequests, mishaps' \in 0..MaxMishaps, shown' \subseteq reviewed,
         UploadOK(r), ReviewOK(r),
         r.pc \in Uploading => call[h].pc \in Uploading /\ Key(r) = Key(call[h]),
         call[h].pc \in {"create", "remove"} =>
           r.pc \in {"create", "remove"} /\ Key(r) = Key(call[h])
  PROVE  CatalogInv'
<1>1. /\ parent' = parent /\ versions' = versions /\ reserved' = reserved /\ files' = files
      /\ stranded' = stranded /\ unread' = unread /\ reviewed' = reviewed
  BY DEF documentVars, catalog, history
<1>2. /\ call \in [Handlers -> CallType] /\ call' \in [Handlers -> CallType] /\ call'[h] = r
      /\ \A g \in Handlers \ {h} : call'[g] = call[g]
  BY OneMoves DEF CatalogInv
<1>3. DocumentsTypeOK'
  BY <1>1 DEF CatalogInv, DocumentsTypeOK
<1>4. \A g \in Handlers : UploadOK(call[g])' /\ ReviewOK(call[g])'
  <2>1. SUFFICES ASSUME NEW g \in Handlers
                 PROVE  UploadOK(call[g])' /\ ReviewOK(call[g])'
    OBVIOUS
  <2>2. CASE g = h
    BY <1>1, <1>2, <2>2 DEF UploadOK, ReviewOK
  <2>3. CASE g # h
    <3>1. call'[g] = call[g] /\ UploadOK(call[g]) /\ ReviewOK(call[g])
      BY <1>2, <2>3 DEF CatalogInv
    <3>2. QED
      BY <1>1, <3>1 DEF UploadOK, ReviewOK
  <2>4. QED
    BY <2>2, <2>3
<1>5. UploadsApart'
  <2>1. SUFFICES ASSUME NEW f \in Handlers, NEW g \in Handlers,
                        call'[f].pc \in Uploading, call'[g].pc \in Uploading,
                        Key(call'[f]) = Key(call'[g])
                 PROVE  f = g
    BY DEF UploadsApart
  <2>2. \A i \in Handlers : call'[i].pc \in Uploading =>
          call[i].pc \in Uploading /\ Key(call[i]) = Key(call'[i])
    BY <1>2
  <2>3. QED
    BY <2>1, <2>2 DEF CatalogInv, UploadsApart
<1>6. NoGaps' /\ CatalogConsistent' /\ ReportsShowReviewed'
  BY <1>1 DEF CatalogInv, NoGaps, CatalogConsistent, ReportsShowReviewed
<1>7. FilesAccounted'
  <2>1. \A r1 \in versions : Key(r1) \in files \cup unread
    BY DEF CatalogInv, FilesAccounted
  <2>2. \A i \in Handlers : call[i].pc \in {"create", "remove"} =>
          call'[i].pc \in {"create", "remove"} /\ Key(call'[i]) = Key(call[i])
    BY <1>2
  <2>3. SUFFICES ASSUME NEW k \in files
                 PROVE  \/ \E v \in versions : Key(v) = k
                        \/ \E i \in Handlers :
                             call'[i].pc \in {"create", "remove"} /\ Key(call'[i]) = k
                        \/ k \in stranded
    BY <1>1, <2>1 DEF FilesAccounted
  <2>4. \/ \E v \in versions : Key(v) = k
        \/ \E i \in Handlers : call[i].pc \in {"create", "remove"} /\ Key(call[i]) = k
        \/ k \in stranded
    BY DEF CatalogInv, FilesAccounted
  <2>5. QED
    BY <2>2, <2>4
<1>8. QED
  BY <1>2, <1>3, <1>4, <1>5, <1>6, <1>7 DEF CatalogInv

\* What the invariant says of one handler.
LEMMA CallKnown ==
  ASSUME CatalogInv, NEW h \in Handlers
  PROVE  /\ call \in [Handlers -> CallType] /\ call[h] \in CallType
         /\ UploadOK(call[h]) /\ ReviewOK(call[h])
         /\ DocumentsTypeOK /\ shown \subseteq reviewed
BY DEF CatalogInv, ReportsShowReviewed

\* A handler that holds no object can end.
LEMMA QuietEnd ==
  ASSUME CatalogInv, NEW h \in Handlers, End(h), call[h].pc \notin {"create", "remove"},
         UNCHANGED documentVars, requests' \in 0..MaxRequests, mishaps' \in 0..MaxMishaps,
         shown' \subseteq reviewed
  PROVE  CatalogInv'
<1>1. NoCall.pc \notin Uploading
  BY DEF NoCall, Uploading
<1> QED BY <1>1, IdleCall, QuietStep DEF End

\* A handler that holds no object can go on to a step without one.
LEMMA QuietGoto ==
  ASSUME CatalogInv, NEW h \in Handlers, NEW pc, Goto(h, pc), call[h].pc \notin {"create", "remove"},
         pc \in {"parent", "write", "link", "store", "register", "grant", "file", "list", "unlink"},
         pc = "write" => call[h].op # "update" \/ ReviewOK([call[h] EXCEPT !.pc = pc]),
         pc = "link" => call[h].pc = "fetch",
         UNCHANGED documentVars, requests' \in 0..MaxRequests, mishaps' \in 0..MaxMishaps,
         shown' \subseteq reviewed
  PROVE  CatalogInv'
<1> USE CallKnown
<1>1. PICK r : r = [call[h] EXCEPT !.pc = pc]
  OBVIOUS
<1>2. r \in CallType
  BY <1>1 DEF CallType
<1>3. call' = [call EXCEPT ![h] = r]
  BY <1>1 DEF Goto, CallType
<1>4. r.op = call[h].op /\ r.doc = call[h].doc /\ r.content = call[h].content
      /\ r.prior = call[h].prior /\ r.pc = pc /\ r.version = call[h].version
  BY <1>1 DEF CallType
<1>5. UploadOK(r)
  BY <1>4 DEF UploadOK, Uploading
<1>6. ReviewOK(r)
  BY <1>1, <1>4 DEF ReviewOK
<1>7. r.pc \notin Uploading
  BY <1>4 DEF Uploading
<1> QED BY <1>2, <1>3, <1>5, <1>6, <1>7, QuietStep

\* A new request starts with nothing read, nothing chosen and no object.
LEMMA RequestSafe ==
  ASSUME CatalogInv, NEW h \in Handlers, NEW r \in CallType, Receive(h, r),
         r.pc \in {"duplicate", "parent", "manifest", "registered"}, r.prior = Absent,
         r.op \in {"upload", "update", "report"} => r.doc \in Documents,
         r.op = "upload" => r.content \in Contents,
         UNCHANGED documentVars, UNCHANGED shown
  PROVE  CatalogInv'
<1>1. call[h] = NoCall /\ call' = [call EXCEPT ![h] = r]
  BY DEF Receive
<1>2. parent \in [Documents -> Parent] /\ shown \subseteq reviewed
  BY CallKnown DEF DocumentsTypeOK
<1>3. UploadOK(r) /\ ReviewOK(r)
  BY <1>2 DEF UploadOK, ReviewOK, Uploading, Absent, Parent
<1>4. requests' \in 0..MaxRequests /\ mishaps' \in 0..MaxMishaps
  BY CountersTyped, CallKnown DEF Receive
<1>5. r.pc \notin Uploading /\ call[h].pc \notin {"create", "remove"}
  BY <1>1 DEF Uploading, NoCall
<1> QED BY <1>1, <1>2, <1>3, <1>4, <1>5, QuietStep

LEMMA UploadSafe ==
  ASSUME CatalogInv, NEW h \in Handlers, NEW d \in Documents, NEW c \in Contents,
         NEW fresh \in BOOLEAN, Upload(h, d, c, fresh), UNCHANGED shown
  PROVE  CatalogInv'
<1>1. PICK r : r = [NoCall EXCEPT !.op = "upload", !.pc = "duplicate", !.doc = d,
                                  !.content = c, !.fresh = fresh]
  OBVIOUS
<1>2. r \in CallType
  BY <1>1, IdleCall DEF NoCall, CallType
<1>3. r.op = "upload" /\ r.pc = "duplicate" /\ r.doc = d /\ r.content = c /\ r.prior = Absent
  BY <1>1 DEF NoCall
<1> QED BY <1>1, <1>2, <1>3, RequestSafe DEF Upload

LEMMA UpdateSafe ==
  ASSUME CatalogInv, NEW h \in Handlers, NEW d \in Documents,
         NEW patch \in {"include", "exclude", "keep"}, Update(h, d, patch), UNCHANGED shown
  PROVE  CatalogInv'
<1>1. PICK r : r = [NoCall EXCEPT !.op = "update", !.pc = "parent", !.doc = d, !.patch = patch]
  OBVIOUS
<1>2. r \in CallType
  BY <1>1, IdleCall DEF NoCall, CallType
<1>3. r.op = "update" /\ r.pc = "parent" /\ r.doc = d /\ r.prior = Absent
  BY <1>1 DEF NoCall
<1> QED BY <1>1, <1>2, <1>3, RequestSafe DEF Update

LEMMA LibraryRequestSafe ==
  ASSUME CatalogInv, NEW h \in Handlers, LibraryRequests(h)
  PROVE  CatalogInv'
<1>1. ASSUME NEW d \in Documents, NEW n \in 0..MaxVersion, Report(h, d, n) PROVE CatalogInv'
  <2>1. PICK r : r = [NoCall EXCEPT !.op = "report", !.pc = "parent", !.doc = d, !.version = n]
    OBVIOUS
  <2>2. r \in CallType
    BY <2>1, IdleCall DEF NoCall, CallType
  <2>3. r.op = "report" /\ r.pc = "parent" /\ r.doc = d /\ r.prior = Absent
    BY <2>1 DEF NoCall
  <2> QED BY <1>1, <2>1, <2>2, <2>3, RequestSafe DEF Report, libraryVars
<1>2. ASSUME NEW x \in Reports, NEW w \in Viewers, Grant(h, x, w) PROVE CatalogInv'
  <2>1. PICK r : r = [NoCall EXCEPT !.op = "grant", !.pc = "manifest", !.report = x, !.viewer = w]
    OBVIOUS
  <2>2. r \in CallType
    BY <2>1, IdleCall DEF NoCall, CallType
  <2>3. r.op = "grant" /\ r.pc = "manifest" /\ r.prior = Absent
    BY <2>1 DEF NoCall
  <2> QED BY <1>2, <2>1, <2>2, <2>3, RequestSafe DEF Grant, libraryVars
<1>3. ASSUME NEW x \in Reports, Remove(h, x) PROVE CatalogInv'
  <2>1. PICK r : r = [NoCall EXCEPT !.op = "remove", !.pc = "registered", !.report = x]
    OBVIOUS
  <2>2. r \in CallType
    BY <2>1, IdleCall DEF NoCall, CallType
  <2>3. r.op = "remove" /\ r.pc = "registered" /\ r.prior = Absent
    BY <2>1 DEF NoCall
  <2> QED BY <1>3, <2>1, <2>2, <2>3, RequestSafe DEF Remove, libraryVars
<1> QED BY <1>1, <1>2, <1>3 DEF LibraryRequests

\* The catch clause comes next; the object is still the upload's.
LEMMA QuietRemove ==
  ASSUME CatalogInv, NEW h \in Handlers, Goto(h, "remove"), call[h].pc \in Uploading,
         UNCHANGED documentVars, requests' \in 0..MaxRequests, mishaps' \in 0..MaxMishaps,
         shown' \subseteq reviewed
  PROVE  CatalogInv'
<1> USE CallKnown
<1>1. PICK r : r = [call[h] EXCEPT !.pc = "remove"]
  OBVIOUS
<1>2. r \in CallType
  BY <1>1 DEF CallType
<1>3. call' = [call EXCEPT ![h] = r]
  BY <1>1 DEF Goto, CallType
<1>4. r.op = call[h].op /\ r.doc = call[h].doc /\ r.content = call[h].content
      /\ r.prior = call[h].prior /\ r.pc = "remove" /\ r.version = call[h].version
  BY <1>1 DEF CallType
<1>5. Key(r) = Key(call[h])
  BY <1>4 DEF Key
<1>6. UploadOK(r)
  BY <1>4, <1>5 DEF UploadOK, Uploading
<1>7. ReviewOK(r)
  BY <1>4, <1>6 DEF ReviewOK, UploadOK, Uploading
<1>8. r.pc \in {"create", "remove"}
  BY <1>4
<1> QED BY <1>2, <1>3, <1>5, <1>6, <1>7, <1>8, QuietStep

LEMMA ReadParentSafe ==
  ASSUME CatalogInv, NEW h \in Handlers, ReadParent(h), UNCHANGED shown
  PROVE  CatalogInv'
<1> USE CallKnown
<1>1. requests' \in 0..MaxRequests /\ mishaps' \in 0..MaxMishaps /\ shown' \subseteq reviewed
      /\ UNCHANGED documentVars /\ call[h].pc \notin {"create", "remove"}
  BY CountersTyped DEF ReadParent, At
<1>2. CASE End(h)
  BY <1>1, <1>2, QuietEnd
<1>3. CASE call' = OldParent(h)
  <2>1. call[h].doc \in Documents /\ call[h].op \in {"upload", "update", "report"}
    BY DEF ReadParent, At, UploadOK, ReviewOK
  <2>2. PICK p : p = parent[call[h].doc]
    OBVIOUS
  <2>3. p \in Parent
    BY <2>1, <2>2 DEF DocumentsTypeOK
  <2>4. PICK r : r = [call[h] EXCEPT !.prior = p, !.pc = "versions"]
    OBVIOUS
  <2>5. r \in CallType
    BY <2>3, <2>4, CallChanges
  <2>6. call' = [call EXCEPT ![h] = r]
    BY <1>3, <2>2, <2>4 DEF OldParent, CallType
  <2>7. r.op = call[h].op /\ r.doc = call[h].doc /\ r.content = call[h].content
        /\ r.prior = p /\ r.pc = "versions" /\ r.version = call[h].version
    BY <2>4 DEF CallType
  <2>8. r.prior.current <= parent[r.doc].current
    BY <2>2, <2>3, <2>7 DEF Parent
  <2>9. UploadOK(r)
    BY <2>7, <2>8 DEF UploadOK, Uploading
  <2>10. ReviewOK(r)
    BY <2>1, <2>7 DEF ReviewOK
  <2>11. r.pc \notin Uploading
    BY <2>7 DEF Uploading
  <2> QED BY <1>1, <2>5, <2>6, <2>9, <2>10, <2>11, QuietStep
<1>4. CASE call[h].op = "report" /\ call' = [call EXCEPT ![h].version = 0, ![h].pc = "link"]
  <2>1. PICK r : r = [call[h] EXCEPT !.version = 0, !.pc = "link"]
    OBVIOUS
  <2>2. call' = [call EXCEPT ![h] = r]
    BY <1>4, <2>1, VersionAndPlace
  <2>3. r \in CallType
    BY <2>1, CallChanges
  <2>4. r.op = "report" /\ r.doc = call[h].doc /\ r.pc = "link" /\ r.version = 0
    BY <1>4, <2>1 DEF CallType
  <2>5. UploadOK(r)
    BY <2>4 DEF UploadOK, Uploading
  <2>6. ReviewOK(r)
    BY <1>4, <2>4 DEF ReviewOK
  <2>7. r.pc \notin Uploading
    BY <2>4 DEF Uploading
  <2> QED BY <1>1, <2>2, <2>3, <2>5, <2>6, <2>7, QuietStep
<1> QED BY <1>2, <1>3, <1>4 DEF ReadParent

LEMMA FindDuplicateSafe ==
  ASSUME CatalogInv, NEW h \in Handlers, FindDuplicate(h), UNCHANGED shown
  PROVE  CatalogInv'
<1> USE CallKnown
<1>1. requests' \in 0..MaxRequests /\ mishaps' \in 0..MaxMishaps /\ shown' \subseteq reviewed
      /\ UNCHANGED documentVars /\ call[h].pc \notin {"create", "remove"}
  BY CountersTyped DEF FindDuplicate, At
<1>2. CASE End(h)
  BY <1>1, <1>2, QuietEnd
<1>3. CASE Goto(h, "parent")
  BY <1>1, <1>3, QuietGoto
<1>4. ASSUME call' = [call EXCEPT ![h].version = 1, ![h].pc = "put"],
             ~ \E k \in reserved : k[3] = call[h].content
      PROVE  CatalogInv'
  <2>1. call[h].op = "upload" /\ call[h].doc \in Documents /\ call[h].prior = Absent
        /\ call[h].content \in Contents
    BY DEF FindDuplicate, At, UploadOK
  <2>2. PICK r : r = [call[h] EXCEPT !.version = 1, !.pc = "put"]
    OBVIOUS
  <2>3. 1 \in 0..MaxVersion
    BY BoundsAssumption, <2>1
  <2>4. r \in CallType
    BY <2>2, <2>3, CallChanges
  <2>5. call' = [call EXCEPT ![h] = r]
    BY <1>4, <2>2 DEF CallType
  <2>6. r.op = call[h].op /\ r.doc = call[h].doc /\ r.content = call[h].content
        /\ r.prior = Absent /\ r.pc = "put" /\ r.version = 1
    BY <2>1, <2>2 DEF CallType
  <2>7. UploadOK(r)
    BY <2>1, <2>6 DEF UploadOK, Uploading, Absent
  <2>8. ReviewOK(r) /\ r.pc \notin Uploading
    BY <2>1, <2>6 DEF ReviewOK, Uploading
  <2> QED BY <1>1, <2>4, <2>5, <2>7, <2>8, QuietStep
<1> QED BY <1>2, <1>3, <1>4 DEF FindDuplicate

\* What a consistent reading found: a version, and somebody decided its rights.
LEMMA ConsistentReading ==
  ASSUME CatalogInv, NEW h \in Handlers, Consistent(h)
  PROVE  /\ call[h].prior.current \in 1..MaxVersion
         /\ call[h].prior.included => <<call[h].doc, call[h].prior.current>> \in reviewed
<1>1. PICK v \in versions : /\ v.doc = call[h].doc /\ v.version = call[h].prior.current
                            /\ v.included = call[h].prior.included
  BY DEF Consistent, Stored
<1>2. v \in Version
  BY CallKnown DEF DocumentsTypeOK
<1>3. v.included => <<v.doc, v.version>> \in reviewed
  BY DEF CatalogInv, ReportsShowReviewed
<1> QED BY <1>1, <1>2, <1>3 DEF Version

LEMMA NumberVersionSafe ==
  ASSUME CatalogInv, NEW h \in Handlers, NumberVersion(h), UNCHANGED shown
  PROVE  CatalogInv'
<1> USE CallKnown
<1>1. requests' \in 0..MaxRequests /\ mishaps' \in 0..MaxMishaps /\ shown' \subseteq reviewed
      /\ UNCHANGED documentVars /\ call[h].pc \notin {"create", "remove"}
  BY CountersTyped DEF NumberVersion, At
<1>2. CASE End(h)
  BY <1>1, <1>2, QuietEnd
<1>3. ASSUME call[h].prior.current < MaxVersion,
             call' = [call EXCEPT ![h].version = call[h].prior.current + 1, ![h].pc = "put"]
      PROVE  CatalogInv'
  <2>1. call[h].op = "upload" /\ call[h].doc \in Documents /\ call[h].content \in Contents
        /\ call[h].prior.current <= parent[call[h].doc].current
    BY DEF NumberVersion, At, UploadOK
  <2>2. call[h].prior \in Parent
    BY DEF CallType
  <2>3. PICK n : n = call[h].prior.current + 1
    OBVIOUS
  <2>4. n \in 0..MaxVersion /\ n # 0
    BY <1>3, <2>2, <2>3, BoundsAssumption DEF Parent
  <2>5. PICK r : r = [call[h] EXCEPT !.version = n, !.pc = "put"]
    OBVIOUS
  <2>6. r \in CallType
    BY <2>4, <2>5, CallChanges
  <2>7. call' = [call EXCEPT ![h] = r]
    BY <1>3, <2>3, <2>5 DEF CallType
  <2>8. r.op = call[h].op /\ r.doc = call[h].doc /\ r.content = call[h].content
        /\ r.prior = call[h].prior /\ r.pc = "put" /\ r.version = n
    BY <2>5 DEF CallType
  <2>9. UploadOK(r)
    BY <2>1, <2>3, <2>4, <2>8 DEF UploadOK, Uploading
  <2>10. ReviewOK(r) /\ r.pc \notin Uploading
    BY <2>1, <2>8 DEF ReviewOK, Uploading
  <2> QED BY <1>1, <2>6, <2>7, <2>9, <2>10, QuietStep
<1> QED BY <1>2, <1>3 DEF NumberVersion

LEMMA ReadBackParentSafe ==
  ASSUME CatalogInv, NEW h \in Handlers, ReadBackParent(h), UNCHANGED shown
  PROVE  CatalogInv'
<1> USE CallKnown
<1>1. requests' \in 0..MaxRequests /\ mishaps' \in 0..MaxMishaps /\ shown' \subseteq reviewed
      /\ UNCHANGED documentVars /\ call[h].pc = "backParent"
  BY CountersTyped DEF ReadBackParent, At
<1>2. call[h].op = "upload" /\ call[h].doc \in Documents /\ call[h].content \in Contents
      /\ call[h].version # 0 /\ Key(call[h]) \in files
  BY <1>1 DEF ReadBackParent, At, UploadOK, Uploading
<1>3. PICK p : p = parent[call[h].doc]
  OBVIOUS
<1>4. p \in Parent
  BY <1>2, <1>3 DEF DocumentsTypeOK
<1>5. PICK r : r = [call[h] EXCEPT !.prior = p, !.pc = "backVersions"]
  OBVIOUS
<1>6. r \in CallType
  BY <1>4, <1>5, CallChanges
<1>7. call' = [call EXCEPT ![h] = r]
  BY <1>3, <1>5 DEF ReadBackParent, OldParent, CallType
<1>8. r.op = call[h].op /\ r.doc = call[h].doc /\ r.content = call[h].content
      /\ r.prior = p /\ r.pc = "backVersions" /\ r.version = call[h].version
  BY <1>5 DEF CallType
<1>9. Key(r) = Key(call[h]) /\ r.prior.current <= parent[r.doc].current
  BY <1>3, <1>4, <1>8 DEF Key, Parent
<1>10. UploadOK(r)
  BY <1>2, <1>8, <1>9 DEF UploadOK, Uploading
<1>11. ReviewOK(r)
  BY <1>2, <1>8 DEF ReviewOK
<1>12. call[h].pc \in Uploading
  BY <1>1 DEF Uploading
<1> QED BY <1>1, <1>6, <1>7, <1>9, <1>10, <1>11, <1>12, QuietStep

LEMMA ReadBackVersionsSafe ==
  ASSUME CatalogInv, NEW h \in Handlers, ReadBackVersions(h), UNCHANGED shown
  PROVE  CatalogInv'
<1>1. requests' \in 0..MaxRequests /\ mishaps' \in 0..MaxMishaps /\ shown' \subseteq reviewed
      /\ UNCHANGED documentVars /\ call[h].pc = "backVersions"
  BY CountersTyped, CallKnown DEF ReadBackVersions, At
<1>2. CASE End(h)
  BY <1>1, <1>2, QuietEnd
<1>3. CASE Goto(h, "remove")
  BY <1>1, <1>3, QuietRemove DEF Uploading
<1> QED BY <1>2, <1>3 DEF ReadBackVersions

LEMMA CheckUpdateSafe ==
  ASSUME CatalogInv, NEW h \in Handlers, CheckUpdate(h), UNCHANGED shown
  PROVE  CatalogInv'
<1>1. requests' \in 0..MaxRequests /\ mishaps' \in 0..MaxMishaps /\ shown' \subseteq reviewed
      /\ UNCHANGED documentVars /\ call[h].pc = "versions" /\ call[h].op = "update"
  BY CountersTyped, CallKnown DEF CheckUpdate, At
<1>2. CASE End(h)
  BY <1>1, <1>2, QuietEnd
<1>3. CASE Consistent(h) /\ Goto(h, "write")
  <2>1. PICK r : r = [call[h] EXCEPT !.pc = "write"]
    OBVIOUS
  <2>2. r.op = "update" /\ r.pc = "write" /\ r.doc = call[h].doc /\ r.prior = call[h].prior
    BY <1>1, <2>1, CallKnown DEF CallType
  <2>3. call[h].doc \in Documents
    BY <1>1, CallKnown DEF ReviewOK
  <2>4. ReviewOK(r)
    BY <1>3, <2>2, <2>3, ConsistentReading DEF ReviewOK
  <2> QED BY <1>1, <1>3, <2>1, <2>4, QuietGoto
<1> QED BY <1>2, <1>3 DEF CheckUpdate

LEMMA ThrowSafe ==
  ASSUME CatalogInv, NEW h \in Handlers, Throw(h), UNCHANGED shown
  PROVE  CatalogInv'
<1>1. requests' \in 0..MaxRequests /\ mishaps' \in 0..MaxMishaps /\ shown' \subseteq reviewed
      /\ UNCHANGED documentVars
  BY CountersTyped, CallKnown DEF Throw
<1>2. CASE call[h].pc \in {"create", "backParent", "backVersions"}
  BY <1>1, <1>2, QuietRemove DEF Throw, Uploading
<1>3. CASE call[h].pc \notin {"create", "backParent", "backVersions"}
  BY <1>1, <1>3, QuietEnd DEF Throw
<1> QED BY <1>2, <1>3

\* A request of the library never has the object of an upload.
LEMMA LibraryMove ==
  ASSUME CatalogInv, NEW h \in Handlers, call[h].op \in {"report", "grant", "remove"},
         NEW r \in CallType, call' = [call EXCEPT ![h] = r],
         r.op = call[h].op, r.doc = call[h].doc,
         r.pc \notin {"duplicate", "put"} \cup Uploading,
         r.op = "report" /\ r.pc \in {"fetch", "link"} /\ r.version # 0 =>
           <<r.doc, r.version>> \in reviewed,
         UNCHANGED documentVars, Counted, shown' \subseteq reviewed
  PROVE  CatalogInv'
<1>1. requests' \in 0..MaxRequests /\ mishaps' \in 0..MaxMishaps
  BY CountersTyped, CallKnown
<1>2. UploadOK(r)
  BY DEF UploadOK, Uploading
<1>3. ReviewOK(r)
  BY CallKnown DEF ReviewOK
<1>4. call[h].pc \notin {"create", "remove"}
  BY CallKnown DEF UploadOK, Uploading
<1> QED BY <1>1, <1>2, <1>3, <1>4, QuietStep

LEMMA LibraryEnd ==
  ASSUME CatalogInv, NEW h \in Handlers, call[h].op \in {"report", "grant", "remove"},
         End(h), UNCHANGED documentVars, Counted \/ Mishap, shown' \subseteq reviewed
  PROVE  CatalogInv'
<1>1. requests' \in 0..MaxRequests /\ mishaps' \in 0..MaxMishaps
  BY CountersTyped, CallKnown
<1>2. call[h].pc \notin {"create", "remove"}
  BY CallKnown DEF UploadOK, Uploading
<1> QED BY <1>1, <1>2, QuietEnd

LEMMA LibraryGoto ==
  ASSUME CatalogInv, NEW h \in Handlers, call[h].op \in {"report", "grant", "remove"},
         NEW pc \in {"link", "register", "grant", "file", "list", "unlink"}, Goto(h, pc),
         pc = "link" => call[h].pc = "fetch",
         UNCHANGED documentVars, Counted, shown' \subseteq reviewed
  PROVE  CatalogInv'
<1>1. requests' \in 0..MaxRequests /\ mishaps' \in 0..MaxMishaps
  BY CountersTyped, CallKnown
<1>2. call[h].pc \notin {"create", "remove"}
  BY CallKnown DEF UploadOK, Uploading
<1> QED BY <1>1, <1>2, QuietGoto

LEMMA SelectSafe ==
  ASSUME CatalogInv, NEW h \in Handlers, Select(h)
  PROVE  CatalogInv'
<1>1. call[h].op = "report" /\ UNCHANGED documentVars /\ Counted /\ shown' \subseteq reviewed
  BY CallKnown DEF Select, At, libraryVars
<1>2. CASE End(h)
  BY <1>1, <1>2, LibraryEnd
<1>3. ASSUME NEW v \in Stored(call[h].doc, Wanted(h)),
             call' = [call EXCEPT ![h].pc = IF v.included THEN "fetch" ELSE "link",
                                  ![h].version = IF v.included THEN v.version ELSE 0,
                                  ![h].content = v.content]
      PROVE  CatalogInv'
  <2>1. v \in versions /\ v \in Version /\ v.doc = call[h].doc
    BY CallKnown DEF Stored, DocumentsTypeOK
  <2>2. v.included => <<v.doc, v.version>> \in reviewed
    BY <2>1 DEF CatalogInv, ReportsShowReviewed
  <2>3. PICK pc : pc = IF v.included THEN "fetch" ELSE "link"
    OBVIOUS
  <2>4. PICK n : n = IF v.included THEN v.version ELSE 0
    OBVIOUS
  <2>5. n \in 0..MaxVersion /\ pc \in {"fetch", "link"} /\ v.content \in Contents
    BY <2>1, <2>3, <2>4, IdleCall DEF Version
  <2>6. PICK c : c = v.content
    OBVIOUS
  <2>7. PICK r : r = [call[h] EXCEPT !.pc = pc, !.version = n, !.content = c]
    OBVIOUS
  <2>8. r \in CallType
    BY <2>5, <2>6, <2>7, CallChanges, CallKnown
  <2>9. call' = [call EXCEPT ![h] = r]
    BY <1>3, <2>3, <2>4, <2>6, <2>7, CallKnown DEF CallType
  <2>10. r.op = call[h].op /\ r.doc = call[h].doc /\ r.pc = pc /\ r.version = n
    BY <2>7, CallKnown DEF CallType
  <2>11. r.pc \notin {"duplicate", "put"} \cup Uploading
    BY <2>3, <2>10 DEF Uploading
  <2>12. r.version # 0 => <<r.doc, r.version>> \in reviewed
    BY <2>1, <2>2, <2>4, <2>10
  <2> QED BY <1>1, <2>8, <2>9, <2>10, <2>11, <2>12, LibraryMove
<1> QED BY <1>2, <1>3 DEF Select

LEMMA LinkSafe ==
  ASSUME CatalogInv, NEW h \in Handlers, Link(h)
  PROVE  CatalogInv'
<1>1. call[h].op = "report" /\ call[h].pc = "link" /\ UNCHANGED documentVars /\ Counted
  BY DEF Link, At
<1>2. shown' \subseteq reviewed
  BY <1>1, CallKnown DEF Link, ReviewOK
<1>3. CASE End(h)
  BY <1>1, <1>2, <1>3, LibraryEnd
<1>4. ASSUME NEW x \in Reports, call' = [call EXCEPT ![h].pc = "store", ![h].report = x]
      PROVE  CatalogInv'
  <2>1. PICK r : r = [call[h] EXCEPT !.pc = "store", !.report = x]
    OBVIOUS
  <2>2. r \in CallType
    BY <2>1, CallChanges, CallKnown
  <2>3. call' = [call EXCEPT ![h] = r]
    BY <1>4, <2>1, CallKnown DEF CallType
  <2>4. r.op = call[h].op /\ r.doc = call[h].doc /\ r.pc = "store"
    BY <2>1, CallKnown DEF CallType
  <2> QED BY <1>1, <1>2, <2>2, <2>3, <2>4, LibraryMove DEF Uploading
<1> QED BY <1>3, <1>4 DEF Link

LEMMA ListedSafe ==
  ASSUME CatalogInv, NEW h \in Handlers, ListGrants(h) \/ RevokeListed(h)
  PROVE  CatalogInv'
<1>1. call[h].op = "remove" /\ UNCHANGED documentVars /\ Counted /\ shown' \subseteq reviewed
      /\ call[h].pc \in {"list", "revoke"}
  BY CallKnown DEF ListGrants, RevokeListed, At, libraryVars
<1>2. PICK l \in SUBSET Viewers : call' = [call EXCEPT ![h].pc = "revoke", ![h].listed = l]
  <2>1. CASE ListGrants(h)
    BY <2>1 DEF ListGrants
  <2>2. CASE RevokeListed(h)
    <3>1. PICK w : call' = [call EXCEPT ![h].listed = @ \ {w}]
      BY <2>2 DEF RevokeListed
    <3>2. PICK l : l = call[h].listed \ {w}
      OBVIOUS
    <3>3. l \in SUBSET Viewers
      BY <3>2, CallKnown DEF CallType
    <3>4. call[h].pc = "revoke"
      BY <2>2 DEF RevokeListed, At
    <3>5. call' = [call EXCEPT ![h].pc = "revoke", ![h].listed = l]
      BY <3>1, <3>2, <3>4, CallKnown DEF CallType
    <3> QED BY <3>3, <3>5
  <2> QED BY <2>1, <2>2
<1>3. PICK r : r = [call[h] EXCEPT !.pc = "revoke", !.listed = l]
  OBVIOUS
<1>4. r \in CallType
  BY <1>3, CallChanges, CallKnown
<1>5. call' = [call EXCEPT ![h] = r]
  BY <1>2, <1>3, CallKnown DEF CallType
<1>6. r.op = call[h].op /\ r.doc = call[h].doc /\ r.pc = "revoke"
  BY <1>3, CallKnown DEF CallType
<1> QED BY <1>1, <1>4, <1>5, <1>6, LibraryMove DEF Uploading

LEMMA LibraryStepSafe ==
  ASSUME CatalogInv, NEW h \in Handlers, LibrarySteps(h)
  PROVE  CatalogInv'
<1> USE CallKnown
<1>1. CASE Fetch(h)
  <2>1. call[h].op = "report" /\ call[h].pc = "fetch" /\ UNCHANGED documentVars
        /\ Counted /\ shown' \subseteq reviewed /\ (Goto(h, "link") \/ End(h))
    BY <1>1 DEF Fetch, At, libraryVars
  <2> QED BY <2>1, LibraryEnd, LibraryGoto
<1>2. CASE StoreReport(h)
  <2>1. call[h].op = "report" /\ UNCHANGED documentVars
        /\ Counted /\ shown' \subseteq reviewed /\ Goto(h, "register")
    BY <1>2 DEF StoreReport, At
  <2> QED BY <2>1, LibraryGoto
<1>3. CASE CheckManifest(h)
  <2>1. call[h].op = "grant" /\ UNCHANGED documentVars
        /\ Counted /\ shown' \subseteq reviewed /\ (Goto(h, "grant") \/ End(h))
    BY <1>3 DEF CheckManifest, At, libraryVars
  <2> QED BY <2>1, LibraryEnd, LibraryGoto
<1>4. CASE FindManifest(h) \/ RemoveFile(h) \/ DeleteManifest(h)
  <2>1. PICK pc \in {"file", "list", "unlink"} :
          call[h].op = "remove" /\ UNCHANGED documentVars
          /\ Counted /\ shown' \subseteq reviewed /\ Goto(h, pc)
    BY <1>4 DEF FindManifest, RemoveFile, DeleteManifest, At
  <2> QED BY <2>1, LibraryGoto
<1>5. CASE RegisterReport(h) \/ WriteGrant(h) \/ Unlink(h) \/ GiveUp(h)
  <2>1. call[h].op \in {"report", "grant", "remove"} /\ UNCHANGED documentVars
        /\ (Counted \/ Mishap) /\ shown' \subseteq reviewed /\ End(h)
    BY <1>5 DEF RegisterReport, WriteGrant, Unlink, GiveUp, At
  <2> QED BY <2>1, LibraryEnd
<1> QED BY <1>1, <1>2, <1>3, <1>4, <1>5, SelectSafe, LinkSafe, ListedSafe DEF LibrarySteps

\* An upload that holds no object yet has none that is recorded for another one.
LEMMA PutSafe ==
  ASSUME CatalogInv, NEW h \in Handlers, Put(h), UNCHANGED shown
  PROVE  CatalogInv'
<1> USE CallKnown
<1>1. /\ call[h].op = "upload" /\ call[h].pc = "put" /\ Counted /\ UNCHANGED <<catalog, history>>
      /\ requests' \in 0..MaxRequests /\ mishaps' \in 0..MaxMishaps /\ shown' \subseteq reviewed
  BY CountersTyped DEF Put, At
<1>2. CASE End(h) /\ UNCHANGED files
  BY <1>1, <1>2, QuietEnd DEF documentVars
<1>3. ASSUME Key(call[h]) \notin files, files' = files \cup {Key(call[h])}, Goto(h, "create")
      PROVE  CatalogInv'
  <2>1. PICK r : r = [call[h] EXCEPT !.pc = "create"]
    OBVIOUS
  <2>2. r \in CallType
    BY <2>1 DEF CallType
  <2>3. call' = [call EXCEPT ![h] = r]
    BY <1>3, <2>1 DEF Goto, CallType
  <2>4. /\ r.op = "upload" /\ r.pc = "create" /\ r.doc = call[h].doc /\ r.content = call[h].content
        /\ r.version = call[h].version /\ r.prior = call[h].prior /\ Key(r) = Key(call[h])
    BY <1>1, <2>1 DEF CallType, Key
  <2>5. /\ parent' = parent /\ versions' = versions /\ reserved' = reserved
        /\ stranded' = stranded /\ unread' = unread /\ reviewed' = reviewed
    BY <1>1 DEF catalog, history
  <2>6. /\ call' \in [Handlers -> CallType] /\ call'[h] = r
        /\ \A g \in Handlers \ {h} : call'[g] = call[g]
    BY <2>2, <2>3, OneMoves
  <2>7. /\ r.doc \in Documents /\ r.content \in Contents /\ r.version \in 1..MaxVersion
        /\ r.prior.current <= parent[r.doc].current /\ r.version = r.prior.current + 1
    BY <1>1, <2>2, <2>4 DEF UploadOK, CallType
  <2>8. Key(r) \in Keys
    BY <2>7 DEF Key, Keys
  <2>9. DocumentsTypeOK'
    BY <1>1, <1>3, <2>4, <2>5, <2>8 DEF DocumentsTypeOK
  <2>10. \A g \in Handlers : UploadOK(call[g])' /\ ReviewOK(call[g])'
    <3>1. SUFFICES ASSUME NEW g \in Handlers
                   PROVE  UploadOK(call[g])' /\ ReviewOK(call[g])'
      OBVIOUS
    <3>2. CASE g = h
      <4>1. call'[g] = r
        BY <2>6, <3>2
      <4>2. UploadOK(call[g])'
        BY <1>3, <2>4, <2>5, <2>7, <4>1 DEF UploadOK, Uploading
      <4>3. ReviewOK(call[g])'
        BY <2>4, <4>1 DEF ReviewOK
      <4> QED BY <4>2, <4>3
    <3>3. CASE g # h
      <4>1. call'[g] = call[g] /\ UploadOK(call[g]) /\ ReviewOK(call[g])
        BY <2>6, <3>3
      <4> QED BY <1>3, <2>5, <4>1 DEF UploadOK, ReviewOK
    <3> QED BY <3>2, <3>3
  <2>11. UploadsApart'
    <3>1. SUFFICES ASSUME NEW f \in Handlers, NEW g \in Handlers,
                          call'[f].pc \in Uploading, call'[g].pc \in Uploading,
                          Key(call'[f]) = Key(call'[g])
                   PROVE  f = g
      BY DEF UploadsApart
    <3>2. \A i \in Handlers \ {h} : call[i].pc \in Uploading => Key(call[i]) # Key(call[h])
      BY <1>3 DEF UploadOK
    <3> QED BY <2>4, <2>6, <3>1, <3>2 DEF CatalogInv, UploadsApart
  <2>12. NoGaps' /\ CatalogConsistent' /\ ReportsShowReviewed'
    BY <1>1, <2>5 DEF CatalogInv, NoGaps, CatalogConsistent, ReportsShowReviewed
  <2>13. FilesAccounted'
    <3>1. \A v \in versions : Key(v) \in files' \cup unread
      BY <1>3 DEF CatalogInv, FilesAccounted
    <3>2. \A i \in Handlers \ {h} : call'[i] = call[i]
      BY <2>6
    <3>3. SUFFICES ASSUME NEW k \in files'
                   PROVE  \/ \E v \in versions : Key(v) = k
                          \/ \E i \in Handlers :
                               call'[i].pc \in {"create", "remove"} /\ Key(call'[i]) = k
                          \/ k \in stranded
      BY <2>5, <3>1 DEF FilesAccounted
    <3>4. CASE k = Key(call[h])
      BY <2>4, <2>6, <3>4
    <3>5. CASE k # Key(call[h])
      <4>1. \/ \E v \in versions : Key(v) = k
            \/ \E i \in Handlers : call[i].pc \in {"create", "remove"} /\ Key(call[i]) = k
            \/ k \in stranded
        BY <1>3, <3>5 DEF CatalogInv, FilesAccounted
      <4> QED BY <3>2, <3>5, <4>1
    <3> QED BY <3>4, <3>5
  <2> QED BY <2>6, <2>9, <2>10, <2>11, <2>12, <2>13 DEF CatalogInv
<1> QED BY <1>1, <1>2, <1>3 DEF Put

\* An upload ends; each file, version and object of another upload is accounted for
\* without it.
LEMMA UploadEnds ==
  ASSUME CatalogInv, NEW h \in Handlers, End(h), UNCHANGED <<catalog, reviewed>>,
         requests' \in 0..MaxRequests, mishaps' \in 0..MaxMishaps, shown' \subseteq reviewed,
         files' \subseteq Keys, stranded' \subseteq Keys, unread' \subseteq Keys,
         \A v \in versions : Key(v) \in files' \cup unread',
         \A i \in Handlers \ {h} : call[i].pc \in Uploading => Key(call[i]) \in files',
         \A k \in files' :
           \/ \E v \in versions : Key(v) = k
           \/ \E i \in Handlers \ {h} : call[i].pc \in {"create", "remove"} /\ Key(call[i]) = k
           \/ k \in stranded'
  PROVE  CatalogInv'
<1>1. /\ parent' = parent /\ versions' = versions /\ reserved' = reserved /\ reviewed' = reviewed
  BY DEF catalog
<1>2. /\ call' \in [Handlers -> CallType] /\ call'[h] = NoCall
      /\ \A g \in Handlers \ {h} : call'[g] = call[g]
  BY OneMoves, CallKnown, IdleCall DEF End
<1>3. DocumentsTypeOK'
  BY <1>1, CallKnown DEF DocumentsTypeOK
<1>4. \A g \in Handlers : UploadOK(call[g])' /\ ReviewOK(call[g])'
  <2>1. SUFFICES ASSUME NEW g \in Handlers
                 PROVE  UploadOK(call[g])' /\ ReviewOK(call[g])'
    OBVIOUS
  <2>2. CASE g = h
    BY <1>2, <2>2 DEF UploadOK, ReviewOK, Uploading, NoCall
  <2>3. CASE g # h
    <3>1. call'[g] = call[g] /\ UploadOK(call[g]) /\ ReviewOK(call[g])
      BY <1>2, <2>3, CallKnown
    <3> QED BY <1>1, <2>3, <3>1 DEF UploadOK, ReviewOK
  <2> QED BY <2>2, <2>3
<1>5. UploadsApart'
  <2>1. NoCall.pc \notin Uploading
    BY DEF NoCall, Uploading
  <2> QED BY <1>2, <2>1 DEF CatalogInv, UploadsApart
<1>6. NoGaps' /\ CatalogConsistent' /\ ReportsShowReviewed'
  BY <1>1 DEF CatalogInv, NoGaps, CatalogConsistent, ReportsShowReviewed
<1>7. FilesAccounted'
  <2>1. SUFFICES ASSUME NEW k \in files'
                 PROVE  \/ \E v \in versions : Key(v) = k
                        \/ \E i \in Handlers :
                             call'[i].pc \in {"create", "remove"} /\ Key(call'[i]) = k
                        \/ k \in stranded'
    BY <1>1 DEF FilesAccounted
  <2> QED BY <1>2
<1> QED BY <1>2, <1>3, <1>4, <1>5, <1>6, <1>7 DEF CatalogInv

LEMMA LosePutSafe ==
  ASSUME CatalogInv, NEW h \in Handlers, LosePut(h), UNCHANGED shown
  PROVE  CatalogInv'
<1>1. /\ call[h].op = "upload" /\ call[h].pc = "put" /\ UNCHANGED <<catalog, reviewed>> /\ End(h)
      /\ requests' \in 0..MaxRequests /\ mishaps' \in 0..MaxMishaps /\ shown' \subseteq reviewed
      /\ files' = files \cup {Key(call[h])} /\ stranded' = stranded \cup {Key(call[h])}
      /\ unread' = unread
  BY CountersTyped, CallKnown DEF LosePut, At
<1>2. /\ call[h].doc \in Documents /\ call[h].content \in Contents
      /\ call[h].version \in 1..MaxVersion
  BY <1>1, CallKnown DEF UploadOK, CallType
<1>3. Key(call[h]) \in Keys
  BY <1>2 DEF Key, Keys
<1>4. files' \subseteq Keys /\ stranded' \subseteq Keys /\ unread' \subseteq Keys
  BY <1>1, <1>3, CallKnown DEF DocumentsTypeOK
<1>5. \A v \in versions : Key(v) \in files' \cup unread'
  BY <1>1 DEF CatalogInv, FilesAccounted
<1>6. \A i \in Handlers \ {h} : call[i].pc \in Uploading => Key(call[i]) \in files'
  BY <1>1, CallKnown DEF UploadOK
<1>7. ASSUME NEW k \in files'
      PROVE  \/ \E v \in versions : Key(v) = k
             \/ \E i \in Handlers \ {h} : call[i].pc \in {"create", "remove"} /\ Key(call[i]) = k
             \/ k \in stranded'
  BY <1>1, <1>7 DEF CatalogInv, FilesAccounted
<1> QED BY <1>1, <1>4, <1>5, <1>6, <1>7, UploadEnds

LEMMA CleanUpSafe ==
  ASSUME CatalogInv, NEW h \in Handlers, CleanUp(h), UNCHANGED shown
  PROVE  CatalogInv'
<1> DEFINE own == Key(call[h])
           committed == {k \in {own} : k \in {Key(r) : r \in versions}}
<1>1. /\ call[h].op = "upload" /\ call[h].pc = "remove" /\ UNCHANGED <<catalog, reviewed>> /\ End(h)
      /\ requests' \in 0..MaxRequests /\ mishaps' \in 0..MaxMishaps /\ shown' \subseteq reviewed
  BY CountersTyped, CallKnown DEF CleanUp, At
<1>2. \/ files' = files \ {own} /\ unread' = unread \cup committed /\ UNCHANGED stranded
      \/ stranded' = stranded \cup ({own} \ committed) /\ UNCHANGED <<files, unread>>
  BY DEF CleanUp
<1>3. own \in Keys /\ own \in files
  BY <1>1, CallKnown DEF UploadOK, Uploading, DocumentsTypeOK
<1>4. files' \subseteq Keys /\ stranded' \subseteq Keys /\ unread' \subseteq Keys
  BY <1>2, <1>3, CallKnown DEF DocumentsTypeOK
<1>5. \A v \in versions : Key(v) \in files' \cup unread'
  BY <1>2 DEF CatalogInv, FilesAccounted
<1>6. \A i \in Handlers \ {h} : call[i].pc \in Uploading => Key(call[i]) \in files'
  <2>1. \A i \in Handlers \ {h} : call[i].pc \in Uploading => Key(call[i]) # own
    BY <1>1 DEF CatalogInv, UploadsApart, Uploading
  <2>2. \A i \in Handlers : call[i].pc \in Uploading => Key(call[i]) \in files
    BY CallKnown DEF UploadOK
  <2> QED BY <1>2, <2>1, <2>2
<1>7. ASSUME NEW k \in files'
      PROVE  \/ \E v \in versions : Key(v) = k
             \/ \E i \in Handlers \ {h} : call[i].pc \in {"create", "remove"} /\ Key(call[i]) = k
             \/ k \in stranded'
  <2>1. k \in files /\ (k = own => files' = files)
    BY <1>2, <1>7
  <2>2. CASE k = own
    BY <1>2, <1>3, <2>1, <2>2
  <2>3. CASE k # own
    BY <1>2, <2>1, <2>3 DEF CatalogInv, FilesAccounted
  <2> QED BY <2>2, <2>3
<1> QED BY <1>1, <1>4, <1>5, <1>6, <1>7, UploadEnds

LEMMA LoseSafe ==
  ASSUME CatalogInv, NEW h \in Handlers, Lose(h), UNCHANGED shown
  PROVE  CatalogInv'
<1> DEFINE own == Key(call[h])
           held == call[h].pc \in {"create", "remove"} /\ \A r \in versions : Key(r) # own
<1>1. /\ UNCHANGED <<catalog, reviewed>> /\ End(h)
      /\ requests' \in 0..MaxRequests /\ mishaps' \in 0..MaxMishaps /\ shown' \subseteq reviewed
      /\ files' = files /\ unread' = unread
      /\ stranded' = IF held THEN stranded \cup {own} ELSE stranded
  BY CountersTyped, CallKnown DEF Lose
<1>2. held => own \in Keys
  BY CallKnown DEF UploadOK, Uploading, DocumentsTypeOK
<1>3. files' \subseteq Keys /\ stranded' \subseteq Keys /\ unread' \subseteq Keys
  BY <1>1, <1>2, CallKnown DEF DocumentsTypeOK
<1>4. \A v \in versions : Key(v) \in files' \cup unread'
  BY <1>1 DEF CatalogInv, FilesAccounted
<1>5. \A i \in Handlers \ {h} : call[i].pc \in Uploading => Key(call[i]) \in files'
  BY <1>1, CallKnown DEF UploadOK
<1>6. ASSUME NEW k \in files'
      PROVE  \/ \E v \in versions : Key(v) = k
             \/ \E i \in Handlers \ {h} : call[i].pc \in {"create", "remove"} /\ Key(call[i]) = k
             \/ k \in stranded'
  BY <1>1, <1>6 DEF CatalogInv, FilesAccounted
<1> QED BY <1>1, <1>3, <1>4, <1>5, <1>6, UploadEnds

\* A version that is created follows the current one of its document: a newer one
\* would have been found in the way, because the versions have no gaps.
LEMMA VersionFollows ==
  ASSUME CatalogInv, NEW h \in Handlers, call[h].op = "upload", call[h].pc = "create", ~Taken(h)
  PROVE  /\ call[h].doc \in Documents /\ call[h].content \in Contents
         /\ call[h].version \in 1..MaxVersion
         /\ parent[call[h].doc].current = call[h].version - 1
         /\ \A v \in versions : v.doc = call[h].doc => v.version < call[h].version
         /\ \A v \in versions : v.content # call[h].content
<1> USE CallKnown
<1>1. /\ call[h].doc \in Documents /\ call[h].content \in Contents
      /\ call[h].version = call[h].prior.current + 1
      /\ call[h].prior.current <= parent[call[h].doc].current
      /\ call[h].version \in 1..MaxVersion
  BY DEF UploadOK, CallType, Uploading
<1>2. parent[call[h].doc] \in Parent /\ call[h].prior \in Parent
  BY <1>1 DEF DocumentsTypeOK, CallType
<1>3. /\ \A k \in reserved : k[3] # call[h].content
      /\ \A v \in versions : v.doc = call[h].doc => v.version # call[h].version
  BY DEF Taken, Stored
<1>4. ~(call[h].version <= parent[call[h].doc].current)
  <2>1. ASSUME call[h].version <= parent[call[h].doc].current PROVE FALSE
    <3>1. call[h].version \in 1..parent[call[h].doc].current
      BY <1>1, <1>2, <2>1 DEF Parent
    <3> QED BY <1>1, <1>3, <3>1 DEF CatalogInv, NoGaps
  <2> QED BY <2>1
<1>5. parent[call[h].doc].current = call[h].version - 1
  BY <1>1, <1>2, <1>4 DEF Parent
<1>6. \A v \in versions : v.doc = call[h].doc => v.version < call[h].version
  <2>1. SUFFICES ASSUME NEW v \in versions, v.doc = call[h].doc
                 PROVE  v.version < call[h].version
    OBVIOUS
  <2>2. v \in Version /\ v.version <= parent[v.doc].current
    BY DEF CatalogInv, NoGaps, DocumentsTypeOK
  <2> QED BY <1>1, <1>5, <2>1, <2>2 DEF Version
<1>7. \A v \in versions : v.content # call[h].content
  <2>1. ASSUME NEW v \in versions PROVE Key(v) \in reserved /\ Key(v)[3] = v.content
    BY DEF CatalogInv, CatalogConsistent, Key
  <2> QED BY <1>3, <2>1
<1> QED BY <1>1, <1>5, <1>6, <1>7

LEMMA CreateVersionSafe ==
  ASSUME CatalogInv, NEW h \in Handlers, CreateVersion(h), UNCHANGED shown
  PROVE  CatalogInv'
<1> USE CallKnown
<1>1. /\ call[h].op = "upload" /\ call[h].pc = "create" /\ Counted /\ UNCHANGED <<files, history>>
      /\ requests' \in 0..MaxRequests /\ mishaps' \in 0..MaxMishaps /\ shown' \subseteq reviewed
  BY CountersTyped DEF CreateVersion, At
<1>2. CASE Taken(h)
  BY <1>1, <1>2, QuietRemove DEF CreateVersion, documentVars, Uploading
<1>3. CASE ~Taken(h)
  <2>1. PICK d, n, c : d = call[h].doc /\ n = call[h].version /\ c = call[h].content
    OBVIOUS
  <2>2. PICK new : new = [doc |-> d, version |-> n, content |-> c, included |-> FALSE]
    OBVIOUS
  <2>3. /\ parent' = [parent EXCEPT ![d] = [current |-> n, included |-> FALSE]]
        /\ versions' = versions \cup {new} /\ reserved' = reserved \cup {Key(call[h])}
        /\ Goto(h, "backParent")
        /\ files' = files /\ stranded' = stranded /\ unread' = unread /\ reviewed' = reviewed
    BY <1>1, <1>3, <2>1, <2>2 DEF CreateVersion, history
  <2>4. /\ d \in Documents /\ c \in Contents /\ n \in 1..MaxVersion
        /\ parent[d].current = n - 1
        /\ \A v \in versions : v.doc = d => v.version < n
        /\ \A v \in versions : v.content # c
    BY <1>1, <1>3, <2>1, VersionFollows
  <2>5. /\ new \in Version /\ Key(new) = Key(call[h]) /\ Key(new) \in Keys
        /\ new.doc = d /\ new.version = n /\ new.content = c /\ new.included = FALSE
    BY <2>1, <2>2, <2>4 DEF Version, Key, Keys
  <2>6. Key(call[h]) \in files
    BY <1>1 DEF UploadOK, Uploading
  <2>7. PICK r : r = [call[h] EXCEPT !.pc = "backParent"]
    OBVIOUS
  <2>8. r \in CallType /\ call' = [call EXCEPT ![h] = r]
    <3>1. r \in CallType
      BY <2>7 DEF CallType
    <3> QED BY <2>3, <2>7, <3>1 DEF Goto, CallType
  <2>9. /\ r.op = "upload" /\ r.pc = "backParent" /\ r.doc = d /\ r.content = c
        /\ r.version = n /\ r.prior = call[h].prior /\ Key(r) = Key(call[h])
    BY <1>1, <2>1, <2>7 DEF CallType, Key
  <2>10. /\ call' \in [Handlers -> CallType] /\ call'[h] = r
         /\ \A g \in Handlers \ {h} : call'[g] = call[g]
    BY <2>8, OneMoves
  <2>11. [current |-> n, included |-> FALSE] \in Parent
    BY <2>4 DEF Parent
  <2>12. /\ parent \in [Documents -> Parent] /\ parent' \in [Documents -> Parent]
         /\ parent'[d] = [current |-> n, included |-> FALSE]
         /\ \A e \in Documents \ {d} : parent'[e] = parent[e]
    BY <2>3, <2>4, <2>11 DEF DocumentsTypeOK
  <2>13. \A e \in Documents : parent[e].current <= parent'[e].current
    BY <2>4, <2>12 DEF Parent
  <2>14. DocumentsTypeOK'
    BY <1>1, <2>3, <2>5, <2>12 DEF DocumentsTypeOK
  <2>15. \A g \in Handlers : UploadOK(call[g])' /\ ReviewOK(call[g])'
    <3>1. SUFFICES ASSUME NEW g \in Handlers
                   PROVE  UploadOK(call[g])' /\ ReviewOK(call[g])'
      OBVIOUS
    <3>2. CASE g = h
      <4>1. call'[g] = r
        BY <2>10, <3>2
      <4>2. r.prior.current <= parent'[r.doc].current
        <5>1. r.prior \in Parent /\ r.prior.current <= parent[d].current
          BY <1>1, <2>1, <2>9 DEF UploadOK, CallType
        <5> QED BY <2>4, <2>9, <2>12, <2>13, <5>1 DEF Parent
      <4>3. UploadOK(call[g])'
        BY <2>3, <2>4, <2>6, <2>9, <4>1, <4>2 DEF UploadOK, Uploading
      <4>4. ReviewOK(call[g])'
        BY <2>9, <4>1 DEF ReviewOK
      <4> QED BY <4>3, <4>4
    <3>3. CASE g # h
      <4>1. call'[g] = call[g] /\ UploadOK(call[g]) /\ ReviewOK(call[g]) /\ call[g] \in CallType
        BY <2>10, <3>3
      <4>2. call[g].op = "upload" => call[g].prior.current <= parent'[call[g].doc].current
        <5>1. ASSUME call[g].op = "upload"
              PROVE  call[g].prior.current <= parent'[call[g].doc].current
          <6>1. /\ call[g].doc \in Documents /\ call[g].prior \in Parent
                /\ call[g].prior.current <= parent[call[g].doc].current
            BY <4>1, <5>1 DEF UploadOK, CallType
          <6>2. parent[call[g].doc] \in Parent /\ parent'[call[g].doc] \in Parent
            BY <2>12, <6>1
          <6> QED BY <2>13, <6>1, <6>2 DEF Parent
        <5> QED BY <5>1
      <4> QED BY <2>3, <4>1, <4>2 DEF UploadOK, ReviewOK
    <3> QED BY <3>2, <3>3
  <2>16. UploadsApart'
    <3>1. \A i \in Handlers : call'[i].pc \in Uploading =>
            call[i].pc \in Uploading /\ Key(call'[i]) = Key(call[i])
      BY <1>1, <2>9, <2>10 DEF Uploading
    <3> QED BY <3>1 DEF CatalogInv, UploadsApart
  <2>17. NoGaps'
    <3>1. \A e \in Documents : parent'[e].current = 0 => parent'[e] = Absent
      BY <2>4, <2>12 DEF CatalogInv, NoGaps
    <3>2. \A e \in Documents : \A m \in 1..parent'[e].current :
            \E v \in versions' : v.doc = e /\ v.version = m
      <4>1. SUFFICES ASSUME NEW e \in Documents, NEW m \in 1..parent'[e].current
                     PROVE  \E v \in versions' : v.doc = e /\ v.version = m
        OBVIOUS
      <4>2. CASE e = d /\ m = n
        BY <2>3, <2>5, <4>2
      <4>3. CASE ~(e = d /\ m = n)
        <5>1. m \in 1..parent[e].current
          BY <2>4, <2>12, <4>3 DEF Parent
        <5> QED BY <2>3, <5>1 DEF CatalogInv, NoGaps
      <4> QED BY <4>2, <4>3
    <3>3. \A v \in versions' : v.version <= parent'[v.doc].current
      <4>1. SUFFICES ASSUME NEW v \in versions'
                     PROVE  v.version <= parent'[v.doc].current
        OBVIOUS
      <4>2. CASE v = new
        BY <2>4, <2>5, <2>12, <4>2
      <4>3. CASE v \in versions
        <5>1. v \in Version /\ v.version <= parent[v.doc].current
          BY <4>3 DEF CatalogInv, NoGaps, DocumentsTypeOK
        <5>2. v.doc \in Documents /\ parent[v.doc] \in Parent /\ parent'[v.doc] \in Parent
          BY <2>12, <5>1 DEF Version
        <5> QED BY <2>13, <5>1, <5>2 DEF Parent, Version
      <4> QED BY <2>3, <4>2, <4>3
    <3> QED BY <3>1, <3>2, <3>3 DEF NoGaps
  <2>18. FilesAccounted'
    <3>1. \A v \in versions' : Key(v) \in files \cup unread
      BY <2>3, <2>5, <2>6 DEF CatalogInv, FilesAccounted
    <3>2. SUFFICES ASSUME NEW k \in files
                   PROVE  \/ \E v \in versions' : Key(v) = k
                          \/ \E i \in Handlers :
                               call'[i].pc \in {"create", "remove"} /\ Key(call'[i]) = k
                          \/ k \in stranded
      BY <2>3, <3>1 DEF FilesAccounted
    <3>3. \/ \E v \in versions : Key(v) = k
          \/ \E i \in Handlers : call[i].pc \in {"create", "remove"} /\ Key(call[i]) = k
          \/ k \in stranded
      BY DEF CatalogInv, FilesAccounted
    <3>4. CASE k = Key(call[h])
      BY <2>3, <2>5, <3>4
    <3>5. CASE k # Key(call[h])
      BY <2>3, <2>10, <3>3, <3>5
    <3> QED BY <3>4, <3>5
  <2>19. CatalogConsistent'
    <3>1. \A e \in Documents : parent'[e] # Absent =>
            /\ \E v \in versions' :
                 v.doc = e /\ v.version = parent'[e].current /\ v.included = parent'[e].included
            /\ \A v \in versions' : v.doc = e => v.version <= parent'[e].current
      <4>1. SUFFICES ASSUME NEW e \in Documents, parent'[e] # Absent
                     PROVE  /\ \E v \in versions' : /\ v.doc = e /\ v.version = parent'[e].current
                                                    /\ v.included = parent'[e].included
                            /\ \A v \in versions' : v.doc = e => v.version <= parent'[e].current
        OBVIOUS
      <4>2. \A v \in versions' : v.doc = e => v.version <= parent'[e].current
        BY <2>17 DEF NoGaps
      <4>3. CASE e = d
        BY <2>3, <2>5, <2>12, <4>2, <4>3
      <4>4. CASE e # d
        BY <2>3, <2>12, <4>1, <4>2, <4>4 DEF CatalogInv, CatalogConsistent
      <4> QED BY <4>3, <4>4
    <3>2. reserved' = {Key(v) : v \in versions'}
      BY <2>3, <2>5 DEF CatalogInv, CatalogConsistent
    <3>3. \A v, w \in versions' : v.content = w.content => v = w
      <4>1. \A v, w \in versions : v.content = w.content => v = w
        BY DEF CatalogInv, CatalogConsistent
      <4> QED BY <2>3, <2>4, <2>5, <4>1
    <3> QED BY <3>1, <3>2, <3>3 DEF CatalogConsistent
  <2>20. ReportsShowReviewed'
    BY <1>1, <2>3, <2>5 DEF CatalogInv, ReportsShowReviewed
  <2> QED BY <2>10, <2>14, <2>15, <2>16, <2>17, <2>18, <2>19, <2>20 DEF CatalogInv
<1> QED BY <1>2, <1>3

\* The versions keep their numbers, contents and objects; only the rights of the
\* current one change, together with those of the record.
LEMMA UpdateRightsSafe ==
  ASSUME CatalogInv, NEW h \in Handlers, UpdateRights(h), UNCHANGED shown
  PROVE  CatalogInv'
<1> USE CallKnown
<1>1. /\ call[h].op = "update" /\ call[h].pc = "write" /\ Counted /\ End(h)
      /\ files' = files /\ stranded' = stranded /\ unread' = unread
      /\ requests' \in 0..MaxRequests /\ mishaps' \in 0..MaxMishaps /\ shown' \subseteq reviewed
  BY CountersTyped DEF UpdateRights, At
<1>2. CASE UNCHANGED <<catalog, reviewed>>
  BY <1>1, <1>2, QuietEnd DEF documentVars, history
<1>3. CASE ~ UNCHANGED <<catalog, reviewed>>
  <2>1. PICK d, n, rights : d = call[h].doc /\ n = call[h].prior.current /\ rights = NewRights(h)
    OBVIOUS
  <2>2. /\ parent[d].current = n /\ parent' = [parent EXCEPT ![d].included = rights]
        /\ versions' = (versions \ Stored(d, n))
             \cup {[r EXCEPT !.included = rights] : r \in Stored(d, n)}
        /\ reviewed' = IF call[h].patch = "include" THEN reviewed \cup {<<d, n>>} ELSE reviewed
        /\ reserved' = reserved
    BY <1>3, <2>1 DEF UpdateRights
  <2>3. d \in Documents /\ n # 0 /\ parent[d] \in Parent /\ call[h] \in CallType
    BY <1>1, <2>1 DEF ReviewOK, DocumentsTypeOK
  <2>4. n \in 1..MaxVersion /\ rights \in BOOLEAN
    <3>1. call[h].prior \in Parent
      BY DEF CallType
    <3>2. n \in 1..MaxVersion
      BY <2>1, <2>3, <3>1 DEF Parent
    <3>3. call[h].prior.included \in BOOLEAN
      BY <3>1 DEF Parent
    <3>4. rights = IF call[h].patch = "keep" THEN call[h].prior.included
                                             ELSE call[h].patch = "include"
      BY <2>1 DEF NewRights
    <3>5. rights \in BOOLEAN
      BY <3>3, <3>4, Zenon
    <3> QED BY <3>2, <3>5
  <2>5. rights => <<d, n>> \in reviewed'
    BY <1>1, <2>1, <2>2 DEF NewRights, ReviewOK
  <2>6. reviewed \subseteq reviewed' /\ reviewed' \subseteq Documents \X (1..MaxVersion)
    BY <2>2, <2>3, <2>4 DEF DocumentsTypeOK
  <2>7. PICK p : p = [parent[d] EXCEPT !.included = rights]
    OBVIOUS
  <2>8. p \in Parent /\ p.current = n /\ p.included = rights
    BY <2>2, <2>3, <2>4, <2>7 DEF Parent
  <2>9. /\ parent \in [Documents -> Parent] /\ parent' \in [Documents -> Parent]
        /\ parent'[d] = p /\ \A e \in Documents \ {d} : parent'[e] = parent[e]
    <3>1. parent \in [Documents -> Parent]
      BY DEF DocumentsTypeOK
    <3>2. parent' = [parent EXCEPT ![d] = p]
      BY <2>2, <2>7
    <3> QED BY <2>3, <2>8, <3>1, <3>2
  <2>10. \A e \in Documents : parent'[e].current = parent[e].current
    BY <2>2, <2>8, <2>9
  <2>11. versions \subseteq Version
    BY DEF DocumentsTypeOK
  \* The versions before and after, paired.
  <2>12. ASSUME NEW v \in versions
         PROVE  \E w \in versions' :
                  /\ w.doc = v.doc /\ w.version = v.version /\ w.content = v.content
                  /\ w.included = IF v.doc = d /\ v.version = n THEN rights ELSE v.included
    <3>1. CASE v \in Stored(d, n)
      <4>1. PICK w : w = [v EXCEPT !.included = rights]
        OBVIOUS
      <4>2. w \in versions'
        BY <2>2, <3>1, <4>1
      <4>3. w.doc = v.doc /\ w.version = v.version /\ w.content = v.content /\ w.included = rights
        BY <2>11, <4>1 DEF Version
      <4> QED BY <3>1, <4>2, <4>3 DEF Stored
    <3>2. CASE v \notin Stored(d, n)
      BY <2>2, <3>2 DEF Stored
    <3> QED BY <3>1, <3>2
  <2>13. ASSUME NEW w \in versions'
         PROVE  \E v \in versions :
                  /\ w = [doc |-> v.doc, version |-> v.version, content |-> v.content,
                          included |-> IF v.doc = d /\ v.version = n THEN rights ELSE v.included]
    <3>1. CASE w \in versions \ Stored(d, n)
      BY <2>11, <3>1 DEF Version, Stored
    <3>2. ASSUME NEW v \in Stored(d, n), w = [v EXCEPT !.included = rights]
          PROVE  v \in versions
                 /\ w = [doc |-> v.doc, version |-> v.version, content |-> v.content,
                         included |-> IF v.doc = d /\ v.version = n THEN rights ELSE v.included]
      <4>1. v \in versions /\ v.doc = d /\ v.version = n
        BY <3>2 DEF Stored
      <4> QED BY <2>11, <3>2, <4>1 DEF Version
    <3> QED BY <2>2, <3>1, <3>2
  <2>14. \A v \in versions : \E w \in versions' : Key(w) = Key(v)
    BY <2>12 DEF Key
  <2>15. \A w \in versions' : \E v \in versions : Key(w) = Key(v)
    BY <2>13 DEF Key
  <2>16. DocumentsTypeOK'
    <3>1. versions' \subseteq Version
      <4>1. SUFFICES ASSUME NEW w \in versions' PROVE w \in Version
        OBVIOUS
      <4>2. PICK v \in versions :
              w = [doc |-> v.doc, version |-> v.version, content |-> v.content,
                   included |-> IF v.doc = d /\ v.version = n THEN rights ELSE v.included]
        BY <2>13
      <4> QED BY <2>4, <2>11, <4>2 DEF Version
    <3> QED BY <1>1, <2>2, <2>6, <2>9, <3>1 DEF DocumentsTypeOK
  <2>17. /\ call' \in [Handlers -> CallType] /\ call'[h] = NoCall
         /\ \A g \in Handlers \ {h} : call'[g] = call[g]
    BY <1>1, OneMoves, IdleCall DEF End
  <2>18. \A g \in Handlers : UploadOK(call[g])' /\ ReviewOK(call[g])'
    <3>1. SUFFICES ASSUME NEW g \in Handlers
                   PROVE  UploadOK(call[g])' /\ ReviewOK(call[g])'
      OBVIOUS
    <3>2. CASE g = h
      BY <2>17, <3>2 DEF UploadOK, ReviewOK, Uploading, NoCall
    <3>3. CASE g # h
      <4>1. call'[g] = call[g] /\ UploadOK(call[g]) /\ ReviewOK(call[g])
        BY <2>17, <3>3
      <4>2. UploadOK(call[g])'
        BY <1>1, <2>10, <4>1 DEF UploadOK
      <4>3. ReviewOK(call[g])'
        BY <2>6, <4>1 DEF ReviewOK
      <4> QED BY <4>2, <4>3
    <3> QED BY <3>2, <3>3
  <2>19. UploadsApart'
    <3>1. NoCall.pc \notin Uploading
      BY DEF NoCall, Uploading
    <3> QED BY <2>17, <3>1 DEF CatalogInv, UploadsApart
  <2>20. NoGaps'
    <3>1. \A e \in Documents : parent'[e].current = 0 => parent'[e] = Absent
      BY <2>3, <2>8, <2>9 DEF CatalogInv, NoGaps
    <3>2. \A e \in Documents : \A m \in 1..parent'[e].current :
            \E v \in versions' : v.doc = e /\ v.version = m
      <4>1. SUFFICES ASSUME NEW e \in Documents, NEW m \in 1..parent'[e].current
                     PROVE  \E w \in versions' : w.doc = e /\ w.version = m
        OBVIOUS
      <4>2. PICK v \in versions : v.doc = e /\ v.version = m
        BY <2>10, <4>1 DEF CatalogInv, NoGaps
      <4> QED BY <2>12, <4>2
    <3>3. \A w \in versions' : w.version <= parent'[w.doc].current
      <4>1. SUFFICES ASSUME NEW w \in versions'
                     PROVE  w.version <= parent'[w.doc].current
        OBVIOUS
      <4>2. PICK v \in versions : w.doc = v.doc /\ w.version = v.version
        BY <2>13
      <4>3. v.version <= parent[v.doc].current /\ v.doc \in Documents
        BY <2>11 DEF CatalogInv, NoGaps, Version
      <4> QED BY <2>10, <4>2, <4>3
    <3> QED BY <3>1, <3>2, <3>3 DEF NoGaps
  <2>21. FilesAccounted'
    <3>1. \A w \in versions' : Key(w) \in files \cup unread
      BY <2>15 DEF CatalogInv, FilesAccounted
    <3>2. \A i \in Handlers : call[i].pc \in {"create", "remove"} => call'[i] = call[i]
      BY <1>1, <2>17
    <3>3. SUFFICES ASSUME NEW k \in files
                   PROVE  \/ \E w \in versions' : Key(w) = k
                          \/ \E i \in Handlers :
                               call'[i].pc \in {"create", "remove"} /\ Key(call'[i]) = k
                          \/ k \in stranded
      BY <1>1, <3>1 DEF FilesAccounted
    <3>4. \/ \E v \in versions : Key(v) = k
          \/ \E i \in Handlers : call[i].pc \in {"create", "remove"} /\ Key(call[i]) = k
          \/ k \in stranded
      BY DEF CatalogInv, FilesAccounted
    <3> QED BY <2>14, <3>2, <3>4
  <2>22. CatalogConsistent'
    <3>1. \A e \in Documents : parent'[e] # Absent =>
            /\ \E v \in versions' :
                 v.doc = e /\ v.version = parent'[e].current /\ v.included = parent'[e].included
            /\ \A v \in versions' : v.doc = e => v.version <= parent'[e].current
      <4>1. SUFFICES ASSUME NEW e \in Documents, parent'[e] # Absent
                     PROVE  /\ \E w \in versions' : /\ w.doc = e /\ w.version = parent'[e].current
                                                    /\ w.included = parent'[e].included
                            /\ \A w \in versions' : w.doc = e => w.version <= parent'[e].current
        OBVIOUS
      <4>2. \A w \in versions' : w.doc = e => w.version <= parent'[e].current
        BY <2>20 DEF NoGaps
      <4>3. parent[e] # Absent
        <5>1. CASE e = d
          BY <2>2, <2>3, <5>1 DEF Absent
        <5>2. CASE e # d
          BY <2>9, <4>1, <5>2
        <5> QED BY <5>1, <5>2
      <4>4. PICK v \in versions :
              v.doc = e /\ v.version = parent[e].current /\ v.included = parent[e].included
        BY <4>3 DEF CatalogInv, CatalogConsistent
      <4>5. PICK w \in versions' :
              /\ w.doc = v.doc /\ w.version = v.version
              /\ w.included = IF v.doc = d /\ v.version = n THEN rights ELSE v.included
        BY <2>12
      <4>6. w.doc = e /\ w.version = parent'[e].current
        BY <2>10, <4>4, <4>5
      <4>7. w.included = parent'[e].included
        BY <2>2, <2>8, <2>9, <4>4, <4>5
      <4> QED BY <4>2, <4>6, <4>7
    <3>2. reserved' = {Key(w) : w \in versions'}
      <4>1. reserved = {Key(v) : v \in versions}
        BY DEF CatalogInv, CatalogConsistent
      <4>2. \A k : (\E v \in versions : k = Key(v)) <=> (\E w \in versions' : k = Key(w))
        BY <2>14, <2>15
      <4>3. {Key(v) : v \in versions} = {Key(w) : w \in versions'}
        BY <4>2
      <4> QED BY <2>2, <4>1, <4>3
    <3>3. \A v, w \in versions' : v.content = w.content => v = w
      <4>1. SUFFICES ASSUME NEW v \in versions', NEW w \in versions', v.content = w.content
                     PROVE  v = w
        OBVIOUS
      <4>2. PICK x \in versions :
              v = [doc |-> x.doc, version |-> x.version, content |-> x.content,
                   included |-> IF x.doc = d /\ x.version = n THEN rights ELSE x.included]
        BY <2>13
      <4>3. PICK y \in versions :
              w = [doc |-> y.doc, version |-> y.version, content |-> y.content,
                   included |-> IF y.doc = d /\ y.version = n THEN rights ELSE y.included]
        BY <2>13
      <4>4. x.content = y.content
        BY <4>1, <4>2, <4>3
      <4>5. x = y
        BY <4>4 DEF CatalogInv, CatalogConsistent
      <4> QED BY <4>2, <4>3, <4>5
    <3> QED BY <3>1, <3>2, <3>3 DEF CatalogConsistent
  <2>23. ReportsShowReviewed'
    <3>1. \A w \in versions' : w.included => <<w.doc, w.version>> \in reviewed'
      <4>1. SUFFICES ASSUME NEW w \in versions', w.included
                     PROVE  <<w.doc, w.version>> \in reviewed'
        OBVIOUS
      <4>2. PICK v \in versions :
              /\ w.doc = v.doc /\ w.version = v.version
              /\ w.included = IF v.doc = d /\ v.version = n THEN rights ELSE v.included
        BY <2>13
      <4>3. CASE v.doc = d /\ v.version = n
        BY <2>5, <4>1, <4>2, <4>3
      <4>4. CASE ~(v.doc = d /\ v.version = n)
        BY <2>6, <4>1, <4>2, <4>4 DEF CatalogInv, ReportsShowReviewed
      <4> QED BY <4>3, <4>4
    <3> QED BY <1>1, <2>6, <3>1 DEF ReportsShowReviewed
  <2> QED BY <2>16, <2>17, <2>18, <2>19, <2>20, <2>21, <2>22, <2>23 DEF CatalogInv
<1> QED BY <1>2, <1>3

\* What was uploaded before: nothing, or one version of one document.
LEMMA CatalogStarts ==
  ASSUME NEW rs \in SUBSET Version, \A v, w \in rs : v = w, \A v \in rs : v.version = 1,
         DocumentsInit(rs), shown = {}
  PROVE  CatalogInv
<1>1. /\ versions = rs /\ reserved = {Key(r) : r \in rs} /\ files = {Key(r) : r \in rs}
      /\ call = [h \in Handlers |-> NoCall] /\ stranded = {} /\ unread = {}
      /\ reviewed = {<<r.doc, r.version>> : r \in {x \in rs : x.included}}
      /\ requests = 0 /\ mishaps = 0
  BY DEF DocumentsInit
<1>2. \A d \in Documents :
        parent[d] = IF \E r \in rs : r.doc = d
                    THEN LET r == CHOOSE r \in rs : r.doc = d
                         IN [current |-> r.version, included |-> r.included]
                    ELSE Absent
  BY DEF DocumentsInit
<1>3. \A d \in Documents, r \in rs :
        r.doc = d => parent[d] = [current |-> 1, included |-> r.included]
  <2>1. SUFFICES ASSUME NEW d \in Documents, NEW r \in rs, r.doc = d
                 PROVE  parent[d] = [current |-> 1, included |-> r.included]
    OBVIOUS
  <2>2. (CHOOSE x \in rs : x.doc = d) = r
    BY <2>1
  <2> QED BY <1>2, <2>1, <2>2
<1>4. \A d \in Documents : (\A r \in rs : r.doc # d) => parent[d] = Absent
  BY <1>2
<1>5. 1 \in 0..MaxVersion /\ 1 \in 1..MaxVersion
  BY BoundsAssumption
<1>6. \A d \in Documents : /\ parent[d] \in Parent
                           /\ \/ parent[d] = Absent
                              \/ parent[d].current = 1 /\ \E r \in rs : r.doc = d
  <2>1. SUFFICES ASSUME NEW d \in Documents
                 PROVE  /\ parent[d] \in Parent
                        /\ \/ parent[d] = Absent
                           \/ parent[d].current = 1 /\ \E r \in rs : r.doc = d
    OBVIOUS
  <2>2. CASE \A r \in rs : r.doc # d
    BY <1>4, <2>2, IdleCall
  <2>3. ASSUME NEW r \in rs, r.doc = d
        PROVE  parent[d] \in Parent /\ parent[d].current = 1
    <3>1. parent[d] = [current |-> 1, included |-> r.included] /\ r.included \in BOOLEAN
      BY <1>3, <2>3 DEF Version
    <3> QED BY <1>5, <3>1 DEF Parent
  <2> QED BY <2>2, <2>3
<1>7. DocumentsTypeOK
  <2>1. parent \in [Documents -> Parent]
    BY <1>6 DEF DocumentsInit
  <2>2. reserved \subseteq Keys
    BY <1>1 DEF Version, Key, Keys
  <2>3. reviewed \subseteq Documents \X (1..MaxVersion)
    BY <1>1 DEF Version
  <2>4. requests \in 0..MaxRequests /\ mishaps \in 0..MaxMishaps
    BY <1>1, BoundsAssumption
  <2> QED BY <1>1, <2>1, <2>2, <2>3, <2>4 DEF DocumentsTypeOK
<1>8. /\ call \in [Handlers -> CallType] /\ UploadsApart
      /\ \A h \in Handlers : UploadOK(call[h]) /\ ReviewOK(call[h])
  <2>1. NoCall.pc \notin Uploading
    BY DEF NoCall, Uploading
  <2> QED BY <1>1, <2>1, IdleCall DEF UploadsApart
<1>9. NoGaps
  <2>1. \A d \in Documents : parent[d].current = 0 => parent[d] = Absent
    BY <1>6
  <2>2. \A d \in Documents : \A n \in 1..parent[d].current :
          \E r \in versions : r.doc = d /\ r.version = n
    <3>1. SUFFICES ASSUME NEW d \in Documents, NEW n \in 1..parent[d].current
                   PROVE  \E r \in versions : r.doc = d /\ r.version = n
      OBVIOUS
    <3>2. parent[d] # Absent
      BY <3>1 DEF Absent
    <3>3. PICK r \in rs : r.doc = d
      BY <1>6, <3>2
    <3>4. n = 1
      BY <1>6, <3>1, <3>2
    <3> QED BY <1>1, <3>3, <3>4
  <2>3. \A r \in versions : r.version <= parent[r.doc].current
    <3>1. SUFFICES ASSUME NEW r \in rs PROVE r.version <= parent[r.doc].current
      BY <1>1
    <3>2. r.doc \in Documents
      BY DEF Version
    <3>3. parent[r.doc] = [current |-> 1, included |-> r.included]
      BY <1>3, <3>2
    <3> QED BY <3>3
  <2> QED BY <2>1, <2>2, <2>3 DEF NoGaps
<1>10. FilesAccounted
  BY <1>1 DEF FilesAccounted
<1>11. CatalogConsistent
  <2>1. ASSUME NEW d \in Documents, parent[d] # Absent
        PROVE  /\ \E r \in versions :
                    r.doc = d /\ r.version = parent[d].current /\ r.included = parent[d].included
               /\ \A r \in versions : r.doc = d => r.version <= parent[d].current
    <3>1. PICK r \in rs : r.doc = d
      BY <1>4, <2>1
    <3>2. parent[d] = [current |-> 1, included |-> r.included]
      BY <1>3, <3>1
    <3> QED BY <1>1, <3>1, <3>2
  <2> QED BY <1>1, <2>1 DEF CatalogConsistent
<1>12. ReportsShowReviewed
  BY <1>1 DEF ReportsShowReviewed
<1> QED BY <1>7, <1>8, <1>9, <1>10, <1>11, <1>12 DEF CatalogInv

\* Every step of the route keeps the invariant of the documents.
LEMMA CatalogKept == CatalogInv /\ [Next]_vars => CatalogInv'
<1>1. SUFFICES ASSUME CatalogInv, [Next]_vars PROVE CatalogInv'
  OBVIOUS
<1>2. ASSUME NEW h \in Handlers, DocumentRequests(h), UNCHANGED libraryVars PROVE CatalogInv'
  <2>1. UNCHANGED shown
    BY <1>2 DEF libraryVars
  <2> QED BY <1>1, <1>2, <2>1, UploadSafe, UpdateSafe DEF DocumentRequests
<1>3. ASSUME NEW h \in Handlers, DocumentSteps(h), UNCHANGED libraryVars PROVE CatalogInv'
  <2>1. UNCHANGED shown
    BY <1>3 DEF libraryVars
  <2> QED BY <1>1, <1>3, <2>1, ReadParentSafe, FindDuplicateSafe, NumberVersionSafe, PutSafe,
             LosePutSafe, CreateVersionSafe, ReadBackParentSafe, ReadBackVersionsSafe,
             CleanUpSafe, CheckUpdateSafe, UpdateRightsSafe, ThrowSafe, LoseSafe
          DEF DocumentSteps
<1>4. ASSUME UNCHANGED <<documentVars, call, mishaps, shown>>, requests' \in 0..MaxRequests
      PROVE  CatalogInv'
  <2>1. /\ parent' = parent /\ versions' = versions /\ reserved' = reserved /\ files' = files
        /\ stranded' = stranded /\ unread' = unread /\ reviewed' = reviewed
        /\ call' = call /\ mishaps' = mishaps /\ shown' = shown
    BY <1>4 DEF documentVars, catalog, history
  <2>2. DocumentsTypeOK'
    BY <1>1, <1>4, <2>1 DEF CatalogInv, DocumentsTypeOK
  <2>3. call' \in [Handlers -> CallType] /\ UploadsApart' /\ NoGaps'
    BY <1>1, <2>1 DEF CatalogInv, UploadsApart, NoGaps
  <2>4. \A h \in Handlers : UploadOK(call[h])' /\ ReviewOK(call[h])'
    BY <1>1, <2>1 DEF CatalogInv, UploadOK, ReviewOK
  <2>5. FilesAccounted' /\ CatalogConsistent' /\ ReportsShowReviewed'
    BY <1>1, <2>1 DEF CatalogInv, FilesAccounted, CatalogConsistent, ReportsShowReviewed
  <2> QED BY <2>2, <2>3, <2>4, <2>5 DEF CatalogInv
<1>5. ASSUME NEW r \in Reports, NEW w \in Viewers, Revoke(r, w) PROVE CatalogInv'
  <2>1. requests' \in 0..MaxRequests
    BY <1>1, <1>5, CountersTyped DEF Revoke, CatalogInv
  <2> QED BY <1>4, <1>5, <2>1 DEF Revoke
<1>6. CASE UNCHANGED vars
  <2>1. requests' \in 0..MaxRequests
    BY <1>1, <1>6 DEF vars, CatalogInv, DocumentsTypeOK
  <2> QED BY <1>4, <1>6, <2>1 DEF vars, libraryVars
<1> QED BY <1>1, <1>2, <1>3, <1>5, <1>6, LibraryRequestSafe, LibraryStepSafe DEF Next

\* The documents are consistent in every state the route can reach.
THEOREM CatalogInvariant == Spec => []CatalogInv
<1>1. Init => CatalogInv
  <2>1. SUFFICES ASSUME NEW d \in Documents, NEW c \in Contents,
                        \/ DocumentsInit({})
                        \/ DocumentsInit({[doc |-> d, version |-> 1, content |-> c, included |-> TRUE]}),
                        shown = {}
                 PROVE  CatalogInv
    BY DEF Init, LibraryInit
  <2>2. CASE DocumentsInit({})
    BY <2>1, <2>2, CatalogStarts
  <2>3. CASE DocumentsInit({[doc |-> d, version |-> 1, content |-> c, included |-> TRUE]})
    <3>1. PICK v : v = [doc |-> d, version |-> 1, content |-> c, included |-> TRUE]
      OBVIOUS
    <3>2. v \in Version /\ v.version = 1
      BY <3>1, BoundsAssumption DEF Version
    <3>3. {v} \in SUBSET Version /\ (\A x, y \in {v} : x = y) /\ \A x \in {v} : x.version = 1
      BY <3>2
    <3>4. DocumentsInit({v})
      BY <2>3, <3>1
    <3> QED BY <2>1, <3>3, <3>4, CatalogStarts
  <2> QED BY <2>1, <2>2, <2>3
<1> QED BY <1>1, CatalogKept, PTL DEF Spec

\* Every version keeps its file unless an upload removed its own committed version,
\* and every file that belongs to no version is being uploaded or is known to have
\* been left behind: store, commit and clean-up are separate steps of each upload.
THEOREM NoFileIsLost == Spec => []FilesAccounted
BY CatalogInvariant, PTL DEF CatalogInv

\* The record of a document names its highest version and carries its rights, and
\* no content is in two versions, although each upload numbered its version and
\* looked for duplicates long before it was committed.
THEOREM RecordsMatchVersions == Spec => []CatalogConsistent
BY CatalogInvariant, PTL DEF CatalogInv

\* A version in reports was included as the version it is.
THEOREM OnlyReviewedIsShown == Spec => []ReportsShowReviewed
BY CatalogInvariant, PTL DEF CatalogInv

-----------------------------------------------------------------------------
(* The reports: one step at a time.                                        *)

\* A report that is being made was linked.
LEMMA MadeIsIssued ==
  ASSUME LibraryInv
  PROVE  /\ BeingMade \subseteq issued /\ issued \subseteq Reports /\ None \notin issued
         /\ \A x \in Reports : Registering(x) <=> x \in BeingMade
<1>1. issued \subseteq Reports /\ None \notin issued
  BY ReportsAssumption DEF LibraryInv, LibraryType
<1>2. ASSUME NEW h \in Handlers, Making(call[h]) # None PROVE Making(call[h]) \in issued
  BY <1>2 DEF LibraryInv, ServesReport, Making
<1>3. \A x \in Reports : Registering(x) <=> x \in BeingMade
  BY ReportsAssumption DEF Registering, BeingMade, Making
<1> QED BY <1>1, <1>2, <1>3 DEF BeingMade

\* Whose report is being made, after a step that starts none and ends none.
LEMMA MakingStays ==
  ASSUME call \in [Handlers -> CallType], OneMaker, NEW h \in Handlers, NEW r \in CallType,
         call' = [call EXCEPT ![h] = r], Making(r) = Making(call[h])
  PROVE  BeingMade' = BeingMade /\ OneMaker'
<1>1. \A g \in Handlers : Making(call'[g]) = Making(call[g])
  BY OneMoves
<1>2. BeingMade' = {Making(call'[g]) : g \in Handlers} \ {None}
  BY DEF BeingMade, Making
<1>3. OneMaker' <=> \A f, g \in Handlers :
        Making(call'[f]) = Making(call'[g]) /\ Making(call'[f]) # None => f = g
  BY DEF OneMaker, Making
<1> QED BY <1>1, <1>2, <1>3 DEF BeingMade, OneMaker

\* The request that made a report is done with it; nobody else makes it.
LEMMA MakingEnds ==
  ASSUME call \in [Handlers -> CallType], OneMaker, NEW h \in Handlers, NEW r \in CallType,
         call' = [call EXCEPT ![h] = r], Making(r) = None
  PROVE  BeingMade' = BeingMade \ {Making(call[h])} /\ OneMaker'
<1>1. Making(call'[h]) = None /\ \A g \in Handlers \ {h} : Making(call'[g]) = Making(call[g])
  BY OneMoves
<1>2. BeingMade' = {Making(call'[g]) : g \in Handlers} \ {None}
  BY DEF BeingMade, Making
<1>3. OneMaker' <=> \A f, g \in Handlers :
        Making(call'[f]) = Making(call'[g]) /\ Making(call'[f]) # None => f = g
  BY DEF OneMaker, Making
<1> QED BY <1>1, <1>2, <1>3 DEF BeingMade, OneMaker

\* A request starts to make a report nobody makes.
LEMMA MakingStarts ==
  ASSUME call \in [Handlers -> CallType], OneMaker, NEW h \in Handlers, NEW r \in CallType,
         call' = [call EXCEPT ![h] = r], Making(call[h]) = None,
         Making(r) # None, Making(r) \notin BeingMade
  PROVE  BeingMade' = BeingMade \cup {Making(r)} /\ OneMaker'
<1>1. Making(call'[h]) = Making(r) /\ \A g \in Handlers \ {h} : Making(call'[g]) = Making(call[g])
  BY OneMoves
<1>2. BeingMade' = {Making(call'[g]) : g \in Handlers} \ {None}
  BY DEF BeingMade, Making
<1>3. OneMaker' <=> \A f, g \in Handlers :
        Making(call'[f]) = Making(call'[g]) /\ Making(call'[f]) # None => f = g
  BY DEF OneMaker, Making
<1> QED BY <1>1, <1>2, <1>3 DEF BeingMade, OneMaker

\* What the other requests rely on survives a step that only makes, files and
\* registers a report of its own, adds marks, and grants what is not being removed.
LEMMA OthersKeep ==
  ASSUME LibraryType, NEW j \in CallType, ServesReport(j), RemovalOK(j),
         issued \subseteq issued', BeingMade' \cap issued \subseteq BeingMade,
         stored' \subseteq stored \cup BeingMade, manifests' \subseteq manifests \cup BeingMade,
         unfinished \subseteq unfinished', raced \subseteq raced',
         j.op = "report" /\ j.pc = "store" => j.report \in stored \/ j.report \notin stored',
         j.op = "remove" /\ j.pc = "revoke" =>
           \A w \in Viewers : <<j.report, w>> \in grants' \ grants => j.report \in raced'
  PROVE  ServesReport(j)' /\ RemovalOK(j)'
<1>1. ServesReport(j)'
  BY DEF ServesReport
<1>2. j.op = "remove" => j.report \in issued
  BY DEF ServesReport
<1>3. RemovalOK(j)'
  BY <1>2 DEF RemovalOK
<1> QED BY <1>1, <1>3

\* The parts of the invariant of the reports, put together again.
LEMMA LibraryRejoins ==
  ASSUME call \in [Handlers -> CallType], NEW h \in Handlers, NEW r \in CallType,
         call' = [call EXCEPT ![h] = r], LibraryType', ServesReport(r)', RemovalOK(r)',
         \A j \in CallType : (\E g \in Handlers \ {h} : call[g] = j) => ServesReport(j)' /\ RemovalOK(j)',
         OneMaker', ReportsTracked'
  PROVE  LibraryInv'
<1>1. SUFFICES ASSUME NEW g \in Handlers
               PROVE  ServesReport(call[g])' /\ RemovalOK(call[g])'
  BY DEF LibraryInv
<1>2. CASE g = h
  <2>1. call'[g] = r
    BY <1>2, OneMoves
  <2> QED BY <2>1 DEF ServesReport, RemovalOK
<1>3. CASE g # h
  <2>1. PICK j \in CallType : j = call[g]
    OBVIOUS
  <2>2. call'[g] = j
    BY <1>3, <2>1, OneMoves
  <2>3. ServesReport(j)' /\ RemovalOK(j)'
    BY <1>3, <2>1
  <2> QED BY <2>2, <2>3 DEF ServesReport, RemovalOK
<1> QED BY <1>2, <1>3

\* What the invariant says of one handler.
LEMMA ReportKnown ==
  ASSUME LibraryInv, call \in [Handlers -> CallType], NEW h \in Handlers
  PROVE  /\ LibraryType /\ OneMaker /\ ReportsTracked
         /\ call[h] \in CallType /\ ServesReport(call[h]) /\ RemovalOK(call[h])
         /\ \A j \in CallType : (\E g \in Handlers : call[g] = j) => ServesReport(j) /\ RemovalOK(j)
BY DEF LibraryInv

\* A step that leaves the reports alone, and starts and ends none.
LEMMA QuietLibrary ==
  ASSUME LibraryInv, call \in [Handlers -> CallType], NEW h \in Handlers, NEW r \in CallType,
         call' = [call EXCEPT ![h] = r], Making(r) = Making(call[h]), ServesReport(r),
         UNCHANGED <<links, stored, manifests, grants, issued, unfinished, raced>>,
         RemovalOK(r)
  PROVE  LibraryInv'
<1> USE ReportKnown
<1>1. BeingMade' = BeingMade /\ OneMaker'
  BY MakingStays
<1>2. LibraryType' /\ ReportsTracked'
  BY <1>1 DEF LibraryType, ReportsTracked
<1>3. ServesReport(r)' /\ RemovalOK(r)'
  BY <1>1 DEF ServesReport, RemovalOK
<1>4. ASSUME NEW j \in CallType, \E g \in Handlers \ {h} : call[g] = j
      PROVE  ServesReport(j)' /\ RemovalOK(j)'
  BY <1>1, <1>4, OthersKeep
<1> QED BY <1>1, <1>2, <1>3, <1>4, LibraryRejoins

\* An idle handler, whatever it was doing before, unless that was making a report.
LEMMA QuietLibraryEnd ==
  ASSUME LibraryInv, call \in [Handlers -> CallType], NEW h \in Handlers, End(h),
         Making(call[h]) = None,
         UNCHANGED <<links, stored, manifests, grants, issued, unfinished, raced>>
  PROVE  LibraryInv'
<1>1. ServesReport(NoCall) /\ RemovalOK(NoCall)
  BY DEF NoCall, ServesReport, RemovalOK
<1> QED BY <1>1, IdleCall, QuietLibrary DEF End

\* A handler reads, stores or commits a document.
LEMMA DocumentMove ==
  ASSUME LibraryInv, call \in [Handlers -> CallType], NEW h \in Handlers, UNCHANGED libraryVars,
         NEW r \in CallType, call' = [call EXCEPT ![h] = r],
         r.op \in {"upload", "update"}, call[h].op \in {"idle", "upload", "update"}
  PROVE  LibraryInv'
<1>1. Making(r) = Making(call[h])
  BY DEF Making
<1>2. ServesReport(r) /\ RemovalOK(r)
  BY DEF ServesReport, RemovalOK
<1>3. UNCHANGED <<links, stored, manifests, grants, issued, unfinished, raced>>
  BY DEF libraryVars
<1> QED BY <1>1, <1>2, <1>3, QuietLibrary

\* A report reads a document before it is linked.
LEMMA ReadingKeepsReports ==
  ASSUME LibraryInv, CatalogInv, NEW h \in Handlers, UNCHANGED libraryVars,
         ReadParent(h), call[h].op = "report"
  PROVE  LibraryInv'
<1> USE CallKnown, ReportKnown
<1>1. call[h].pc = "parent" /\ call[h].report = None
  BY DEF ReadParent, At, ServesReport
<1>2. Making(call[h]) = None
  BY <1>1 DEF Making
<1>3. UNCHANGED <<links, stored, manifests, grants, issued, unfinished, raced>>
  BY DEF libraryVars
<1>4. CASE End(h)
  BY <1>2, <1>3, <1>4, QuietLibraryEnd
<1>5. CASE call' = OldParent(h)
  <2>1. PICK p : p = parent[call[h].doc]
    OBVIOUS
  <2>2. p \in Parent
    BY <2>1 DEF ReviewOK, DocumentsTypeOK
  <2>3. PICK r : r = [call[h] EXCEPT !.prior = p, !.pc = "versions"]
    OBVIOUS
  <2>4. r \in CallType
    BY <2>2, <2>3, CallChanges
  <2>5. call' = [call EXCEPT ![h] = r]
    BY <1>5, <2>1, <2>3 DEF OldParent, CallType
  <2>6. r.op = "report" /\ r.report = None /\ r.pc = "versions"
    BY <1>1, <2>3 DEF CallType
  <2>7. Making(r) = Making(call[h]) /\ ServesReport(r) /\ RemovalOK(r)
    BY <1>2, <2>6 DEF Making, ServesReport, RemovalOK
  <2> QED BY <1>3, <2>4, <2>5, <2>7, QuietLibrary
<1>6. CASE call' = [call EXCEPT ![h].version = 0, ![h].pc = "link"]
  <2>1. PICK r : r = [call[h] EXCEPT !.version = 0, !.pc = "link"]
    OBVIOUS
  <2>2. call' = [call EXCEPT ![h] = r]
    BY <1>6, <2>1, VersionAndPlace
  <2>3. r \in CallType
    BY <2>1, CallChanges
  <2>4. r.op = "report" /\ r.report = None /\ r.pc = "link"
    BY <1>1, <2>1 DEF CallType
  <2>5. Making(r) = Making(call[h]) /\ ServesReport(r) /\ RemovalOK(r)
    BY <1>2, <2>4 DEF Making, ServesReport, RemovalOK
  <2> QED BY <1>3, <2>2, <2>3, <2>5, QuietLibrary
<1> QED BY <1>4, <1>5, <1>6 DEF ReadParent

\* Requests for documents neither make nor serve a report.
LEMMA DocumentsKeepReports ==
  ASSUME LibraryInv, CatalogInv, CatalogInv', NEW h \in Handlers, UNCHANGED libraryVars,
         DocumentRequests(h) \/ DocumentSteps(h)
  PROVE  LibraryInv'
<1>1. /\ call \in [Handlers -> CallType] /\ call' \in [Handlers -> CallType]
      /\ call[h] \in CallType /\ call'[h] \in CallType
  BY DEF CatalogInv
<1>2. ASSUME NEW r, call' = [call EXCEPT ![h] = r] PROVE r \in CallType
  <2>1. call'[h] = r
    BY <1>1, <1>2
  <2> QED BY <1>1, <2>1
<1> DEFINE Document == call[h].op \in {"upload", "update"}
<1>3. Document => Making(call[h]) = None
  BY DEF Making
<1>4. ASSUME End(h), Document
      PROVE  LibraryInv'
  <2>1. UNCHANGED <<links, stored, manifests, grants, issued, unfinished, raced>>
    BY DEF libraryVars
  <2> QED BY <1>1, <1>3, <1>4, <2>1, QuietLibraryEnd
<1>5. ASSUME NEW pc, Goto(h, pc), Document
      PROVE  LibraryInv'
  <2>1. PICK r : r = [call[h] EXCEPT !.pc = pc]
    OBVIOUS
  <2>2. call' = [call EXCEPT ![h] = r]
    BY <1>1, <1>5, <2>1, OnlyPlace DEF Goto
  <2>3. r.op = call[h].op /\ r \in CallType
    BY <1>1, <1>2, <2>1, <2>2 DEF CallType
  <2> QED BY <1>1, <1>5, <2>2, <2>3, DocumentMove
<1>6. ASSUME NEW n, NEW pc, call' = [call EXCEPT ![h].version = n, ![h].pc = pc], Document
      PROVE  LibraryInv'
  <2>1. PICK r : r = [call[h] EXCEPT !.version = n, !.pc = pc]
    OBVIOUS
  <2>2. call' = [call EXCEPT ![h] = r]
    BY <1>1, <1>6, <2>1, VersionAndPlace
  <2>3. r.op = call[h].op /\ r \in CallType
    BY <1>1, <1>2, <2>1, <2>2 DEF CallType
  <2> QED BY <1>1, <1>6, <2>2, <2>3, DocumentMove
<1>7. ASSUME NEW p, NEW pc, call' = [call EXCEPT ![h].prior = p, ![h].pc = pc], Document
      PROVE  LibraryInv'
  <2>1. PICK r : r = [call[h] EXCEPT !.prior = p, !.pc = pc]
    OBVIOUS
  <2>2. call' = [call EXCEPT ![h] = r]
    BY <1>1, <1>7, <2>1, PriorAndPlace
  <2>3. r.op = call[h].op /\ r \in CallType
    BY <1>1, <1>2, <2>1, <2>2 DEF CallType
  <2> QED BY <1>1, <1>7, <2>2, <2>3, DocumentMove
<1>8. ASSUME NEW r, Receive(h, r), r.op \in {"upload", "update"}
      PROVE  LibraryInv'
  <2>1. call' = [call EXCEPT ![h] = r] /\ call[h].op = "idle"
    BY <1>8 DEF Receive, NoCall
  <2>2. r \in CallType
    BY <1>2, <2>1
  <2> QED BY <1>1, <1>8, <2>1, <2>2, DocumentMove
<1>9. CASE DocumentRequests(h)
  <2>1. ASSUME NEW d, NEW c, NEW fresh, Upload(h, d, c, fresh) PROVE LibraryInv'
    <3>1. PICK r : r = [NoCall EXCEPT !.op = "upload", !.pc = "duplicate", !.doc = d,
                                      !.content = c, !.fresh = fresh]
      OBVIOUS
    <3>2. Receive(h, r) /\ r.op \in {"upload", "update"}
      BY <2>1, <3>1 DEF Upload, NoCall
    <3> QED BY <1>8, <3>2
  <2>2. ASSUME NEW d, NEW patch, Update(h, d, patch) PROVE LibraryInv'
    <3>1. PICK r : r = [NoCall EXCEPT !.op = "update", !.pc = "parent", !.doc = d, !.patch = patch]
      OBVIOUS
    <3>2. Receive(h, r) /\ r.op \in {"upload", "update"}
      BY <2>2, <3>1 DEF Update, NoCall
    <3> QED BY <1>8, <3>2
  <2> QED BY <1>9, <2>1, <2>2 DEF DocumentRequests
<1>10. CASE ReadParent(h)
  <2>1. OldParent(h) = [call EXCEPT ![h].prior = parent[call[h].doc], ![h].pc = "versions"]
    BY DEF OldParent
  <2>2. CASE call[h].op = "report"
    BY <1>10, <2>2, ReadingKeepsReports
  <2>3. CASE call[h].op # "report"
    BY <1>4, <1>7, <1>10, <2>1, <2>3 DEF ReadParent, At
  <2> QED BY <2>2, <2>3
<1>11. CASE FindDuplicate(h)
  BY <1>4, <1>5, <1>6, <1>11 DEF FindDuplicate, At
<1>12. CASE NumberVersion(h)
  BY <1>4, <1>6, <1>12 DEF NumberVersion, At
<1>13. CASE Put(h) \/ LosePut(h) \/ CreateVersion(h) \/ CleanUp(h) \/ ReadBackVersions(h)
  BY <1>4, <1>5, <1>13 DEF Put, LosePut, CreateVersion, CleanUp, ReadBackVersions, At
<1>14. CASE ReadBackParent(h)
  <2>1. PICK p : p = parent[call[h].doc]
    OBVIOUS
  <2>2. PICK r : r = [call[h] EXCEPT !.prior = p, !.pc = "backVersions"]
    OBVIOUS
  <2>3. call' = [call EXCEPT ![h] = r]
    BY <1>1, <1>14, <2>1, <2>2, ParentReadBack
  <2>4. r \in CallType
    BY <1>2, <2>3
  <2>5. r.op = call[h].op
    BY <1>1, <2>2 DEF CallType
  <2>6. Document
    BY <1>14 DEF ReadBackParent, At
  <2> QED BY <1>1, <2>3, <2>4, <2>5, <2>6, DocumentMove
<1>15. CASE CheckUpdate(h) \/ UpdateRights(h) \/ Throw(h) \/ Lose(h)
  BY <1>4, <1>5, <1>15 DEF CheckUpdate, UpdateRights, Throw, Lose, At
<1> QED BY <1>9, <1>10, <1>11, <1>12, <1>13, <1>14, <1>15 DEF DocumentSteps

\* A handler goes on; what it is about stays.
LEMMA GoesOn ==
  ASSUME call \in [Handlers -> CallType], call' \in [Handlers -> CallType],
         NEW h \in Handlers, NEW pc, Goto(h, pc)
  PROVE  \E r \in CallType :
           /\ call' = [call EXCEPT ![h] = r] /\ r.pc = pc
           /\ r.op = call[h].op /\ r.report = call[h].report /\ r.viewer = call[h].viewer
           /\ r.listed = call[h].listed
<1>1. PICK r : r = [call[h] EXCEPT !.pc = pc]
  OBVIOUS
<1>2. call' = [call EXCEPT ![h] = r]
  BY <1>1 DEF Goto, CallType
<1>3. r \in CallType
  <2>1. call'[h] = r
    BY <1>2
  <2> QED BY <2>1
<1>4. /\ r.pc = pc /\ r.op = call[h].op /\ r.report = call[h].report
      /\ r.viewer = call[h].viewer /\ r.listed = call[h].listed
  BY <1>1 DEF CallType
<1> QED BY <1>2, <1>3, <1>4

\* The document chosen for a report is noted field by field.
LEMMA ChoiceNoted ==
  ASSUME call \in [Handlers -> CallType], NEW h \in Handlers, NEW pc, NEW n, NEW c
  PROVE  [call EXCEPT ![h].pc = pc, ![h].version = n, ![h].content = c]
           = [call EXCEPT ![h] = [call[h] EXCEPT !.pc = pc, !.version = n, !.content = c]]
BY DEF CallType

\* Requests of the library are about reports that were linked.
LEMMA RequestsKeepReports ==
  ASSUME LibraryInv, CatalogInv, CatalogInv', NEW h \in Handlers, LibraryRequests(h)
  PROVE  LibraryInv'
<1>1. /\ call \in [Handlers -> CallType] /\ call' \in [Handlers -> CallType]
      /\ call[h] \in CallType /\ call'[h] \in CallType
  BY DEF CatalogInv
<1>2. ASSUME NEW r, Receive(h, r), ServesReport(r), RemovalOK(r), Making(r) = None,
             UNCHANGED libraryVars
      PROVE  LibraryInv'
  <2>1. call[h] = NoCall /\ call' = [call EXCEPT ![h] = r]
    BY <1>2 DEF Receive
  <2>2. r \in CallType
    BY <1>1, <2>1
  <2>3. Making(call[h]) = Making(r)
    BY <1>2, <2>1, IdleCall
  <2>4. UNCHANGED <<links, stored, manifests, grants, issued, unfinished, raced>>
    BY <1>2 DEF libraryVars
  <2> QED BY <1>1, <1>2, <2>1, <2>2, <2>3, <2>4, QuietLibrary
<1>3. ASSUME NEW d, NEW n, Report(h, d, n) PROVE LibraryInv'
  <2>1. PICK r : r = [NoCall EXCEPT !.op = "report", !.pc = "parent", !.doc = d, !.version = n]
    OBVIOUS
  <2>2. r.op = "report" /\ r.pc = "parent" /\ r.report = None
    BY <2>1 DEF NoCall
  <2>3. ServesReport(r) /\ RemovalOK(r) /\ Making(r) = None
    BY <2>2 DEF ServesReport, RemovalOK, Making
  <2> QED BY <1>2, <1>3, <2>1, <2>3 DEF Report
<1>4. ASSUME NEW x \in Reports, NEW w \in Viewers, Grant(h, x, w) PROVE LibraryInv'
  <2>1. PICK r : r = [NoCall EXCEPT !.op = "grant", !.pc = "manifest", !.report = x, !.viewer = w]
    OBVIOUS
  <2>2. r.op = "grant" /\ r.pc = "manifest" /\ r.report = x /\ r.viewer = w /\ x \in issued
    BY <1>4, <2>1 DEF NoCall, Grant
  <2>3. ServesReport(r) /\ RemovalOK(r) /\ Making(r) = None
    BY <2>2 DEF ServesReport, RemovalOK, Making
  <2> QED BY <1>2, <1>4, <2>1, <2>3 DEF Grant
<1>5. ASSUME NEW x \in Reports, Remove(h, x) PROVE LibraryInv'
  <2>1. PICK r : r = [NoCall EXCEPT !.op = "remove", !.pc = "registered", !.report = x]
    OBVIOUS
  <2>2. r.op = "remove" /\ r.pc = "registered" /\ r.report = x /\ x \in issued
    BY <1>5, <2>1 DEF NoCall, Remove, LibraryInv, LibraryType
  <2>3. ServesReport(r) /\ RemovalOK(r) /\ Making(r) = None
    BY <2>2 DEF ServesReport, RemovalOK, Making
  <2> QED BY <1>2, <1>5, <2>1, <2>3 DEF Remove
<1> QED BY <1>3, <1>4, <1>5 DEF LibraryRequests

\* Steps that only read.
LEMMA ReadingStepsKeepReports ==
  ASSUME LibraryInv, CatalogInv, CatalogInv', NEW h \in Handlers,
         Select(h) \/ Fetch(h) \/ CheckManifest(h) \/ ListGrants(h)
  PROVE  LibraryInv'
<1>1. /\ call \in [Handlers -> CallType] /\ call' \in [Handlers -> CallType]
      /\ call[h] \in CallType /\ call'[h] \in CallType
  BY DEF CatalogInv
<1> USE ReportKnown
<1>2. UNCHANGED <<links, stored, manifests, grants, issued, unfinished, raced>>
  BY DEF Select, Fetch, CheckManifest, ListGrants, libraryVars
<1>3. ASSUME End(h), Making(call[h]) = None PROVE LibraryInv'
  BY <1>1, <1>2, <1>3, QuietLibraryEnd
<1>4. CASE Select(h) \/ Fetch(h)
  <2>1. call[h].op = "report" /\ call[h].pc \in {"versions", "fetch"}
    BY <1>4 DEF Select, Fetch, At
  <2>2. call[h].report = None
    BY <1>1, <2>1 DEF ServesReport
  <2>3. Making(call[h]) = None
    BY <2>1, <2>2 DEF Making
  <2>4. ASSUME NEW r \in CallType, call' = [call EXCEPT ![h] = r], r.op = "report",
               r.report = None, r.pc \in {"fetch", "link"}
        PROVE  LibraryInv'
    <3>1. Making(r) = Making(call[h]) /\ ServesReport(r) /\ RemovalOK(r)
      BY <2>3, <2>4 DEF Making, ServesReport, RemovalOK
    <3> QED BY <1>1, <1>2, <2>4, <3>1, QuietLibrary
  <2>5. CASE End(h)
    BY <1>3, <2>3, <2>5
  <2>6. CASE Goto(h, "link")
    BY <1>1, <2>1, <2>2, <2>4, <2>6, GoesOn
  <2>7. ASSUME NEW pc \in {"fetch", "link"}, NEW n, NEW c,
               call' = [call EXCEPT ![h].pc = pc, ![h].version = n, ![h].content = c]
        PROVE  LibraryInv'
    <3>1. PICK r : r = [call[h] EXCEPT !.pc = pc, !.version = n, !.content = c]
      OBVIOUS
    <3>2. call' = [call EXCEPT ![h] = r]
      BY <1>1, <2>7, <3>1, ChoiceNoted
    <3>3. r.op = "report" /\ r.report = None /\ r.pc = pc
      BY <1>1, <2>1, <2>2, <3>1 DEF CallType
    <3>4. r \in CallType
      BY <1>1, <3>2
    <3> QED BY <2>4, <2>7, <3>2, <3>3, <3>4
  <2>8. CASE Select(h)
    BY <2>5, <2>7, <2>8 DEF Select
  <2> QED BY <1>4, <2>5, <2>6, <2>8 DEF Fetch
<1>5. CASE CheckManifest(h)
  <2>1. call[h].op = "grant"
    BY <1>5 DEF CheckManifest, At
  <2>2. Making(call[h]) = None
    BY <2>1 DEF Making
  <2>3. CASE Goto(h, "grant")
    <3>1. PICK r \in CallType : /\ call' = [call EXCEPT ![h] = r] /\ r.op = "grant"
                                /\ r.report = call[h].report /\ r.viewer = call[h].viewer
      BY <1>1, <2>1, <2>3, GoesOn
    <3>2. Making(r) = Making(call[h])
      BY <2>2, <3>1 DEF Making
    <3>3. ServesReport(r) /\ RemovalOK(r)
      BY <1>1, <2>1, <3>1 DEF ServesReport, RemovalOK
    <3> QED BY <1>1, <1>2, <3>1, <3>2, <3>3, QuietLibrary
  <2> QED BY <1>3, <1>5, <2>2, <2>3 DEF CheckManifest
<1>6. CASE ListGrants(h)
  <2>1. call[h].op = "remove" /\ call[h].pc = "list"
    BY <1>6 DEF ListGrants, At
  <2>2. PICK l : l = {w \in Viewers : <<call[h].report, w>> \in grants}
    OBVIOUS
  <2>3. PICK r : r = [call[h] EXCEPT !.pc = "revoke", !.listed = l]
    OBVIOUS
  <2>4. call' = [call EXCEPT ![h] = r]
    BY <1>1, <1>6, <2>2, <2>3, PlaceAndList DEF ListGrants
  <2>5. r \in CallType
    BY <1>1, <2>4
  <2>6. r.op = "remove" /\ r.pc = "revoke" /\ r.report = call[h].report /\ r.listed = l
    BY <1>1, <2>1, <2>3 DEF CallType
  <2>7. Making(r) = Making(call[h])
    BY <2>1, <2>6 DEF Making
  <2>8. ServesReport(r)
    BY <1>1, <2>1, <2>6 DEF ServesReport
  <2>9. RemovalOK(r)
    BY <1>1, <2>1, <2>2, <2>6 DEF RemovalOK
  <2> QED BY <1>1, <1>2, <2>4, <2>5, <2>7, <2>8, <2>9, QuietLibrary
<1> QED BY <1>4, <1>5, <1>6

\* The report of a request that stores or registers one is made by nobody else.
LEMMA OwnReport ==
  ASSUME LibraryInv, call \in [Handlers -> CallType], NEW h \in Handlers,
         call[h].op = "report", call[h].pc \in {"store", "register"}
  PROVE  /\ Making(call[h]) = call[h].report /\ call[h].report \in issued
         /\ call[h].report \in BeingMade
         /\ \A g \in Handlers \ {h} : call[g].op = "report" => call[g].report # call[h].report
<1>1. Making(call[h]) = call[h].report /\ call[h].report \in issued /\ call[h].report # None
  BY ReportKnown, MadeIsIssued DEF ServesReport, Making
<1>2. call[h].report \in BeingMade
  BY <1>1 DEF BeingMade
<1>3. ASSUME NEW g \in Handlers \ {h}, call[g].op = "report", call[g].report = call[h].report
      PROVE  FALSE
  <2>1. Making(call[g]) = Making(call[h]) /\ Making(call[g]) # None
    BY <1>1, <1>3 DEF Making
  <2> QED BY <1>3, <2>1, ReportKnown DEF OneMaker
<1> QED BY <1>1, <1>2, <1>3

LEMMA LinkKeepsReports ==
  ASSUME LibraryInv, CatalogInv, CatalogInv', NEW h \in Handlers, Link(h)
  PROVE  LibraryInv'
<1>1. call \in [Handlers -> CallType] /\ call' \in [Handlers -> CallType]
  BY DEF CatalogInv
<1> USE <1>1, ReportKnown, MadeIsIssued
<1>2. PICK x \in Reports \ issued :
        /\ issued' = issued \cup {x} /\ links' = links \cup {x}
        /\ \/ End(h)
           \/ call' = [call EXCEPT ![h].pc = "store", ![h].report = x]
  BY DEF Link
<1>3. /\ stored' = stored /\ manifests' = manifests /\ grants' = grants
      /\ unfinished' = unfinished /\ raced' = raced
      /\ call[h].op = "report" /\ call[h].pc = "link"
  BY DEF Link, At
<1>4. Making(call[h]) = None
  BY <1>3 DEF Making, ServesReport
<1>5. LibraryType'
  BY <1>2, <1>3 DEF LibraryType
<1>6. PICK r \in CallType :
        /\ call' = [call EXCEPT ![h] = r]
        /\ r = NoCall \/ (r.op = "report" /\ r.pc = "store" /\ r.report = x)
  <2>1. CASE End(h)
    <3>1. NoCall \in CallType /\ call' = [call EXCEPT ![h] = NoCall]
      BY <2>1, IdleCall DEF End
    <3> QED BY <3>1
  <2>2. CASE call' = [call EXCEPT ![h].pc = "store", ![h].report = x]
    <3>1. PICK r : r = [call[h] EXCEPT !.pc = "store", !.report = x]
      OBVIOUS
    <3>2. r \in CallType
      BY <3>1, CallChanges
    <3>3. call' = [call EXCEPT ![h] = r]
      BY <2>2, <3>1 DEF CallType
    <3>4. r.op = "report" /\ r.pc = "store" /\ r.report = x
      BY <1>3, <3>1 DEF CallType
    <3> QED BY <3>2, <3>3, <3>4
  <2> QED BY <1>2, <2>1, <2>2
<1>7. x # None /\ x \notin BeingMade
  BY ReportsAssumption
<1>8. BeingMade' \subseteq BeingMade \cup {x} /\ BeingMade \subseteq BeingMade' /\ OneMaker'
  <2>1. CASE r = NoCall
    BY <1>4, <1>6, <2>1, IdleCall, MakingStays
  <2>2. CASE r.op = "report" /\ r.report = x
    <3>1. Making(r) = x
      BY <2>2 DEF Making
    <3> QED BY <1>4, <1>6, <1>7, <3>1, MakingStarts
  <2> QED BY <1>6, <2>1, <2>2
<1>9. x \notin stored \cup manifests \cup unfinished \cup raced
      /\ \A w \in Viewers : <<x, w>> \notin grants
  BY <1>2 DEF LibraryType
<1>10. ReportsTracked'
  BY <1>2, <1>3, <1>8, <1>9 DEF ReportsTracked, LibraryType
<1>11. ServesReport(r)' /\ RemovalOK(r)'
  <2>1. CASE r = NoCall
    BY <2>1 DEF NoCall, ServesReport, RemovalOK
  <2>2. CASE r.op = "report" /\ r.pc = "store" /\ r.report = x
    BY <1>2, <1>3, <1>9, <2>2 DEF ServesReport, RemovalOK
  <2> QED BY <1>6, <2>1, <2>2 DEF NoCall
<1>12. ASSUME NEW j \in CallType, \E g \in Handlers \ {h} : call[g] = j
       PROVE  ServesReport(j)' /\ RemovalOK(j)'
  <2>1. BeingMade' \cap issued \subseteq BeingMade
    BY <1>2, <1>8
  <2>2. ServesReport(j) /\ RemovalOK(j) /\ LibraryType
    BY <1>12
  <2> QED BY <1>2, <1>3, <2>1, <2>2, OthersKeep
<1> QED BY <1>5, <1>6, <1>8, <1>10, <1>11, <1>12, LibraryRejoins

LEMMA StoreKeepsReports ==
  ASSUME LibraryInv, CatalogInv, CatalogInv', NEW h \in Handlers, StoreReport(h)
  PROVE  LibraryInv'
<1>1. call \in [Handlers -> CallType] /\ call' \in [Handlers -> CallType]
  BY DEF CatalogInv
<1> USE <1>1, ReportKnown
<1>2. /\ links' = links /\ manifests' = manifests /\ grants' = grants /\ issued' = issued
      /\ unfinished' = unfinished /\ raced' = raced
      /\ stored' = stored \cup {call[h].report} /\ Goto(h, "register")
      /\ call[h].op = "report" /\ call[h].pc = "store"
  BY DEF StoreReport, At
<1>3. PICK r \in CallType : /\ call' = [call EXCEPT ![h] = r] /\ r.pc = "register"
                            /\ r.op = call[h].op /\ r.report = call[h].report
  BY <1>2, GoesOn
<1>4. PICK x : x = call[h].report
  OBVIOUS
<1>5. /\ x \in issued /\ x \in BeingMade
      /\ \A g \in Handlers \ {h} : call[g].op = "report" => call[g].report # x
  BY <1>2, <1>4, OwnReport
<1>6. BeingMade' = BeingMade /\ OneMaker'
  <2>1. Making(r) = Making(call[h])
    BY <1>3 DEF Making
  <2> QED BY <1>3, <2>1, MakingStays
<1>7. LibraryType'
  BY <1>2, <1>4, <1>5 DEF LibraryType
<1>8. ReportsTracked'
  BY <1>2, <1>4, <1>5, <1>6 DEF ReportsTracked
<1>9. ServesReport(r)' /\ RemovalOK(r)'
  BY <1>2, <1>3, <1>4, <1>5 DEF ServesReport, RemovalOK
<1>10. ASSUME NEW j \in CallType, \E g \in Handlers \ {h} : call[g] = j
       PROVE  ServesReport(j)' /\ RemovalOK(j)'
  <2>1. ServesReport(j) /\ RemovalOK(j) /\ LibraryType
    BY <1>10
  <2>2. j.op = "report" => j.report # x
    BY <1>5, <1>10
  <2> QED BY <1>2, <1>4, <1>5, <1>6, <2>1, <2>2, OthersKeep
<1> QED BY <1>3, <1>6, <1>7, <1>8, <1>9, <1>10, LibraryRejoins

LEMMA RegisterKeepsReports ==
  ASSUME LibraryInv, CatalogInv, CatalogInv', NEW h \in Handlers, RegisterReport(h)
  PROVE  LibraryInv'
<1>1. call \in [Handlers -> CallType] /\ call' \in [Handlers -> CallType]
  BY DEF CatalogInv
<1> USE <1>1, ReportKnown
<1>2. /\ links' = links /\ stored' = stored /\ grants' = grants /\ issued' = issued
      /\ unfinished' = unfinished /\ raced' = raced
      /\ manifests' = manifests \cup {call[h].report} /\ End(h)
      /\ call[h].op = "report" /\ call[h].pc = "register"
  BY DEF RegisterReport, At
<1>3. PICK x : x = call[h].report
  OBVIOUS
<1>4. x \in issued /\ x \in BeingMade /\ Making(call[h]) = x
  BY <1>2, <1>3, OwnReport
<1>5. BeingMade' = BeingMade \ {x} /\ OneMaker'
  BY <1>2, <1>4, IdleCall, MakingEnds DEF End
<1>6. LibraryType'
  BY <1>2, <1>3, <1>4 DEF LibraryType
<1>7. ReportsTracked'
  BY <1>2, <1>3, <1>4, <1>5 DEF ReportsTracked
<1>8. ServesReport(NoCall)' /\ RemovalOK(NoCall)'
  BY DEF ServesReport, RemovalOK, NoCall
<1>9. ASSUME NEW j \in CallType, \E g \in Handlers \ {h} : call[g] = j
      PROVE  ServesReport(j)' /\ RemovalOK(j)'
  <2>1. ServesReport(j) /\ RemovalOK(j) /\ LibraryType
    BY <1>9
  <2> QED BY <1>2, <1>3, <1>4, <1>5, <2>1, OthersKeep
<1> QED BY <1>2, <1>5, <1>6, <1>7, <1>8, <1>9, IdleCall, LibraryRejoins DEF End

\* A grant is written for a report whose manifest was read earlier; if a removal has
\* listed the grants meanwhile, or the manifest is gone, the report is marked.
LEMMA GrantKeepsReports ==
  ASSUME LibraryInv, CatalogInv, CatalogInv', NEW h \in Handlers, WriteGrant(h)
  PROVE  LibraryInv'
<1>1. call \in [Handlers -> CallType] /\ call' \in [Handlers -> CallType]
  BY DEF CatalogInv
<1> USE <1>1, ReportKnown
<1>2. PICK x, v : x = call[h].report /\ v = call[h].viewer
  OBVIOUS
<1>3. /\ links' = links /\ stored' = stored /\ manifests' = manifests /\ issued' = issued
      /\ unfinished' = unfinished /\ grants' = grants \cup {<<x, v>>}
      /\ raced' = IF Revoking(x) \/ x \notin manifests THEN raced \cup {x} ELSE raced
      /\ End(h) /\ call[h].op = "grant"
  BY <1>2 DEF WriteGrant, At
<1>4. x \in issued /\ v \in Viewers
  BY <1>2, <1>3 DEF ServesReport
<1>5. BeingMade' = BeingMade /\ OneMaker'
  <2>1. Making(NoCall) = Making(call[h])
    BY <1>3, IdleCall DEF Making
  <2> QED BY <1>3, <2>1, IdleCall, MakingStays DEF End
<1>6. LibraryType'
  BY <1>3, <1>4 DEF LibraryType
<1>7. ReportsTracked'
  <2>1. \A y \in issued \ (manifests \cup raced') : \A w \in Viewers : <<y, w>> \notin grants'
    BY <1>3 DEF ReportsTracked
  <2> QED BY <1>3, <1>5, <2>1 DEF ReportsTracked
<1>8. ServesReport(NoCall)' /\ RemovalOK(NoCall)'
  BY DEF ServesReport, RemovalOK, NoCall
<1>9. ASSUME NEW j \in CallType, \E g \in Handlers \ {h} : call[g] = j
      PROVE  ServesReport(j)' /\ RemovalOK(j)'
  <2>1. ServesReport(j) /\ RemovalOK(j) /\ LibraryType
    BY <1>9
  <2>2. j.op = "remove" /\ j.pc = "revoke" /\ j.report = x => x \in raced'
    BY <1>3, <1>9 DEF Revoking, At
  <2>3. j.op = "remove" /\ j.pc = "revoke" =>
          \A w \in Viewers : <<j.report, w>> \in grants' \ grants => j.report \in raced'
    BY <1>3, <2>2
  <2> QED BY <1>3, <1>5, <2>1, <2>3, OthersKeep
<1> QED BY <1>3, <1>5, <1>6, <1>7, <1>8, <1>9, IdleCall, LibraryRejoins DEF End

\* A grant is withdrawn.
LEMMA RevokeKeepsReports ==
  ASSUME LibraryInv, NEW x \in Reports, NEW v \in Viewers, Revoke(x, v)
  PROVE  LibraryInv'
<1>1. /\ links' = links /\ stored' = stored /\ manifests' = manifests /\ issued' = issued
      /\ unfinished' = unfinished /\ raced' = raced /\ call' = call
      /\ grants' = grants \ {<<x, v>>}
  BY DEF Revoke
<1>2. BeingMade' = BeingMade /\ (OneMaker' <=> OneMaker)
  BY <1>1 DEF BeingMade, OneMaker, Making
<1>3. LibraryType'
  BY <1>1 DEF LibraryInv, LibraryType
<1>4. ReportsTracked'
  BY <1>1, <1>2 DEF LibraryInv, ReportsTracked
<1>5. ASSUME NEW h \in Handlers PROVE ServesReport(call[h])' /\ RemovalOK(call[h])'
  BY <1>1, <1>2 DEF LibraryInv, ServesReport, RemovalOK
<1> QED BY <1>2, <1>3, <1>4, <1>5 DEF LibraryInv

\* The steps of a removal go forward and only take away.
LEMMA RemovalMove ==
  ASSUME LibraryInv, call \in [Handlers -> CallType], NEW h \in Handlers,
         NEW r \in CallType, call' = [call EXCEPT ![h] = r],
         call[h].op = "remove", Making(r) = None, ServesReport(r)', RemovalOK(r)',
         stored' \subseteq stored, manifests' \subseteq manifests, grants' \subseteq grants,
         links' \subseteq issued, UNCHANGED <<issued, raced>>,
         unfinished \subseteq unfinished', unfinished' \subseteq issued,
         \A x \in issued \ unfinished' : x \in manifests /\ x \notin manifests' => x \notin stored',
         \A x \in issued \ raced : x \in manifests /\ x \notin manifests' =>
           \A w \in Viewers : <<x, w>> \notin grants',
         \A x \in issued \ unfinished' : x \in links /\ x \notin links' =>
           x \notin stored' \cup manifests' \cup BeingMade
  PROVE  LibraryInv'
<1> USE ReportKnown
<1>1. BeingMade' = BeingMade /\ OneMaker'
  <2>1. Making(r) = Making(call[h])
    BY DEF Making
  <2> QED BY <2>1, MakingStays
<1>2. LibraryType'
  BY DEF LibraryType
<1>3. ReportsTracked'
  <2>1. manifests' \cap BeingMade = {}
    BY DEF ReportsTracked
  <2>2. \A x \in issued \ (manifests' \cup unfinished') : x \in stored' => x \in BeingMade
    BY DEF ReportsTracked
  <2>3. \A x \in issued \ (manifests' \cup raced) : \A w \in Viewers : <<x, w>> \notin grants'
    BY DEF ReportsTracked
  <2>4. \A x \in issued \ (links' \cup unfinished') : x \notin stored' \cup manifests' \cup BeingMade
    BY DEF ReportsTracked
  <2> QED BY <1>1, <2>1, <2>2, <2>3, <2>4 DEF ReportsTracked
<1>4. ASSUME NEW j \in CallType, \E g \in Handlers \ {h} : call[g] = j
      PROVE  ServesReport(j)' /\ RemovalOK(j)'
  <2>1. ServesReport(j) /\ RemovalOK(j) /\ LibraryType
    BY <1>4
  <2> QED BY <1>1, <2>1, OthersKeep
<1> QED BY <1>1, <1>2, <1>3, <1>4, LibraryRejoins

LEMMA FindManifestKeepsReports ==
  ASSUME LibraryInv, CatalogInv, CatalogInv', NEW h \in Handlers, FindManifest(h)
  PROVE  LibraryInv'
<1>1. call \in [Handlers -> CallType] /\ call' \in [Handlers -> CallType]
  BY DEF CatalogInv
<1> USE <1>1, ReportKnown
<1>2. PICK x : x = call[h].report
  OBVIOUS
<1>3. /\ links' = links /\ stored' = stored /\ manifests' = manifests /\ issued' = issued
      /\ grants' = grants /\ raced' = raced
      /\ call[h].op = "remove" /\ call[h].pc = "registered"
      /\ \/ x \in manifests /\ Goto(h, "file") /\ unfinished' = unfinished
         \/ /\ x \notin manifests /\ Goto(h, "unlink")
            /\ unfinished' = IF Registering(x) THEN unfinished \cup {x} ELSE unfinished
  BY <1>2 DEF FindManifest, At
<1>4. x \in issued /\ (Registering(x) <=> x \in BeingMade)
  BY <1>2, <1>3, MadeIsIssued DEF ServesReport
<1>5. PICK pc \in {"file", "unlink"} : Goto(h, pc)
  BY <1>3
<1>6. PICK r \in CallType : /\ call' = [call EXCEPT ![h] = r] /\ r.pc = pc
                            /\ r.op = "remove" /\ r.report = x
  BY <1>2, <1>3, <1>5, GoesOn
<1>7. Making(r) = None /\ ServesReport(r)'
  BY <1>3, <1>4, <1>6 DEF Making, ServesReport
<1>8. BeingMade' = BeingMade
  <2>1. Making(r) = Making(call[h])
    BY <1>3, <1>7 DEF Making
  <2> QED BY <1>6, <2>1, MakingStays
<1>9. pc = IF x \in manifests THEN "file" ELSE "unlink"
  <2>1. call'[h].pc = pc
    BY <1>6
  <2>2. call'[h].pc = IF x \in manifests THEN "file" ELSE "unlink"
    BY <1>3 DEF Goto, CallType
  <2> QED BY <2>1, <2>2
<1>10. RemovalOK(r)'
  <2>1. x \in manifests => x \notin BeingMade
    BY DEF ReportsTracked
  <2>2. x \notin manifests /\ x \notin unfinished' => x \notin stored \cup manifests \cup BeingMade
    BY <1>3, <1>4 DEF ReportsTracked
  <2> QED BY <1>3, <1>6, <1>8, <1>9, <2>1, <2>2 DEF RemovalOK
<1>11. unfinished \subseteq unfinished' /\ unfinished' \subseteq issued
  BY <1>3, <1>4 DEF LibraryType
<1>12. links' \subseteq issued
  BY <1>3 DEF LibraryType
<1> QED BY <1>3, <1>6, <1>7, <1>10, <1>11, <1>12, RemovalMove

LEMMA RemoveFileKeepsReports ==
  ASSUME LibraryInv, CatalogInv, CatalogInv', NEW h \in Handlers, RemoveFile(h)
  PROVE  LibraryInv'
<1>1. call \in [Handlers -> CallType] /\ call' \in [Handlers -> CallType]
  BY DEF CatalogInv
<1> USE <1>1, ReportKnown
<1>2. PICK x : x = call[h].report
  OBVIOUS
<1>3. /\ links' = links /\ manifests' = manifests /\ issued' = issued /\ grants' = grants
      /\ raced' = raced /\ unfinished' = unfinished
      /\ stored' = stored \ {x} /\ Goto(h, "list")
      /\ call[h].op = "remove" /\ call[h].pc = "file"
  BY <1>2 DEF RemoveFile, At
<1>4. x \in issued /\ x \notin BeingMade
  BY <1>2, <1>3 DEF ServesReport, RemovalOK
<1>5. PICK r \in CallType : /\ call' = [call EXCEPT ![h] = r] /\ r.pc = "list"
                            /\ r.op = "remove" /\ r.report = x
  BY <1>2, <1>3, GoesOn
<1>6. Making(r) = None /\ ServesReport(r)'
  BY <1>3, <1>4, <1>5 DEF Making, ServesReport
<1>7. BeingMade' = BeingMade
  <2>1. Making(r) = Making(call[h])
    BY <1>3, <1>6 DEF Making
  <2> QED BY <1>5, <2>1, MakingStays
<1>8. RemovalOK(r)'
  BY <1>3, <1>4, <1>5, <1>7 DEF RemovalOK
<1>9. links' \subseteq issued /\ unfinished' \subseteq issued
  BY <1>3 DEF LibraryType
<1> QED BY <1>3, <1>5, <1>6, <1>8, <1>9, RemovalMove

LEMMA RevokeListedKeepsReports ==
  ASSUME LibraryInv, CatalogInv, CatalogInv', NEW h \in Handlers, RevokeListed(h)
  PROVE  LibraryInv'
<1>1. call \in [Handlers -> CallType] /\ call' \in [Handlers -> CallType]
  BY DEF CatalogInv
<1> USE <1>1, ReportKnown
<1>2. PICK x : x = call[h].report
  OBVIOUS
<1>3. /\ links' = links /\ manifests' = manifests /\ issued' = issued /\ stored' = stored
      /\ raced' = raced /\ unfinished' = unfinished
      /\ call[h].op = "remove" /\ call[h].pc = "revoke"
  BY DEF RevokeListed, At
<1>4. PICK v \in call[h].listed :
        /\ grants' = grants \ {<<x, v>>}
        /\ call' = [call EXCEPT ![h].listed = @ \ {v}]
  BY <1>2 DEF RevokeListed
<1>5. PICK l : l = call[h].listed \ {v}
  OBVIOUS
<1>6. PICK r : r = [call[h] EXCEPT !.listed = l]
  OBVIOUS
<1>7. call' = [call EXCEPT ![h] = r]
  BY <1>4, <1>5, <1>6 DEF CallType
<1>8. r \in CallType
  <2>1. call'[h] = r
    BY <1>7
  <2> QED BY <2>1
<1>9. r.op = "remove" /\ r.pc = "revoke" /\ r.report = x /\ r.listed = l
  BY <1>2, <1>3, <1>6 DEF CallType
<1>10. x \in issued
  BY <1>2, <1>3 DEF ServesReport
<1>11. Making(r) = None /\ ServesReport(r)'
  BY <1>3, <1>9, <1>10 DEF Making, ServesReport
<1>12. BeingMade' = BeingMade
  <2>1. Making(r) = Making(call[h])
    BY <1>3, <1>11 DEF Making
  <2> QED BY <1>7, <1>8, <2>1, MakingStays
<1>13. RemovalOK(r)'
  <2>1. /\ x \notin BeingMade /\ x \notin stored
        /\ x \notin raced => \A w \in Viewers : <<x, w>> \in grants => w \in call[h].listed
    BY <1>2, <1>3 DEF RemovalOK
  <2>2. x \notin raced => \A w \in Viewers : <<x, w>> \in grants' => w \in l
    BY <1>4, <1>5, <2>1
  <2> QED BY <1>3, <1>9, <1>12, <2>1, <2>2 DEF RemovalOK
<1>14. links' \subseteq issued /\ unfinished' \subseteq issued
  BY <1>3 DEF LibraryType
<1> QED BY <1>3, <1>4, <1>7, <1>8, <1>11, <1>13, <1>14, RemovalMove

LEMMA DeleteManifestKeepsReports ==
  ASSUME LibraryInv, CatalogInv, CatalogInv', NEW h \in Handlers, DeleteManifest(h)
  PROVE  LibraryInv'
<1>1. call \in [Handlers -> CallType] /\ call' \in [Handlers -> CallType]
  BY DEF CatalogInv
<1> USE <1>1, ReportKnown
<1>2. PICK x : x = call[h].report
  OBVIOUS
<1>3. /\ links' = links /\ stored' = stored /\ issued' = issued /\ grants' = grants
      /\ raced' = raced /\ unfinished' = unfinished
      /\ manifests' = manifests \ {x} /\ Goto(h, "unlink")
      /\ call[h].op = "remove" /\ call[h].pc = "revoke" /\ call[h].listed = {}
  BY <1>2 DEF DeleteManifest, At
<1>4. /\ x \in issued /\ x \notin BeingMade /\ x \notin stored
      /\ x \notin raced => \A w \in Viewers : <<x, w>> \notin grants
  BY <1>2, <1>3 DEF ServesReport, RemovalOK
<1>5. PICK r \in CallType : /\ call' = [call EXCEPT ![h] = r] /\ r.pc = "unlink"
                            /\ r.op = "remove" /\ r.report = x
  BY <1>2, <1>3, GoesOn
<1>6. Making(r) = None /\ ServesReport(r)'
  BY <1>3, <1>4, <1>5 DEF Making, ServesReport
<1>7. BeingMade' = BeingMade
  <2>1. Making(r) = Making(call[h])
    BY <1>3, <1>6 DEF Making
  <2> QED BY <1>5, <2>1, MakingStays
<1>8. RemovalOK(r)'
  BY <1>3, <1>4, <1>5, <1>7 DEF RemovalOK
<1>9. links' \subseteq issued /\ unfinished' \subseteq issued
  BY <1>3 DEF LibraryType
<1> QED BY <1>3, <1>4, <1>5, <1>6, <1>8, <1>9, RemovalMove

LEMMA UnlinkKeepsReports ==
  ASSUME LibraryInv, CatalogInv, CatalogInv', NEW h \in Handlers, Unlink(h)
  PROVE  LibraryInv'
<1>1. call \in [Handlers -> CallType] /\ call' \in [Handlers -> CallType]
  BY DEF CatalogInv
<1> USE <1>1, ReportKnown
<1>2. PICK x : x = call[h].report
  OBVIOUS
<1>3. /\ stored' = stored /\ manifests' = manifests /\ issued' = issued /\ grants' = grants
      /\ raced' = raced /\ unfinished' = unfinished
      /\ links' = links \ {x} /\ End(h)
      /\ call[h].op = "remove" /\ call[h].pc = "unlink"
  BY <1>2 DEF Unlink, At
<1>4. x \notin unfinished => x \notin stored \cup manifests \cup BeingMade
  BY <1>2, <1>3 DEF RemovalOK
<1>5. ServesReport(NoCall)' /\ RemovalOK(NoCall)'
  BY DEF ServesReport, RemovalOK, NoCall
<1>6. NoCall \in CallType /\ Making(NoCall) = None /\ call' = [call EXCEPT ![h] = NoCall]
  BY <1>3, IdleCall DEF End
<1>7. links' \subseteq issued /\ unfinished' \subseteq issued
  BY <1>3 DEF LibraryType
<1> QED BY <1>3, <1>4, <1>5, <1>6, <1>7, RemovalMove

\* A request that is given up leaves its report unfinished, if it had stored it.
LEMMA GiveUpKeepsReports ==
  ASSUME LibraryInv, CatalogInv, CatalogInv', NEW h \in Handlers, GiveUp(h)
  PROVE  LibraryInv'
<1>1. call \in [Handlers -> CallType] /\ call' \in [Handlers -> CallType]
  BY DEF CatalogInv
<1> USE <1>1, ReportKnown
<1>2. PICK x : x = call[h].report
  OBVIOUS
<1>3. /\ links' = links /\ stored' = stored /\ manifests' = manifests /\ issued' = issued
      /\ grants' = grants /\ raced' = raced /\ End(h)
      /\ unfinished' = IF call[h].op = "report" /\ call[h].pc = "register"
                       THEN unfinished \cup {x} ELSE unfinished
  BY <1>2 DEF GiveUp, At
<1>4. CASE Making(call[h]) = None
  <2>1. ~(call[h].op = "report" /\ call[h].pc = "register")
    BY <1>4, OwnReport, MadeIsIssued
  <2>2. unfinished' = unfinished
    BY <1>3, <2>1
  <2> QED BY <1>3, <1>4, <2>2, QuietLibraryEnd
<1>5. CASE Making(call[h]) # None
  <2>1. call[h].op = "report" /\ call[h].pc \in {"store", "register"} /\ Making(call[h]) = x
    BY <1>2, <1>5 DEF Making, ServesReport
  <2>2. x \in issued /\ x \in BeingMade
    BY <1>2, <2>1, OwnReport
  <2>3. call[h].pc = "store" => x \notin stored
    BY <1>2, <2>1 DEF ServesReport
  <2>4. BeingMade' = BeingMade \ {x} /\ OneMaker'
    BY <1>3, <2>1, IdleCall, MakingEnds DEF End
  <2>5. unfinished \subseteq unfinished' /\ unfinished' \subseteq issued
        /\ (x \in unfinished' \/ x \notin stored)
    BY <1>3, <2>1, <2>2, <2>3 DEF LibraryType
  <2>6. LibraryType'
    BY <1>3, <2>5 DEF LibraryType
  <2>7. ReportsTracked'
    BY <1>3, <2>4, <2>5 DEF ReportsTracked
  <2>8. ServesReport(NoCall)' /\ RemovalOK(NoCall)'
    BY DEF ServesReport, RemovalOK, NoCall
  <2>9. ASSUME NEW j \in CallType, \E g \in Handlers \ {h} : call[g] = j
        PROVE  ServesReport(j)' /\ RemovalOK(j)'
    <3>1. ServesReport(j) /\ RemovalOK(j) /\ LibraryType
      BY <2>9
    <3> QED BY <1>3, <2>4, <2>5, <3>1, OthersKeep
  <2> QED BY <1>3, <2>4, <2>6, <2>7, <2>8, <2>9, IdleCall, LibraryRejoins DEF End
<1> QED BY <1>4, <1>5

\* Every step of the route keeps the invariant of the reports.
LEMMA LibraryKept == LibraryInv /\ CatalogInv /\ CatalogInv' /\ [Next]_vars => LibraryInv'
<1>1. SUFFICES ASSUME LibraryInv, CatalogInv, CatalogInv', [Next]_vars PROVE LibraryInv'
  OBVIOUS
<1>2. CASE UNCHANGED vars
  <2>1. /\ links' = links /\ stored' = stored /\ manifests' = manifests /\ issued' = issued
        /\ unfinished' = unfinished /\ raced' = raced /\ call' = call /\ grants' = grants
    BY <1>2 DEF vars, libraryVars
  <2>2. BeingMade' = BeingMade /\ (OneMaker' <=> OneMaker)
    BY <2>1 DEF BeingMade, OneMaker, Making
  <2>3. LibraryType' /\ ReportsTracked'
    BY <1>1, <2>1, <2>2 DEF LibraryInv, LibraryType, ReportsTracked
  <2>4. ASSUME NEW h \in Handlers PROVE ServesReport(call[h])' /\ RemovalOK(call[h])'
    BY <1>1, <2>1, <2>2 DEF LibraryInv, ServesReport, RemovalOK
  <2> QED BY <1>1, <2>2, <2>3, <2>4 DEF LibraryInv
<1>3. ASSUME NEW h \in Handlers, LibrarySteps(h) PROVE LibraryInv'
  BY <1>1, <1>3, ReadingStepsKeepReports, LinkKeepsReports, StoreKeepsReports,
     RegisterKeepsReports, GrantKeepsReports, FindManifestKeepsReports,
     RemoveFileKeepsReports, RevokeListedKeepsReports, DeleteManifestKeepsReports,
     UnlinkKeepsReports, GiveUpKeepsReports
  DEF LibrarySteps
<1> QED BY <1>1, <1>2, <1>3, DocumentsKeepReports, RequestsKeepReports, RevokeKeepsReports DEF Next

\* Every report is accounted for in every state the route can reach.
THEOREM LibraryInvariant == Spec => []LibraryInv
<1>1. Init => LibraryInv
  <2>1. SUFFICES ASSUME call = [h \in Handlers |-> NoCall], NEW r \in Reports \cup {None},
                        NEW ws \in SUBSET Viewers, LibraryInit(r, ws)
                 PROVE  LibraryInv
    BY DEF Init, DocumentsInit
  <2>2. /\ issued = {r} \ {None} /\ links = issued /\ stored = issued /\ manifests = issued
        /\ grants = issued \X ws /\ unfinished = {} /\ raced = {}
    BY <2>1 DEF LibraryInit
  <2>3. LibraryType
    BY <2>2 DEF LibraryType
  <2>4. \A h \in Handlers : Making(call[h]) = None
    BY <2>1, IdleCall
  <2>5. BeingMade = {} /\ OneMaker
    BY <2>4 DEF BeingMade, OneMaker
  <2>6. ReportsTracked
    BY <2>2, <2>5 DEF ReportsTracked
  <2>7. \A h \in Handlers : ServesReport(call[h]) /\ RemovalOK(call[h])
    BY <2>1 DEF ServesReport, RemovalOK, NoCall
  <2> QED BY <2>3, <2>5, <2>6, <2>7 DEF LibraryInv
<1> QED BY <1>1, LibraryKept, CatalogInvariant, PTL DEF Spec

\* The collections and the marks hold what they are meant to hold.
THEOREM LibraryTypeCorrect == Spec => []TypeOK
<1>1. CatalogInv /\ LibraryInv => TypeOK
  BY DEF CatalogInv, DocumentsTypeOK, ReportsShowReviewed, LibraryInv, LibraryType, TypeOK
<1> QED BY <1>1, CatalogInvariant, LibraryInvariant, PTL

\* Access to a report ends with it: after its link is gone, no file, no manifest and
\* no active grant is left, however the steps of its making, of grants and of
\* repeated removals interleave, unless it was removed unfinished or granted meanwhile.
THEOREM RemovalEndsAccess == Spec => []AccessEndsWithReport
<1>1. LibraryInv => AccessEndsWithReport
  <2>1. SUFFICES ASSUME LibraryInv, NEW r \in issued \ (links \cup unfinished)
                 PROVE  /\ r \notin stored \cup manifests
                        /\ r \notin raced => \A w \in Viewers : <<r, w>> \notin grants
    BY DEF AccessEndsWithReport
  <2> QED BY <2>1 DEF LibraryInv, ReportsTracked
<1> QED BY <1>1, LibraryInvariant, PTL
=============================================================================
