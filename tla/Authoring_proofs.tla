-------------------------- MODULE Authoring_proofs --------------------------
(***************************************************************************)
(* Proofs about Authoring: for any number of files, templates, campaigns,   *)
(* steps, words, accounts and concurrent requests, cut off anywhere.        *)
(*                                                                          *)
(* The inductive invariant has four parts besides the types.  Keys: what     *)
(* the foreign keys between campaigns, steps, templates and jobs keep.      *)
(* Files: which request still owns which file, so that no request removes   *)
(* the file of a row.  History: a template's revisions end in what is live, *)
(* and name files that are there.  Index: the unique index on words.        *)
(***************************************************************************)
EXTENDS Authoring, FiniteSetTheorems, TLAPS

\* A step has its campaign and its template, a job its step; what a copy has read
\* has one step to each place.
Keys ==
  /\ \A s \in Steps : step[s] # NoRow => IsCampaign(step[s].of) /\ IsTemplate(step[s].tpl)
  /\ \A s \in Steps : job[s] # NoRow => step[s] # NoRow
  /\ \A q \in Requests : request[q].at = "copy" =>
       \A r, s \in request[q].shape : r.order = s.order => r = s

\* A file is written before its row, by one request that alone knows its name, and
\* is removed by one whose row never was or is no more.
Files ==
  /\ media \subseteq file \cap spent
  /\ \A q \in Requests : request[q].at = "insert" =>
       /\ request[q].of \in (file \cap spent) \ media
       /\ \A p \in Requests \ {q} :
            request[p].at \in {"insert", "unlink"} => request[p].of # request[q].of
  /\ \A q \in Requests : request[q].at = "unlink" => request[q].of \in spent \ media

\* What the tables of templates and revisions keep.
History ==
  /\ \A t \in Templates : IsTemplate(t) => Exists(tpl[t].content)
  /\ \A t \in Templates : tpl[t] = NoRow => revision[t] = NoRevisions
  /\ \A t \in Templates, n \in Versions :
       revision[t][n] \in Media => revision[t][n] \in media
  /\ HistoryEndsLive

\* The account of a word is its campaign's, and active words are unique in it.
Index ==
  /\ \A k \in Triggers : trigger[k] # NoRow => trigger[k].account = AccountOf[trigger[k].of]
  /\ \A k, l \in Triggers :
       /\ trigger[k] # NoRow /\ trigger[l] # NoRow
       /\ trigger[k].active /\ trigger[l].active
       /\ trigger[k].account = trigger[l].account /\ trigger[k].word = trigger[l].word
       => k = l

AuthoringInv == TypeOK /\ Keys /\ Files /\ History /\ Index

-----------------------------------------------------------------------------
(***************************************************************************)
(* The library: what its operations are, whoever runs them.                 *)
(***************************************************************************)
LibraryStep ==
  \/ UNCHANGED libraryVars
  \/ \E m \in Media : SaveFile(m) \/ RemoveFile(m) \/ InsertMedia(m) \/ DeleteMedia(m)
  \/ \E t \in Templates, x \in Content : CreateTemplate(t, x) \/ UpdateTemplate(t, x)
  \/ \E t \in Templates : ArchiveTemplate(t) \/ DropTemplate(t, UsersOf(t))

LEMMA VersionFacts == 1 \in Versions /\ Versions \subseteq Nat /\ MaxVersion \in Nat
BY LibraryAssumption DEF Versions

LEMMA LibraryTypes == LibraryTypeOK /\ LibraryStep => LibraryTypeOK'
<1> SUFFICES ASSUME LibraryTypeOK, LibraryStep PROVE LibraryTypeOK'
  OBVIOUS
<1> USE DEF LibraryTypeOK
<1>1. CASE UNCHANGED libraryVars
  BY <1>1 DEF libraryVars
<1>2. ASSUME NEW m \in Media, SaveFile(m) \/ RemoveFile(m) \/ InsertMedia(m)
      PROVE  LibraryTypeOK'
  BY <1>2 DEF SaveFile, RemoveFile, InsertMedia
<1>3. ASSUME NEW m \in Media, DeleteMedia(m) PROVE LibraryTypeOK'
  BY <1>3 DEF DeleteMedia
<1>4. ASSUME NEW t \in Templates, NEW x \in Content, CreateTemplate(t, x)
      PROVE  LibraryTypeOK'
  <2>1. [content |-> x, version |-> 1, archived |-> FALSE] \in TemplateRow
    BY VersionFacts DEF TemplateRow
  <2>2. tpl' \in [Templates -> TemplateRow \cup {NoRow, Gone}]
    BY <1>4, <2>1 DEF CreateTemplate
  <2>3. revision' \in [Templates -> [Versions -> Content \cup {Lost, NoRow}]]
    BY <1>4, VersionFacts DEF CreateTemplate
  <2> QED
    BY <1>4, <2>2, <2>3 DEF CreateTemplate
<1>5. ASSUME NEW t \in Templates, NEW x \in Content, UpdateTemplate(t, x)
      PROVE  LibraryTypeOK'
  <2>1. tpl[t] \in TemplateRow
    BY <1>5 DEF UpdateTemplate, IsTemplate
  <2>2. tpl[t].version + 1 \in Versions
    BY <1>5, <2>1, LibraryAssumption DEF UpdateTemplate, TemplateRow, Versions
  <2>3. [tpl[t] EXCEPT !.content = x, !.version = tpl[t].version + 1] \in TemplateRow
    BY <2>1, <2>2 DEF TemplateRow
  <2>4. tpl' = [tpl EXCEPT ![t] = [tpl[t] EXCEPT !.content = x, !.version = tpl[t].version + 1]]
    BY <1>5 DEF UpdateTemplate
  <2>5. tpl' \in [Templates -> TemplateRow \cup {NoRow, Gone}]
    BY <2>3, <2>4
  <2>6. revision' \in [Templates -> [Versions -> Content \cup {Lost, NoRow}]]
    BY <1>5, <2>2 DEF UpdateTemplate, Recorded
  <2> QED
    BY <1>5, <2>5, <2>6 DEF UpdateTemplate
<1>6. ASSUME NEW t \in Templates, ArchiveTemplate(t) PROVE LibraryTypeOK'
  <2>1. tpl[t] \in TemplateRow
    BY <1>6 DEF ArchiveTemplate, IsTemplate
  <2>2. [tpl[t] EXCEPT !.archived = TRUE] \in TemplateRow
    BY <2>1 DEF TemplateRow
  <2> QED
    BY <1>6, <2>2 DEF ArchiveTemplate
<1>7. ASSUME NEW t \in Templates, DropTemplate(t, UsersOf(t)) PROVE LibraryTypeOK'
  BY <1>7 DEF DropTemplate, NoRevisions
<1> QED
  BY <1>1, <1>2, <1>3, <1>4, <1>5, <1>6, <1>7 DEF LibraryStep

\* Deletions take the name of a file out of the history and nothing else.
LEMMA DeleteMediaHistory ==
  ASSUME LibraryTypeOK, History, NEW m \in Media, DeleteMedia(m)
  PROVE  History'
<1> USE DEF LibraryTypeOK
<1>1. /\ tpl' = tpl
      /\ media' = media \ {m}
      /\ revision' = [t \in Templates |-> [n \in Versions |->
           IF revision[t][n] = m THEN Lost ELSE revision[t][n]]]
  BY DEF DeleteMedia
<1>2. m # NoRow /\ Lost # NoRow /\ m # Text /\ Lost \notin Media
  BY LibraryAssumption
<1>3. \A t \in Templates : IsTemplate(t) => tpl[t].content # m
  BY DEF DeleteMedia, Held
<1>4. \A t \in Templates, n \in Versions :
        /\ revision[t][n] # m => revision'[t][n] = revision[t][n]
        /\ revision[t][n] = m => revision'[t][n] = Lost
  BY <1>1
<1>5. \A t \in Templates : IsTemplate(t)' <=> IsTemplate(t)
  BY <1>1 DEF IsTemplate
<1>6. \A t \in Templates : IsTemplate(t)' => Exists(tpl[t].content)'
  BY <1>1, <1>3, <1>5 DEF History, Exists
<1>7. ASSUME NEW t \in Templates, tpl'[t] = NoRow PROVE revision'[t] = NoRevisions
  <2>1. revision[t] = NoRevisions
    BY <1>1, <1>7 DEF History
  <2> QED
    BY <1>1, <1>2, <2>1 DEF NoRevisions
<1>8. \A t \in Templates, n \in Versions :
        revision'[t][n] \in Media => revision'[t][n] \in media'
  BY <1>1, <1>2, <1>4 DEF History
<1>9. ASSUME NEW t \in Templates, IsTemplate(t)'
      PROVE  /\ revision'[t][tpl'[t].version] = tpl'[t].content
             /\ \A n \in Versions : revision'[t][n] # NoRow <=> n <= tpl'[t].version
  <2>1. IsTemplate(t) /\ tpl[t] \in TemplateRow /\ tpl[t].version \in Versions
    BY <1>5, <1>9 DEF IsTemplate, TemplateRow
  <2>2. /\ revision[t][tpl[t].version] = tpl[t].content
        /\ \A n \in Versions : revision[t][n] # NoRow <=> n <= tpl[t].version
    BY <2>1 DEF History, HistoryEndsLive
  <2>3. \A n \in Versions : revision'[t][n] # NoRow <=> revision[t][n] # NoRow
    BY <1>2, <1>4
  <2> QED
    BY <1>1, <1>3, <1>4, <2>1, <2>2, <2>3
<1> QED
  BY <1>6, <1>7, <1>8, <1>9 DEF History, HistoryEndsLive

\* A new template starts its history.
LEMMA CreateTemplateHistory ==
  ASSUME LibraryTypeOK, History, NEW t \in Templates, NEW x \in Content, CreateTemplate(t, x)
  PROVE  History'
<1> USE DEF LibraryTypeOK
<1> DEFINE row == [content |-> x, version |-> 1, archived |-> FALSE]
<1>1. /\ media' = media
      /\ tpl' = [tpl EXCEPT ![t] = row]
      /\ revision' = [revision EXCEPT ![t] = [revision[t] EXCEPT ![1] = x]]
      /\ Exists(x) /\ tpl[t] = NoRow
  BY DEF CreateTemplate
<1>2. row \in TemplateRow /\ row \notin {NoRow, Gone} /\ row.content = x /\ row.version = 1
  <2>1. row \in TemplateRow
    BY VersionFacts DEF TemplateRow
  <2>2. row.content = x /\ row.version = 1
    OBVIOUS
  <2> HIDE DEF row
  <2> QED
    BY <2>1, <2>2, TemplateRowAssumption
<1> HIDE DEF row
<1>3. /\ tpl'[t] = row
      /\ \A u \in Templates \ {t} : tpl'[u] = tpl[u] /\ revision'[u] = revision[u]
      /\ revision'[t] = [NoRevisions EXCEPT ![1] = x]
  BY <1>1 DEF History
<1>4. \A n \in Versions : revision'[t][n] = IF n = 1 THEN x ELSE NoRow
  BY <1>3 DEF NoRevisions
<1>5. x # NoRow /\ NoRow \notin Media /\ (x \in Media => x \in media)
  BY <1>1, LibraryAssumption DEF Content, Exists
<1>6. \A u \in Templates : IsTemplate(u)' => Exists(tpl[u].content)'
  BY <1>1, <1>2, <1>3 DEF History, Exists, IsTemplate
<1>7. \A u \in Templates : tpl'[u] = NoRow => revision'[u] = NoRevisions
  BY <1>2, <1>3 DEF History
<1>8. \A u \in Templates, n \in Versions :
        revision'[u][n] \in Media => revision'[u][n] \in media'
  BY <1>1, <1>3, <1>4, <1>5 DEF History
<1>9. \A n \in Versions : revision'[t][n] # NoRow <=> n <= 1
  BY <1>4, <1>5, VersionFacts DEF Versions
<1>10. ASSUME NEW u \in Templates, IsTemplate(u)'
       PROVE  /\ revision'[u][tpl'[u].version] = tpl'[u].content
              /\ \A n \in Versions : revision'[u][n] # NoRow <=> n <= tpl'[u].version
  <2>1. CASE u = t
    BY <1>2, <1>3, <1>4, <1>9, <2>1, VersionFacts
  <2>2. CASE u # t
    BY <1>3, <1>10, <2>2 DEF IsTemplate, History, HistoryEndsLive
  <2> QED
    BY <2>1, <2>2
<1> QED
  BY <1>6, <1>7, <1>8, <1>10 DEF History, HistoryEndsLive

\* A save adds one revision, the one that becomes live.
LEMMA UpdateTemplateHistory ==
  ASSUME LibraryTypeOK, History, NEW t \in Templates, NEW x \in Content, UpdateTemplate(t, x)
  PROVE  History'
<1> USE DEF LibraryTypeOK
<1> DEFINE v == tpl[t].version
           row == [tpl[t] EXCEPT !.content = x, !.version = v + 1]
<1>1. tpl[t] \in TemplateRow /\ v \in Versions /\ v < MaxVersion
  BY DEF UpdateTemplate, IsTemplate, TemplateRow
<1>2. v + 1 \in Versions /\ v \in Nat
  BY <1>1, VersionFacts DEF Versions
<1>3. row \in TemplateRow /\ row \notin {NoRow, Gone} /\ row.content = x /\ row.version = v + 1
  BY <1>1, <1>2, TemplateRowAssumption DEF TemplateRow
<1>4. /\ revision[t][v] = tpl[t].content
      /\ \A n \in Versions : revision[t][n] # NoRow <=> n <= v
  BY DEF UpdateTemplate, History, HistoryEndsLive
<1>5. revision[t][v + 1] = NoRow
  <2>1. ~(v + 1 <= v)
    BY <1>2
  <2> QED
    BY <1>2, <1>4, <2>1
<1>6. /\ media' = media /\ Exists(x)
      /\ tpl' = [tpl EXCEPT ![t] = row]
      /\ revision' = [revision EXCEPT ![t][v + 1] = x]
  BY <1>5 DEF UpdateTemplate, Recorded
<1> HIDE DEF row, v
<1>7. /\ tpl'[t] = row
      /\ \A u \in Templates \ {t} : tpl'[u] = tpl[u] /\ revision'[u] = revision[u]
      /\ \A n \in Versions : revision'[t][n] = IF n = v + 1 THEN x ELSE revision[t][n]
  BY <1>2, <1>6
<1>8. x # NoRow /\ (x \in Media => x \in media)
  BY <1>6, LibraryAssumption DEF Content, Exists
<1>9. \A u \in Templates : IsTemplate(u)' => Exists(tpl[u].content)'
  BY <1>3, <1>6, <1>7 DEF History, Exists, IsTemplate
<1>10. \A u \in Templates : tpl'[u] = NoRow => revision'[u] = NoRevisions
  BY <1>3, <1>7 DEF History
<1>11. \A u \in Templates, n \in Versions :
         revision'[u][n] \in Media => revision'[u][n] \in media'
  BY <1>6, <1>7, <1>8 DEF History
<1>12. \A n \in Versions : revision'[t][n] # NoRow <=> n <= v + 1
  <2> SUFFICES ASSUME NEW n \in Versions PROVE revision'[t][n] # NoRow <=> n <= v + 1
    OBVIOUS
  <2>1. n \in Nat /\ (n <= v + 1 <=> n <= v \/ n = v + 1)
    BY <1>2, VersionFacts
  <2> QED
    BY <1>4, <1>7, <1>8, <2>1
<1>13. ASSUME NEW u \in Templates, IsTemplate(u)'
       PROVE  /\ revision'[u][tpl'[u].version] = tpl'[u].content
              /\ \A n \in Versions : revision'[u][n] # NoRow <=> n <= tpl'[u].version
  <2>1. CASE u = t
    BY <1>2, <1>3, <1>7, <1>12, <2>1
  <2>2. CASE u # t
    BY <1>7, <1>13, <2>2 DEF IsTemplate, History, HistoryEndsLive
  <2> QED
    BY <2>1, <2>2
<1> QED
  BY <1>9, <1>10, <1>11, <1>13 DEF History, HistoryEndsLive

\* Archiving leaves the content alone; a template that goes takes its history along.
LEMMA DeleteTemplateHistory ==
  ASSUME LibraryTypeOK, History, NEW t \in Templates,
         ArchiveTemplate(t) \/ DropTemplate(t, UsersOf(t))
  PROVE  History'
<1> USE DEF LibraryTypeOK
<1>1. CASE ArchiveTemplate(t)
  <2>1. tpl[t] \in TemplateRow
    BY <1>1 DEF ArchiveTemplate, IsTemplate
  <2> DEFINE row == [tpl[t] EXCEPT !.archived = TRUE]
  <2>2. /\ row \in TemplateRow /\ row \notin {NoRow, Gone}
        /\ row.content = tpl[t].content /\ row.version = tpl[t].version
    BY <2>1, TemplateRowAssumption DEF TemplateRow
  <2>3. /\ tpl' = [tpl EXCEPT ![t] = row] /\ IsTemplate(t)
        /\ media' = media /\ revision' = revision
    BY <1>1 DEF ArchiveTemplate
  <2> HIDE DEF row
  <2>4. \A u \in Templates :
          /\ IsTemplate(u)' => IsTemplate(u)
          /\ tpl'[u] = NoRow => tpl[u] = NoRow
          /\ tpl'[u].content = tpl[u].content /\ tpl'[u].version = tpl[u].version
    BY <2>2, <2>3 DEF IsTemplate
  <2> QED
    BY <2>3, <2>4 DEF History, HistoryEndsLive, Exists
<1>2. CASE DropTemplate(t, UsersOf(t))
  <2>1. /\ tpl' = [tpl EXCEPT ![t] = Gone] /\ media' = media
        /\ revision' = [revision EXCEPT ![t] = NoRevisions]
    BY <1>2 DEF DropTemplate
  <2>2. \A n \in Versions : NoRevisions[n] \notin Media
    BY LibraryAssumption DEF NoRevisions
  <2>3. ~IsTemplate(t)'
    BY <2>1 DEF IsTemplate
  <2>4. \A u \in Templates \ {t} :
          tpl'[u] = tpl[u] /\ revision'[u] = revision[u] /\ (IsTemplate(u)' <=> IsTemplate(u))
    BY <2>1 DEF IsTemplate
  <2>5. revision'[t] = NoRevisions
    BY <2>1
  <2> QED
    BY <2>1, <2>2, <2>3, <2>4, <2>5 DEF History, HistoryEndsLive, Exists
<1> QED
  BY <1>1, <1>2

LEMMA LibraryHistory == LibraryTypeOK /\ History /\ LibraryStep => History'
<1> SUFFICES ASSUME LibraryTypeOK, History, LibraryStep PROVE History'
  OBVIOUS
<1>1. CASE UNCHANGED libraryVars
  BY <1>1 DEF libraryVars, History, HistoryEndsLive, Exists, IsTemplate
<1>2. ASSUME NEW m \in Media, SaveFile(m) \/ RemoveFile(m) \/ InsertMedia(m)
      PROVE  History'
  <2>1. tpl' = tpl /\ revision' = revision /\ media \subseteq media'
    BY <1>2 DEF SaveFile, RemoveFile, InsertMedia
  <2> QED
    BY <2>1 DEF History, HistoryEndsLive, Exists, IsTemplate
<1> QED
  BY <1>1, <1>2, DeleteMediaHistory, CreateTemplateHistory, UpdateTemplateHistory,
     DeleteTemplateHistory DEF LibraryStep

-----------------------------------------------------------------------------
(***************************************************************************)
(* The requests.                                                             *)
(***************************************************************************)

\* What a request holds, by where it is.
LEMMA RequestKinds ==
  ASSUME NEW r \in Busy \cup {Idle}
  PROVE  /\ r.at \in {"insert", "delete", "unlink"} => r.of \in Media
         /\ r.at = "create" => r.of \in Content
         /\ r.at = "update" => r.of \in Templates /\ r.content \in Content
         /\ r.at \in {"archive", "drop"} => r.of \in Templates
         /\ r.at = "activate" => r.of \in Campaigns
         /\ r.at = "copy" =>
              r.of \in Campaigns /\ r.pin \in BOOLEAN /\ r.shape \subseteq StepRow
BY DEF Busy, Idle

\* The actions of a request that change nothing but the library and the request.
LibraryAction(q) ==
  \/ Upload(q) \/ RecordUpload(q) \/ RefuseUpload(q) \/ ConvertVoice(q)
  \/ DeleteMediaRow(q) \/ DeleteMediaFile(q) \/ SaveTemplate(q) \/ DeleteTemplate(q)

\* Those that only read.
ReadAction(q) ==
  \/ AskDeleteMedia(q) \/ ValidateTemplate(q) \/ CountUses(q) \/ CheckReadiness(q)
  \/ ReadForCopy(q) \/ Abandon(q)

\* Those that write the tables of campaigns.
CampaignAction ==
  \/ \E q \in Requests : Activate(q) \/ Copy(q)
  \/ CreateCampaign \/ UpdateCampaign \/ SetStatus \/ Archive \/ DeleteCampaign
  \/ AddStep \/ UpdateStep \/ ReorderSteps
  \/ AddTrigger \/ UpdateTrigger \/ DeleteTrigger
  \/ Enrol \/ Reconcile \/ Send

LEMMA NextCases ==
  ASSUME Next
  PROVE  \/ \E q \in Requests : LibraryAction(q) /\ UNCHANGED campaignVars
         \/ \E q \in Requests : ReadAction(q) /\ UNCHANGED <<libraryVars, campaignVars>>
         \/ CampaignAction /\ UNCHANGED libraryVars
<1>1. ASSUME NEW q \in Requests, LibraryAction(q) PROVE UNCHANGED campaignVars
  BY <1>1 DEF LibraryAction, Upload, RecordUpload, RefuseUpload, ConvertVoice,
     DeleteMediaRow, DeleteMediaFile, SaveTemplate, DeleteTemplate
<1>2. ASSUME NEW q \in Requests, ReadAction(q)
      PROVE  UNCHANGED <<libraryVars, campaignVars>>
  BY <1>2 DEF ReadAction, AskDeleteMedia, ValidateTemplate, CountUses, CheckReadiness,
     ReadForCopy, Abandon
<1>3. ASSUME NEW q \in Requests, Activate(q) \/ Copy(q) PROVE UNCHANGED libraryVars
  BY <1>3 DEF Activate, Copy
<1>4. ASSUME \/ CreateCampaign \/ UpdateCampaign \/ SetStatus \/ Archive \/ DeleteCampaign
             \/ AddStep \/ UpdateStep \/ ReorderSteps
             \/ AddTrigger \/ UpdateTrigger \/ DeleteTrigger
             \/ Enrol \/ Reconcile \/ Send
      PROVE  UNCHANGED libraryVars
  BY <1>4 DEF CreateCampaign, UpdateCampaign, SetStatus, Archive, DeleteCampaign,
     AddStep, UpdateStep, ReorderSteps, AddTrigger, UpdateTrigger, DeleteTrigger,
     Enrol, Reconcile, Send
<1>5. CampaignAction => UNCHANGED libraryVars
  BY <1>3, <1>4, Zenon DEF CampaignAction
<1> QED
  BY <1>1, <1>2, <1>5, Zenon DEF Next, LibraryAction, ReadAction, CampaignAction

LEMMA NextLibrary == TypeOK /\ [Next]_vars => LibraryStep
<1> SUFFICES ASSUME TypeOK, [Next]_vars PROVE LibraryStep
  OBVIOUS
<1>1. CASE UNCHANGED libraryVars
  BY <1>1 DEF LibraryStep
<1>2. ASSUME NEW q \in Requests, LibraryAction(q) PROVE LibraryStep
  <2> DEFINE r == request[q]
  <2>1. r \in Busy \cup {Idle}
    BY DEF TypeOK
  <2>2. /\ r.at \in {"insert", "delete", "unlink"} => r.of \in Media
        /\ r.at = "create" => r.of \in Content
        /\ r.at = "update" => r.of \in Templates /\ r.content \in Content
        /\ r.at \in {"archive", "drop"} => r.of \in Templates
    BY <2>1, RequestKinds
  <2>3. CASE Upload(q) \/ ConvertVoice(q)
    BY <2>3 DEF Upload, ConvertVoice, LibraryStep
  <2>4. CASE RecordUpload(q)
    BY <2>2, <2>4 DEF RecordUpload, LibraryStep
  <2>5. CASE RefuseUpload(q)
    BY <2>2, <2>5 DEF RefuseUpload, LibraryStep
  <2>6. CASE DeleteMediaRow(q)
    BY <2>2, <2>6 DEF DeleteMediaRow, LibraryStep
  <2>7. CASE DeleteMediaFile(q)
    BY <2>2, <2>7 DEF DeleteMediaFile, LibraryStep
  <2>8. CASE SaveTemplate(q)
    BY <2>2, <2>8 DEF SaveTemplate, LibraryStep
  <2>9. CASE DeleteTemplate(q)
    BY <2>2, <2>9 DEF DeleteTemplate, LibraryStep
  <2> QED
    BY <1>2, <2>3, <2>4, <2>5, <2>6, <2>7, <2>8, <2>9 DEF LibraryAction
<1>3. CASE Next
  BY <1>1, <1>2, <1>3, NextCases, Zenon
<1> QED
  BY <1>1, <1>3 DEF vars

\* At most one request moves, and to a place that is one.
RequestStep ==
  \/ UNCHANGED request
  \/ \E q \in Requests, b \in Busy \cup {Idle} : request' = [request EXCEPT ![q] = b]

LEMMA BusyKinds ==
  /\ \A m \in Media : \A a \in {"insert", "delete", "unlink"} : [at |-> a, of |-> m] \in Busy
  /\ [at |-> "derive", of |-> Text] \in Busy
  /\ \A x \in Content : [at |-> "create", of |-> x] \in Busy
  /\ \A t \in Templates, x \in Content : [at |-> "update", of |-> t, content |-> x] \in Busy
  /\ \A t \in Templates : \A a \in {"archive", "drop"} : [at |-> a, of |-> t] \in Busy
  /\ \A c \in Campaigns : [at |-> "activate", of |-> c] \in Busy
  /\ \A c \in Campaigns, p \in BOOLEAN : \A sh \in SUBSET StepRow :
       [at |-> "copy", of |-> c, pin |-> p, shape |-> sh] \in Busy
BY DEF Busy

LEMMA NextRequest == TypeOK /\ [Next]_vars => RequestStep
<1> SUFFICES ASSUME TypeOK, [Next]_vars PROVE RequestStep
  OBVIOUS
<1> USE DEF Opens, Goes, Ends
<1>1. CASE UNCHANGED request
  BY <1>1 DEF RequestStep
<1>2. ASSUME NEW q \in Requests, LibraryAction(q) PROVE RequestStep
  <2> DEFINE r == request[q]
  <2>1. r \in Busy \cup {Idle} /\ (r.at \in {"insert", "delete", "unlink"} => r.of \in Media)
    BY RequestKinds DEF TypeOK
  <2>2. CASE Upload(q) \/ ConvertVoice(q)
    BY <2>2, BusyKinds DEF Upload, ConvertVoice, RequestStep
  <2>3. CASE RecordUpload(q)
    BY <2>3, BusyKinds DEF RecordUpload, RequestStep
  <2>4. CASE DeleteMediaRow(q)
    <3>1. [at |-> "unlink", of |-> r.of] \in Busy
      BY <2>1, <2>4, BusyKinds DEF DeleteMediaRow
    <3> QED
      BY <2>4, <3>1 DEF DeleteMediaRow, RequestStep
  <2>5. CASE RefuseUpload(q) \/ DeleteMediaFile(q) \/ SaveTemplate(q) \/ DeleteTemplate(q)
    BY <2>5 DEF RefuseUpload, DeleteMediaFile, SaveTemplate, DeleteTemplate, RequestStep
  <2> QED
    BY <1>2, <2>2, <2>3, <2>4, <2>5 DEF LibraryAction
<1>3. ASSUME NEW q \in Requests, ReadAction(q) PROVE RequestStep
  <2>1. CASE AskDeleteMedia(q)
    BY <2>1, BusyKinds DEF AskDeleteMedia, RequestStep, TypeOK, LibraryTypeOK
  <2>2. CASE ValidateTemplate(q)
    BY <2>2, BusyKinds DEF ValidateTemplate, RequestStep
  <2>3. CASE CountUses(q)
    BY <2>3, BusyKinds DEF CountUses, RequestStep
  <2>4. CASE CheckReadiness(q)
    BY <2>4, BusyKinds DEF CheckReadiness, RequestStep
  <2>5. CASE ReadForCopy(q)
    <3>1. PICK c \in Campaigns :
            /\ IsCampaign(c)
            /\ request' = [request EXCEPT ![q] =
                 [at |-> "copy", of |-> c, pin |-> campaign[c].pin,
                  shape |-> {step[s] : s \in StepsOf(c)}]]
      BY <2>5 DEF ReadForCopy
    <3>2. campaign[c].pin \in BOOLEAN
      BY <3>1 DEF TypeOK, IsCampaign, CampaignRow
    <3>3. {step[s] : s \in StepsOf(c)} \in SUBSET StepRow
      BY DEF TypeOK, StepsOf
    <3> QED
      BY <3>1, <3>2, <3>3, BusyKinds DEF RequestStep
  <2>6. CASE Abandon(q)
    BY <2>6 DEF Abandon, RequestStep
  <2> QED
    BY <1>3, <2>1, <2>2, <2>3, <2>4, <2>5, <2>6 DEF ReadAction
<1>4. ASSUME NEW q \in Requests, Activate(q) \/ Copy(q) PROVE RequestStep
  BY <1>4 DEF Activate, Copy, RequestStep
<1>5. ASSUME \/ CreateCampaign \/ UpdateCampaign \/ SetStatus \/ Archive \/ DeleteCampaign
             \/ AddStep \/ UpdateStep \/ ReorderSteps
             \/ AddTrigger \/ UpdateTrigger \/ DeleteTrigger
             \/ Enrol \/ Reconcile \/ Send
      PROVE  UNCHANGED request
  BY <1>5 DEF CreateCampaign, UpdateCampaign, SetStatus, Archive, DeleteCampaign,
     AddStep, UpdateStep, ReorderSteps, AddTrigger, UpdateTrigger, DeleteTrigger,
     Enrol, Reconcile, Send, AtOnce
<1>6. CampaignAction => RequestStep
  BY <1>1, <1>4, <1>5, Zenon DEF CampaignAction
<1>7. CASE Next
  BY <1>2, <1>3, <1>6, <1>7, NextCases, Zenon
<1> QED
  BY <1>1, <1>7 DEF vars

LEMMA RequestTypes == TypeOK /\ [Next]_vars => request' \in [Requests -> Busy \cup {Idle}]
BY NextRequest DEF RequestStep, TypeOK

\* Every request counts once.
LEMMA EditTypes == TypeOK /\ [Next]_vars => edits' \in 0..MaxEdits
<1> SUFFICES ASSUME TypeOK, [Next]_vars PROVE edits' \in 0..MaxEdits
  OBVIOUS
<1>1. edits' = edits \/ Edit
  <2> USE DEF Opens, Goes, Ends, AtOnce
  <2>1. ASSUME NEW q \in Requests, LibraryAction(q) PROVE edits' = edits \/ Edit
    BY <2>1 DEF LibraryAction, Upload, RecordUpload, RefuseUpload, ConvertVoice,
       DeleteMediaRow, DeleteMediaFile, SaveTemplate, DeleteTemplate
  <2>2. ASSUME NEW q \in Requests, ReadAction(q) PROVE edits' = edits \/ Edit
    BY <2>2 DEF ReadAction, AskDeleteMedia, ValidateTemplate, CountUses, CheckReadiness,
       ReadForCopy, Abandon
  <2>3. ASSUME NEW q \in Requests, Activate(q) \/ Copy(q) PROVE edits' = edits
    BY <2>3 DEF Activate, Copy
  <2>4. ASSUME \/ CreateCampaign \/ UpdateCampaign \/ SetStatus \/ Archive \/ DeleteCampaign
               \/ AddStep \/ UpdateStep \/ ReorderSteps
               \/ AddTrigger \/ UpdateTrigger \/ DeleteTrigger
               \/ Enrol \/ Reconcile \/ Send
        PROVE  edits' = edits \/ Edit
    BY <2>4 DEF CreateCampaign, UpdateCampaign, SetStatus, Archive, DeleteCampaign,
       AddStep, UpdateStep, ReorderSteps, AddTrigger, UpdateTrigger, DeleteTrigger,
       Enrol, Reconcile, Send
  <2>5. CampaignAction => edits' = edits \/ Edit
    BY <2>3, <2>4, Zenon DEF CampaignAction
  <2>6. CASE Next
    BY <2>1, <2>2, <2>5, <2>6, NextCases, Zenon
  <2> QED
    BY <2>6 DEF vars
<1>2. CASE Edit
  BY <1>2, AuthoringAssumption DEF Edit, TypeOK
<1> QED
  BY <1>1, <1>2 DEF TypeOK

-----------------------------------------------------------------------------
(***************************************************************************)
(* Files.                                                                   *)
(***************************************************************************)

Owners == {"insert", "unlink"}

\* A step that leaves the files alone and lets no request have one.
LEMMA FilesKept ==
  ASSUME TypeOK, Files, UNCHANGED <<file, media, spent>>,
         \/ UNCHANGED request
         \/ \E q \in Requests, b \in Busy \cup {Idle} :
              b.at \notin Owners /\ request' = [request EXCEPT ![q] = b]
  PROVE  Files'
<1>1. \A p \in Requests :
        request'[p].at \in Owners => request'[p] = request[p] /\ request[p].at \in Owners
  BY DEF TypeOK
<1> QED
  BY <1>1 DEF Files, Owners

\* A fresh file, for the request that saved it.
LEMMA FilesSaved ==
  ASSUME TypeOK, Files, NEW q \in Requests, NEW m \in Media, SaveFile(m),
         request' = [request EXCEPT ![q] = [at |-> "insert", of |-> m]]
  PROVE  Files'
<1>1. /\ file' = file \cup {m} /\ spent' = spent \cup {m} /\ media' = media
      /\ m \notin spent
  BY DEF SaveFile
<1>2. /\ request'[q].at = "insert" /\ request'[q].of = m
      /\ \A p \in Requests \ {q} : request'[p] = request[p]
  BY DEF TypeOK
<1>3. \A p \in Requests : request[p].at \in Owners => request[p].of \in spent
  BY DEF Files, Owners
<1>4. m \notin media
  BY <1>1 DEF Files
<1>5. ASSUME NEW p \in Requests, request'[p].at = "insert"
      PROVE  /\ request'[p].of \in (file' \cap spent') \ media'
             /\ \A o \in Requests \ {p} :
                  request'[o].at \in Owners => request'[o].of # request'[p].of
  <2>1. CASE p = q
    BY <1>1, <1>2, <1>3, <1>4, <2>1
  <2>2. CASE p # q
    <3>1. request'[p] = request[p] /\ request[p].at = "insert"
      BY <1>2, <1>5, <2>2
    <3>2. request[p].of \in (file \cap spent) \ media
      BY <3>1 DEF Files
    <3>3. \A o \in Requests \ {p} : request[o].at \in Owners => request[o].of # request[p].of
      BY <3>1 DEF Files, Owners
    <3> QED
      BY <1>1, <1>2, <3>1, <3>2, <3>3
  <2> QED
    BY <2>1, <2>2
<1>6. \A p \in Requests : request'[p].at = "unlink" => request'[p].of \in spent' \ media'
  BY <1>1, <1>2 DEF Files
<1> QED
  BY <1>1, <1>5, <1>6 DEF Files, Owners

\* The row of a file: its request has the file no longer.
LEMMA FilesRecorded ==
  ASSUME TypeOK, Files, NEW q \in Requests, request[q].at = "insert",
         InsertMedia(request[q].of),
         NEW b \in Busy \cup {Idle}, b.at \notin Owners, request' = [request EXCEPT ![q] = b]
  PROVE  Files'
<1> DEFINE m == request[q].of
<1>1. file' = file /\ spent' = spent /\ media' = media \cup {m}
  BY DEF InsertMedia
<1>2. /\ m \in file \cap spent
      /\ \A p \in Requests \ {q} : request[p].at \in Owners => request[p].of # m
  BY DEF Files, Owners
<1>3. \A p \in Requests : request'[p].at \in Owners =>
        p # q /\ request'[p] = request[p] /\ request[p].at \in Owners
  BY DEF TypeOK
<1> HIDE DEF m
<1> QED
  BY <1>1, <1>2, <1>3 DEF Files, Owners

\* A file that is removed has no row, and no other request is about to write one.
LEMMA FilesRemoved ==
  ASSUME TypeOK, Files, NEW q \in Requests, request[q].at \in Owners,
         RemoveFile(request[q].of), request' = [request EXCEPT ![q] = Idle]
  PROVE  Files'
<1> DEFINE m == request[q].of
<1>1. file' = file \ {m} /\ spent' = spent /\ media' = media
  BY DEF RemoveFile
<1>2. m \notin media /\ \A p \in Requests \ {q} : request[p].at = "insert" => request[p].of # m
  BY DEF Files, Owners
<1>3. \A p \in Requests : request'[p].at \in Owners =>
        p # q /\ request'[p] = request[p] /\ request[p].at \in Owners
  BY DEF TypeOK, Idle, Owners
<1> HIDE DEF m
<1> QED
  BY <1>1, <1>2, <1>3 DEF Files, Owners

\* The row goes first, the file after it.
LEMMA FilesDeleted ==
  ASSUME TypeOK, Files, NEW q \in Requests, request[q].at = "delete",
         DeleteMedia(request[q].of),
         request' = [request EXCEPT ![q] = [at |-> "unlink", of |-> request[q].of]]
  PROVE  Files'
<1> DEFINE m == request[q].of
<1>1. file' = file /\ spent' = spent /\ media' = media \ {m} /\ m \in media
  BY DEF DeleteMedia
<1>2. m \in spent /\ \A p \in Requests : request[p].at \in Owners => request[p].of # m
  BY <1>1 DEF Files, Owners
<1>3. /\ request'[q].at = "unlink" /\ request'[q].of = m
      /\ \A p \in Requests \ {q} : request'[p] = request[p]
  BY DEF TypeOK
<1> HIDE DEF m
<1> QED
  BY <1>1, <1>2, <1>3 DEF Files, Owners

LEMMA FilesStep == TypeOK /\ Files /\ [Next]_vars => Files'
<1> SUFFICES ASSUME TypeOK, Files, [Next]_vars PROVE Files'
  OBVIOUS
<1>1. \A r \in {Idle, [at |-> "derive", of |-> Text]} : r \in Busy \cup {Idle} /\ r.at \notin Owners
  BY BusyKinds DEF Idle, Owners
<1>2. ASSUME NEW q \in Requests, LibraryAction(q) PROVE Files'
  <2>1. CASE Upload(q) \/ ConvertVoice(q)
    BY <2>1, FilesSaved DEF Upload, ConvertVoice, Opens, Goes
  <2>2. CASE RecordUpload(q)
    <3>1. request[q].at = "insert" /\ InsertMedia(request[q].of)
      BY <2>2 DEF RecordUpload
    <3>2. \E r \in {Idle, [at |-> "derive", of |-> Text]} : request' = [request EXCEPT ![q] = r]
      BY <2>2 DEF RecordUpload, Ends, Goes
    <3> QED
      BY <1>1, <3>1, <3>2, FilesRecorded, Zenon
  <2>3. CASE RefuseUpload(q) \/ DeleteMediaFile(q)
    BY <2>3, FilesRemoved DEF RefuseUpload, DeleteMediaFile, Ends, Owners
  <2>4. CASE DeleteMediaRow(q)
    BY <2>4, FilesDeleted DEF DeleteMediaRow, Goes
  <2>5. CASE SaveTemplate(q) \/ DeleteTemplate(q)
    <3>1. UNCHANGED <<file, media, spent>>
      BY <2>5 DEF SaveTemplate, DeleteTemplate, CreateTemplate, UpdateTemplate,
         ArchiveTemplate, DropTemplate
    <3>2. request' = [request EXCEPT ![q] = Idle]
      BY <2>5 DEF SaveTemplate, DeleteTemplate, Ends
    <3> QED
      BY <1>1, <3>1, <3>2, FilesKept
  <2> QED
    BY <1>2, <2>1, <2>2, <2>3, <2>4, <2>5 DEF LibraryAction
<1>3. ASSUME NEW q \in Requests, ReadAction(q), UNCHANGED libraryVars PROVE Files'
  <2>1. PICK b : request' = [request EXCEPT ![q] = b] /\ b.at \notin Owners
    BY <1>3 DEF ReadAction, AskDeleteMedia, ValidateTemplate, CountUses, CheckReadiness,
       ReadForCopy, Abandon, Opens, Ends, Idle, Owners
  <2>2. b \in Busy \cup {Idle}
    BY <2>1, RequestTypes DEF TypeOK
  <2> QED
    BY <1>3, <2>1, <2>2, FilesKept DEF libraryVars
<1>4. ASSUME CampaignAction, UNCHANGED libraryVars PROVE Files'
  <2>1. UNCHANGED request \/ \E q \in Requests : request' = [request EXCEPT ![q] = Idle]
    <3>1. ASSUME NEW q \in Requests, Activate(q) \/ Copy(q)
          PROVE  request' = [request EXCEPT ![q] = Idle]
      BY <3>1 DEF Activate, Copy, Ends
    <3>2. ASSUME \/ CreateCampaign \/ UpdateCampaign \/ SetStatus \/ Archive \/ DeleteCampaign
                 \/ AddStep \/ UpdateStep \/ ReorderSteps
                 \/ AddTrigger \/ UpdateTrigger \/ DeleteTrigger
                 \/ Enrol \/ Reconcile \/ Send
          PROVE  UNCHANGED request
      BY <3>2 DEF CreateCampaign, UpdateCampaign, SetStatus, Archive, DeleteCampaign,
         AddStep, UpdateStep, ReorderSteps, AddTrigger, UpdateTrigger, DeleteTrigger,
         Enrol, Reconcile, Send, AtOnce
    <3> QED
      BY <1>4, <3>1, <3>2, Zenon DEF CampaignAction
  <2> QED
    BY <1>1, <1>4, <2>1, FilesKept DEF libraryVars
<1>5. CASE Next
  BY <1>2, <1>3, <1>4, <1>5, NextCases, Zenon
<1>6. CASE UNCHANGED vars
  BY <1>6, FilesKept DEF vars, libraryVars
<1> QED
  BY <1>5, <1>6

-----------------------------------------------------------------------------
(***************************************************************************)
(* The places of the steps.                                                 *)
(***************************************************************************)

\* A set of numbers that is not empty and has a bound has a greatest: the numbers
\* that do not pass all of them are as many as it, and one.
LEMMA GreatestExists ==
  ASSUME NEW M \in Nat, NEW T \in SUBSET (0..M), T # {}
  PROVE  \E m \in T : \A x \in T : x <= m
<1> DEFINE B == {n \in 0..M : \E x \in T : n <= x}
           k == Cardinality(B)
<1>1. IsFiniteSet(0..M)
  BY FS_Interval
<1>2. IsFiniteSet(B) /\ k \in Nat
  BY <1>1, FS_Subset, FS_CardinalityType
<1>3. ASSUME NEW x \in T PROVE x + 1 <= k
  <2>1. x \in Nat /\ 0..x \in SUBSET B
    OBVIOUS
  <2>2. Cardinality(0..x) <= k
    BY <1>2, <2>1, FS_Subset
  <2>3. Cardinality(0..x) = x + 1
    BY <2>1, FS_Interval
  <2> QED
    BY <2>2, <2>3
<1>4. k - 1 \in T
  <2> SUFFICES ASSUME k - 1 \notin T PROVE FALSE
    OBVIOUS
  <2>1. ASSUME NEW x \in T PROVE x \in Nat /\ x <= k - 2
    <3> HIDE DEF k, B
    <3>1. x \in Nat /\ x + 1 <= k /\ x # k - 1 /\ k \in Nat
      BY <1>2, <1>3
    <3> QED
      BY <3>1
  <2>2. k \in Nat /\ k >= 2
    <3>1. PICK x \in T : TRUE
      OBVIOUS
    <3>2. k \in Nat
      BY <1>2
    <3> HIDE DEF k, B
    <3> QED
      BY <2>1, <3>1, <3>2
  <2>3. B \in SUBSET (0..(k - 2))
    BY <1>2, <2>1, <2>2
  <2>4. IsFiniteSet(0..(k - 2)) /\ Cardinality(0..(k - 2)) = k - 1
    BY <2>2, FS_Interval
  <2>5. Cardinality(B) <= Cardinality(0..(k - 2))
    BY <2>3, <2>4, FS_Subset
  <2> QED
    BY <1>2, <2>4, <2>5
<1> QED
  BY <1>2, <1>3, <1>4

\* LastOrder is the greatest place of a campaign, or zero.
LEMMA LastOrderIsLast ==
  ASSUME TypeOK, NEW c \in Campaigns
  PROVE  LastOrder(c) \in 0..MaxOrder /\ \A s \in StepsOf(c) : step[s].order <= LastOrder(c)
<1> DEFINE P(n) == /\ n = 0 \/ \E s \in StepsOf(c) : step[s].order = n
                   /\ \A s \in StepsOf(c) : step[s].order <= n
<1>1. \A s \in StepsOf(c) : step[s].order \in 1..MaxOrder
  BY DEF TypeOK, StepsOf, StepRow
<1>2. \E n \in 0..MaxOrder : P(n)
  <2> DEFINE T == {step[s].order : s \in StepsOf(c)} \cup {0}
  <2>1. MaxOrder \in Nat /\ T \in SUBSET (0..MaxOrder) /\ T # {}
    BY <1>1, AuthoringAssumption
  <2>2. PICK m \in T : \A x \in T : x <= m
    <3> HIDE DEF T
    <3> QED
      BY <2>1, GreatestExists
  <2>3. P(m)
    BY <2>2
  <2> QED
    BY <2>1, <2>3
<1>3. LastOrder(c) = CHOOSE n \in 0..MaxOrder : P(n)
  BY DEF LastOrder
<1>4. LastOrder(c) \in 0..MaxOrder /\ P(LastOrder(c))
  <2> HIDE DEF P
  <2> QED
    BY <1>2, <1>3
<1> QED
  BY <1>4

\* PlaceIn finds a step's place in the list it is in.
LEMMA PlaceInFinds ==
  ASSUME NEW list \in Lists, NEW s \in Names(list)
  PROVE  PlaceIn(list, s) \in DOMAIN list /\ list[PlaceIn(list, s)] = s
<1> DEFINE P(i) == list[i] = s /\ \A k \in DOMAIN list : list[k] = s => k <= i
           T == {i \in DOMAIN list : list[i] = s}
<1>1. PICK n \in 1..MaxOrder : list \in [1..n -> Steps]
  BY DEF Lists
<1>2. n \in Nat /\ DOMAIN list = 1..n
  BY <1>1, AuthoringAssumption
<1>3. T \in SUBSET (0..n) /\ T # {}
  BY <1>2 DEF Names
<1>4. PICK m \in T : \A x \in T : x <= m
  <2> HIDE DEF T
  <2> QED
    BY <1>2, <1>3, GreatestExists
<1>5. m \in DOMAIN list /\ P(m)
  BY <1>4
<1>6. PlaceIn(list, s) = CHOOSE i \in DOMAIN list : P(i)
  BY DEF PlaceIn
<1>7. PlaceIn(list, s) \in DOMAIN list /\ P(PlaceIn(list, s))
  <2> HIDE DEF P
  <2> QED
    BY <1>5, <1>6
<1> QED
  BY <1>7

LEMMA PlaceInType ==
  ASSUME NEW list \in Lists, NEW s \in Names(list)
  PROVE  PlaceIn(list, s) \in 1..MaxOrder
<1>1. PICK n \in 1..MaxOrder : list \in [1..n -> Steps]
  BY DEF Lists
<1>2. PlaceIn(list, s) \in 1..n
  BY <1>1, PlaceInFinds
<1> QED
  BY <1>2, AuthoringAssumption

\* A copy writes each row it has read once.
LEMMA CopyIsOneToOne ==
  ASSUME NEW slots \in SUBSET Steps, NEW shape, NEW row \in [slots -> shape],
         \A r \in shape : \E s \in slots : row[s] = r,
         Cardinality(slots) = Cardinality(shape)
  PROVE  \A r, s \in slots : row[r] = row[s] => r = s
<1>1. IsFiniteSet(slots)
  BY AuthoringAssumption, FS_Subset
<1>2. row \in Surjection(slots, shape)
  BY DEF Surjection
<1>3. row \in Injection(slots, shape)
  BY <1>1, <1>2, FS_Surjection
<1> QED
  BY <1>3 DEF Injection, IsInjective

-----------------------------------------------------------------------------
(***************************************************************************)
(* The tables of campaigns, steps, words and jobs.                          *)
(***************************************************************************)

Places == \A c \in Campaigns : \A r, s \in StepsOf(c) :
  step[r].order = step[s].order => r = s

RowKeys ==
  /\ \A s \in Steps : step[s] # NoRow => IsCampaign(step[s].of) /\ IsTemplate(step[s].tpl)
  /\ \A s \in Steps : job[s] # NoRow => step[s] # NoRow

RowTypes ==
  /\ campaign \in [Campaigns -> CampaignRow \cup {NoRow, Gone}]
  /\ step \in [Steps -> StepRow \cup {NoRow}]
  /\ trigger \in [Triggers -> TriggerRow \cup {NoRow}]
  /\ enrolled \subseteq Campaigns
  /\ job \in [Steps -> JobRow \cup {NoRow}]

Tables == RowTypes /\ Places /\ RowKeys /\ Index

LEMMA TablesOf == AuthoringInv => Tables
BY DEF AuthoringInv, Tables, TypeOK, RowTypes, Places, Keys, RowKeys

\* Places are distinct in a campaign, said of pairs of steps.
LEMMA PlacesMeans ==
  ASSUME RowTypes
  PROVE  Places <=> \A r, s \in Steps :
           /\ step[r] # NoRow /\ step[s] # NoRow
           /\ step[r].of = step[s].of /\ step[r].order = step[s].order
           => r = s
BY DEF RowTypes, Places, StepsOf, StepRow

\* A write of a campaign's own row.
LEMMA CampaignRowTables ==
  ASSUME Tables, NEW c \in Campaigns, NEW row \in CampaignRow,
         campaign' = [campaign EXCEPT ![c] = row],
         UNCHANGED <<libraryVars, step, trigger, enrolled, job>>
  PROVE  Tables'
<1>1. row \notin {NoRow, Gone}
  BY RowAssumption
<1>2. RowTypes'
  BY DEF Tables, RowTypes
<1>3. \A d \in Campaigns : IsCampaign(d) => IsCampaign(d)'
  BY <1>1 DEF Tables, RowTypes, IsCampaign
<1>4. \A s \in Steps : step[s] # NoRow => step[s].of \in Campaigns
  BY DEF Tables, RowTypes, StepRow
<1>5. RowKeys'
  BY <1>3, <1>4 DEF Tables, RowKeys, IsTemplate, libraryVars
<1>6. Places' /\ Index'
  BY DEF Tables, Places, StepsOf, Index
<1> QED
  BY <1>2, <1>5, <1>6 DEF Tables

LEMMA CampaignTables ==
  ASSUME Tables, UNCHANGED libraryVars,
         \/ \E q \in Requests : Activate(q) /\ request[q].of \in Campaigns
         \/ CreateCampaign \/ UpdateCampaign \/ SetStatus
  PROVE  Tables'
<1>1. \A p \in BOOLEAN : Draft(p) \in CampaignRow
  BY DEF Draft, CampaignRow, Statuses
<1>2. ASSUME NEW c \in Campaigns, NEW st \in Statuses, IsCampaign(c), WriteStatus(c, st),
             UNCHANGED <<step, trigger, enrolled, job>>
      PROVE  Tables'
  <2>1. campaign[c] \in CampaignRow
    BY <1>2 DEF Tables, RowTypes, IsCampaign
  <2>2. [campaign[c] EXCEPT !.status = st] \in CampaignRow
    BY <2>1 DEF CampaignRow
  <2>3. campaign' = [campaign EXCEPT ![c] = [campaign[c] EXCEPT !.status = st]]
    BY <1>2 DEF WriteStatus
  <2> QED
    BY <1>2, <2>2, <2>3, CampaignRowTables
<1>3. CASE \E q \in Requests : Activate(q) /\ request[q].of \in Campaigns
  BY <1>2, <1>3 DEF Activate, Statuses
<1>4. CASE CreateCampaign
  BY <1>1, <1>4, CampaignRowTables DEF CreateCampaign
<1>5. CASE UpdateCampaign
  <2>1. PICK c \in Campaigns, pin \in BOOLEAN : IsCampaign(c) /\ SaveSettings(c, pin)
    BY <1>5 DEF UpdateCampaign
  <2>2. campaign[c] \in CampaignRow
    BY <2>1 DEF Tables, RowTypes, IsCampaign
  <2>3. [campaign[c] EXCEPT !.pin = pin] \in CampaignRow
    BY <2>2 DEF CampaignRow
  <2>4. campaign' = [campaign EXCEPT ![c] = [campaign[c] EXCEPT !.pin = pin]]
    BY <2>1 DEF SaveSettings
  <2> QED
    BY <1>5, <2>3, <2>4, CampaignRowTables DEF UpdateCampaign
<1>6. CASE SetStatus
  BY <1>2, <1>6 DEF SetStatus, Statuses
<1> QED
  BY <1>3, <1>4, <1>5, <1>6

\* Everything of the campaign is closed at once.
LEMMA ArchiveTables ==
  ASSUME Tables, UNCHANGED libraryVars, Archive
  PROVE  Tables'
<1>1. PICK c \in Campaigns : IsCampaign(c) /\ ArchiveRows(c)
  BY DEF Archive
<1>2. UNCHANGED <<step, enrolled>>
  BY DEF Archive
<1>3. campaign[c] \in CampaignRow
  BY <1>1 DEF Tables, RowTypes, IsCampaign
<1>4. [campaign[c] EXCEPT !.status = "ARCHIVED", !.hidden = TRUE] \in CampaignRow
  BY <1>3 DEF CampaignRow, Statuses
<1>5. campaign' = [campaign EXCEPT ![c] =
        [campaign[c] EXCEPT !.status = "ARCHIVED", !.hidden = TRUE]]
  BY <1>1 DEF ArchiveRows
<1>6. \A k \in Triggers : trigger[k] # NoRow =>
        /\ [trigger[k] EXCEPT !.active = FALSE] \in TriggerRow
        /\ [trigger[k] EXCEPT !.active = FALSE].of = trigger[k].of
        /\ [trigger[k] EXCEPT !.active = FALSE].account = trigger[k].account
        /\ ~[trigger[k] EXCEPT !.active = FALSE].active
  BY DEF Tables, RowTypes, TriggerRow
<1>7. /\ trigger' \in [Triggers -> TriggerRow \cup {NoRow}]
      /\ \A k \in Triggers : trigger'[k] # NoRow =>
           /\ trigger[k] # NoRow
           /\ trigger'[k].of = trigger[k].of /\ trigger'[k].account = trigger[k].account
           /\ trigger'[k].active => trigger'[k] = trigger[k]
  <2>1. trigger' = [k \in Triggers |-> IF k \in TriggersOf(c)
                      THEN [trigger[k] EXCEPT !.active = FALSE] ELSE trigger[k]]
    BY <1>1 DEF ArchiveRows
  <2>2. \A k \in TriggersOf(c) : trigger[k] # NoRow
    BY DEF TriggersOf
  <2>3. trigger \in [Triggers -> TriggerRow \cup {NoRow}]
    BY DEF Tables, RowTypes
  <2> QED
    BY <1>6, <2>1, <2>2, <2>3
<1>8. Index'
  BY <1>7 DEF Tables, Index
<1>9. \A s \in Steps : job[s] # NoRow => [job[s] EXCEPT !.st = "CANCELLED"] \in JobRow
  BY DEF Tables, RowTypes, JobRow
<1>10. /\ job' \in [Steps -> JobRow \cup {NoRow}]
       /\ \A s \in Steps : job'[s] # NoRow => job[s] # NoRow
  <2>1. job' = [s \in Steps |-> IF s \in StepsOf(c) /\ job[s] # NoRow /\ job[s].st = "PENDING"
                  THEN [job[s] EXCEPT !.st = "CANCELLED"] ELSE job[s]]
    BY <1>1 DEF ArchiveRows
  <2> QED
    BY <1>9, <2>1 DEF Tables, RowTypes
<1>11. RowTypes'
  BY <1>2, <1>4, <1>5, <1>7, <1>10 DEF Tables, RowTypes
<1>12. \A d \in Campaigns : IsCampaign(d) => IsCampaign(d)'
  BY <1>4, <1>5, RowAssumption DEF Tables, RowTypes, IsCampaign
<1>13. \A s \in Steps : step[s] # NoRow => step[s].of \in Campaigns
  BY DEF Tables, RowTypes, StepRow
<1>14. RowKeys'
  BY <1>2, <1>10, <1>12, <1>13 DEF Tables, RowKeys, IsTemplate, libraryVars
<1>15. Places'
  BY <1>2 DEF Tables, Places, StepsOf
<1> QED
  BY <1>8, <1>11, <1>14, <1>15 DEF Tables

\* Everything of the campaign goes at once.
LEMMA DeleteCampaignTables ==
  ASSUME Tables, UNCHANGED libraryVars, DeleteCampaign
  PROVE  Tables'
<1>1. PICK c \in Campaigns : DropCampaign(c)
  BY DEF DeleteCampaign
<1>2. /\ campaign' = [campaign EXCEPT ![c] = Gone]
      /\ step' = [s \in Steps |-> IF s \in StepsOf(c) THEN NoRow ELSE step[s]]
      /\ job' = [s \in Steps |-> IF s \in StepsOf(c) THEN NoRow ELSE job[s]]
      /\ trigger' = [k \in Triggers |-> IF k \in TriggersOf(c) THEN NoRow ELSE trigger[k]]
      /\ enrolled' = enrolled \ {c}
  BY <1>1 DEF DropCampaign
<1>3. RowTypes'
  BY <1>2 DEF Tables, RowTypes
<1>4. \A s \in Steps : step'[s] # NoRow =>
        step'[s] = step[s] /\ step[s] # NoRow /\ step[s].of \in Campaigns /\ step[s].of # c
  BY <1>2 DEF Tables, RowTypes, StepsOf, StepRow
<1>5. \A k \in Triggers : trigger'[k] # NoRow => trigger'[k] = trigger[k]
  BY <1>2
<1>6. \A s \in Steps : job'[s] # NoRow => job[s] # NoRow /\ step'[s] = step[s]
  BY <1>2
<1>7. \A d \in Campaigns \ {c} : IsCampaign(d) => IsCampaign(d)'
  BY <1>2 DEF Tables, RowTypes, IsCampaign
<1>8. RowKeys'
  BY <1>4, <1>6, <1>7 DEF Tables, RowKeys, IsTemplate, libraryVars
<1>9. Places'
  BY <1>4 DEF Tables, Places, StepsOf
<1>10. Index'
  BY <1>5 DEF Tables, Index
<1> QED
  BY <1>3, <1>8, <1>9, <1>10 DEF Tables

\* Any write of steps that keeps their campaigns and templates there, and their
\* places apart.
LEMMA StepTables ==
  ASSUME Tables, UNCHANGED <<libraryVars, trigger, enrolled, job>>,
         campaign' \in [Campaigns -> CampaignRow \cup {NoRow, Gone}],
         \A d \in Campaigns : IsCampaign(d) => IsCampaign(d)',
         step' \in [Steps -> StepRow \cup {NoRow}],
         \A s \in Steps : step[s] # NoRow => step'[s] # NoRow,
         \A s \in Steps : step'[s] # NoRow =>
           IsCampaign(step[s].of)' /\ IsTemplate(step'[s].tpl),
         \A r, s \in Steps :
           /\ step'[r] # NoRow /\ step'[s] # NoRow
           /\ step'[r].of = step'[s].of /\ step'[r].order = step'[s].order
           => r = s
  PROVE  Tables'
<1>1. RowTypes'
  BY DEF Tables, RowTypes
<1>2. Places'
  BY DEF Places, StepsOf
<1>3. RowKeys'
  BY DEF Tables, RowKeys, IsTemplate, libraryVars
<1>4. Index'
  BY DEF Tables, Index
<1> QED
  BY <1>1, <1>2, <1>3, <1>4 DEF Tables

LEMMA AddStepTables ==
  ASSUME TypeOK, Tables, UNCHANGED libraryVars, AddStep
  PROVE  Tables'
<1>1. PICK s \in Steps, c \in Campaigns, t \in Templates, on \in BOOLEAN :
        IsCampaign(c) /\ InsertStep(s, c, t, on)
  BY DEF AddStep
<1> DEFINE n == LastOrder(c)
           row == [of |-> c, tpl |-> t, enabled |-> on, order |-> n + 1]
<1>2. /\ step[s] = NoRow /\ IsTemplate(t) /\ n < MaxOrder
      /\ step' = [step EXCEPT ![s] = row]
      /\ UNCHANGED <<campaign, trigger, enrolled, job>>
  BY <1>1 DEF InsertStep, AddStep
<1>3. n \in 0..MaxOrder /\ \A r \in StepsOf(c) : step[r].order <= n
  BY LastOrderIsLast
<1> HIDE DEF n
<1>4. n + 1 \in 1..MaxOrder /\ \A r \in StepsOf(c) : step[r].order # n + 1
  <2>1. n + 1 \in 1..MaxOrder /\ n \in Nat
    BY <1>2, <1>3, AuthoringAssumption
  <2>2. \A r \in StepsOf(c) : step[r].order \in Int
    BY DEF StepsOf, Tables, RowTypes, StepRow
  <2> QED
    BY <1>3, <2>1, <2>2
<1>5. row \in StepRow /\ row.of = c /\ row.tpl = t /\ row.order = n + 1
  BY <1>4 DEF StepRow
<1> HIDE DEF row
<1>6. row # NoRow
  BY <1>5, RowAssumption
<1>7. step'[s] = row /\ \A r \in Steps \ {s} : step'[r] = step[r]
  BY <1>2 DEF Tables, RowTypes
<1>8. step' \in [Steps -> StepRow \cup {NoRow}]
  BY <1>2, <1>5 DEF Tables, RowTypes
<1>9. \A r \in Steps : step'[r] # NoRow => IsCampaign(step[r].of)' /\ IsTemplate(step'[r].tpl)
  <2>1. \A r \in Steps : step'[r] # NoRow =>
          IsCampaign(step'[r].of) /\ IsTemplate(step'[r].tpl)
    BY <1>1, <1>2, <1>5, <1>7 DEF Tables, RowKeys
  <2> QED
    BY <1>2, <2>1 DEF IsCampaign
<1>10. \A r, o \in Steps :
         /\ step[r] # NoRow /\ step[o] # NoRow
         /\ step[r].of = step[o].of /\ step[r].order = step[o].order
         => r = o
  BY PlacesMeans DEF Tables
<1>11. \A r \in Steps : step[r] # NoRow /\ step[r].of = c => step[r].order # n + 1
  BY <1>4 DEF StepsOf
<1>12. \A r, o \in Steps :
         /\ step'[r] # NoRow /\ step'[o] # NoRow
         /\ step'[r].of = step'[o].of /\ step'[r].order = step'[o].order
         => r = o
  BY <1>5, <1>7, <1>10, <1>11
<1>13. \A r \in Steps : step[r] # NoRow => step'[r] # NoRow
  BY <1>6, <1>7
<1>14. /\ campaign' \in [Campaigns -> CampaignRow \cup {NoRow, Gone}]
       /\ \A d \in Campaigns : IsCampaign(d) => IsCampaign(d)'
  BY <1>2 DEF Tables, RowTypes, IsCampaign
<1> QED
  BY <1>2, <1>8, <1>9, <1>12, <1>13, <1>14, StepTables

LEMMA UpdateStepTables ==
  ASSUME Tables, UNCHANGED libraryVars, UpdateStep
  PROVE  Tables'
<1>1. PICK s \in Steps, t \in Templates, on \in BOOLEAN : SaveStep(s, t, on)
  BY DEF UpdateStep
<1> DEFINE row == [step[s] EXCEPT !.tpl = t, !.enabled = on]
<1>2. /\ step[s] \in StepRow /\ IsTemplate(t)
      /\ UNCHANGED <<campaign, trigger, enrolled, job>>
  BY <1>1 DEF SaveStep, UpdateStep, Tables, RowTypes
<1>3. /\ row \in StepRow /\ row.of = step[s].of /\ row.tpl = t
      /\ row.order = step[s].order
  BY <1>2 DEF StepRow
<1>4. step' = [step EXCEPT ![s] = row]
  BY <1>1 DEF SaveStep
<1> HIDE DEF row
<1>5. step'[s] = row /\ \A r \in Steps \ {s} : step'[r] = step[r]
  BY <1>4 DEF Tables, RowTypes
<1>6. step' \in [Steps -> StepRow \cup {NoRow}]
  BY <1>3, <1>4 DEF Tables, RowTypes
<1>7. \A r \in Steps : step'[r] # NoRow =>
        step[r] # NoRow /\ step'[r].of = step[r].of /\ step'[r].order = step[r].order
  BY <1>2, <1>3, <1>5, RowAssumption
<1>8. \A r \in Steps : step'[r] # NoRow => IsCampaign(step[r].of)' /\ IsTemplate(step'[r].tpl)
  <2>1. \A r \in Steps : step'[r] # NoRow =>
          IsCampaign(step'[r].of) /\ IsTemplate(step'[r].tpl)
    BY <1>2, <1>3, <1>5, <1>7 DEF Tables, RowKeys
  <2> QED
    BY <1>2, <2>1 DEF IsCampaign
<1>9. \A r, o \in Steps :
        /\ step[r] # NoRow /\ step[o] # NoRow
        /\ step[r].of = step[o].of /\ step[r].order = step[o].order
        => r = o
  BY PlacesMeans DEF Tables
<1>10. \A r, o \in Steps :
         /\ step'[r] # NoRow /\ step'[o] # NoRow
         /\ step'[r].of = step'[o].of /\ step'[r].order = step'[o].order
         => r = o
  BY <1>7, <1>9
<1>11. \A r \in Steps : step[r] # NoRow => step'[r] # NoRow
  BY <1>3, <1>5, RowAssumption
<1>12. /\ campaign' \in [Campaigns -> CampaignRow \cup {NoRow, Gone}]
       /\ \A d \in Campaigns : IsCampaign(d) => IsCampaign(d)'
  BY <1>2 DEF Tables, RowTypes, IsCampaign
<1> QED
  BY <1>2, <1>6, <1>8, <1>10, <1>11, <1>12, StepTables

\* All of the campaign's steps move, each to the place where the list has it.
LEMMA ReorderTables ==
  ASSUME Tables, UNCHANGED libraryVars, ReorderSteps
  PROVE  Tables'
<1>1. PICK c \in Campaigns, list \in Lists :
        /\ Names(list) = StepsOf(c)
        /\ step' = [s \in Steps |->
             IF s \in Names(list) THEN [step[s] EXCEPT !.order = PlaceIn(list, s)]
                                  ELSE step[s]]
  BY DEF ReorderSteps, Complete
<1>2. UNCHANGED <<campaign, trigger, enrolled, job>>
  BY DEF ReorderSteps
<1>3. \A s \in StepsOf(c) : s \in Steps /\ step[s] # NoRow /\ step[s] \in StepRow
  BY DEF StepsOf, Tables, RowTypes
<1>4. \A s \in StepsOf(c) : PlaceIn(list, s) \in 1..MaxOrder /\ list[PlaceIn(list, s)] = s
  BY <1>1, PlaceInType, PlaceInFinds
<1>5. ASSUME NEW r \in StepRow, NEW n \in 1..MaxOrder
      PROVE  LET m == [r EXCEPT !.order = n] IN
             m \in StepRow /\ m.of = r.of /\ m.tpl = r.tpl /\ m.order = n
  BY DEF StepRow
<1>6. \A s \in StepsOf(c) :
        /\ step'[s] \in StepRow /\ step'[s].of = step[s].of /\ step'[s].tpl = step[s].tpl
        /\ step'[s].order = PlaceIn(list, s)
  <2> SUFFICES ASSUME NEW s \in StepsOf(c)
               PROVE  /\ step'[s] \in StepRow /\ step'[s].of = step[s].of
                      /\ step'[s].tpl = step[s].tpl /\ step'[s].order = PlaceIn(list, s)
    OBVIOUS
  <2>1. step'[s] = [step[s] EXCEPT !.order = PlaceIn(list, s)]
    BY <1>1, <1>3, Zenon
  <2> QED
    BY <1>3, <1>4, <1>5, <2>1
<1>7. \A s \in Steps \ StepsOf(c) : step'[s] = step[s]
  BY <1>1
<1>8. step' \in [Steps -> StepRow \cup {NoRow}]
  <2>1. \A s \in Steps : step'[s] \in StepRow \cup {NoRow}
    BY <1>6, <1>7 DEF Tables, RowTypes
  <2>2. step' = [s \in Steps |-> step'[s]]
    BY <1>1, Zenon
  <2> QED
    BY <2>1, <2>2
<1>9. \A s \in Steps : step'[s] # NoRow =>
        step[s] # NoRow /\ step'[s].of = step[s].of /\ step'[s].tpl = step[s].tpl
  BY <1>3, <1>6, <1>7
<1>10. \A s \in Steps : step'[s] # NoRow => IsCampaign(step[s].of)' /\ IsTemplate(step'[s].tpl)
  <2>1. \A s \in Steps : step'[s] # NoRow =>
          IsCampaign(step'[s].of) /\ IsTemplate(step'[s].tpl)
    BY <1>9 DEF Tables, RowKeys
  <2> QED
    BY <1>2, <2>1 DEF IsCampaign
<1>11. \A r, o \in Steps :
         /\ step[r] # NoRow /\ step[o] # NoRow
         /\ step[r].of = step[o].of /\ step[r].order = step[o].order
         => r = o
  BY PlacesMeans DEF Tables
<1>12. ASSUME NEW r \in Steps, NEW o \in Steps,
              step'[r] # NoRow /\ step'[o] # NoRow,
              step'[r].of = step'[o].of /\ step'[r].order = step'[o].order
       PROVE  r = o
  <2>1. step[r] # NoRow /\ step[o] # NoRow /\ step[r].of = step[o].of
    BY <1>9, <1>12
  <2>2. r \in StepsOf(c) <=> o \in StepsOf(c)
    BY <2>1 DEF StepsOf
  <2>3. CASE r \in StepsOf(c)
    <3>1. PlaceIn(list, r) = PlaceIn(list, o)
      BY <1>6, <1>12, <2>2, <2>3
    <3> QED
      BY <1>4, <2>2, <2>3, <3>1
  <2>4. CASE r \notin StepsOf(c)
    BY <1>7, <1>11, <1>12, <2>1, <2>2, <2>4
  <2> QED
    BY <2>3, <2>4
<1>13. \A s \in Steps : step[s] # NoRow => step'[s] # NoRow
  BY <1>6, <1>7, RowAssumption
<1>14. /\ campaign' \in [Campaigns -> CampaignRow \cup {NoRow, Gone}]
       /\ \A d \in Campaigns : IsCampaign(d) => IsCampaign(d)'
  BY <1>2 DEF Tables, RowTypes, IsCampaign
<1> QED
  BY <1>2, <1>8, <1>10, <1>12, <1>13, <1>14, StepTables

\* The copy is a campaign without steps until all of them are written.
LEMMA CopyTables ==
  ASSUME Tables, UNCHANGED libraryVars, NEW q \in Requests, Copy(q),
         request[q].pin \in BOOLEAN, request[q].shape \subseteq StepRow,
         \A r, s \in request[q].shape : r.order = s.order => r = s
  PROVE  Tables'
<1> DEFINE shape == request[q].shape
<1>1. PICK c \in Campaigns, slots \in SUBSET Steps : \E row \in [slots -> shape] :
        /\ campaign[c] = NoRow
        /\ AccountOf[c] = AccountOf[request[q].of]
        /\ \A s \in slots : step[s] = NoRow
        /\ \A r \in shape : \E s \in slots : row[s] = r
        /\ Cardinality(slots) = Cardinality(shape)
        /\ \A r \in shape : IsTemplate(r.tpl)
        /\ campaign' = [campaign EXCEPT ![c] = Draft(request[q].pin)]
        /\ step' = [s \in Steps |->
             IF s \in slots THEN [row[s] EXCEPT !.of = c] ELSE step[s]]
  BY Zenon DEF Copy
<1>2. PICK row \in [slots -> shape] :
        /\ campaign[c] = NoRow
        /\ \A s \in slots : step[s] = NoRow
        /\ \A r \in shape : \E s \in slots : row[s] = r
        /\ Cardinality(slots) = Cardinality(shape)
        /\ \A r \in shape : IsTemplate(r.tpl)
        /\ campaign' = [campaign EXCEPT ![c] = Draft(request[q].pin)]
        /\ step' = [s \in Steps |->
             IF s \in slots THEN [row[s] EXCEPT !.of = c] ELSE step[s]]
  BY <1>1, Zenon
<1>3. UNCHANGED <<trigger, enrolled, job>>
  BY DEF Copy
<1>4. Draft(request[q].pin) \in CampaignRow
  BY DEF Draft, CampaignRow, Statuses
<1>5. /\ campaign' \in [Campaigns -> CampaignRow \cup {NoRow, Gone}]
      /\ IsCampaign(c)'
      /\ \A d \in Campaigns : IsCampaign(d) => IsCampaign(d)'
  BY <1>2, <1>4, RowAssumption DEF Tables, RowTypes, IsCampaign
<1>6. \A r, s \in slots : row[r] = row[s] => r = s
  <2> HIDE DEF shape
  <2> QED
    BY <1>2, CopyIsOneToOne
<1>7. \A s \in slots : row[s] \in StepRow /\ row[s] \in shape
  BY <1>2
<1>8. \A s \in slots :
        /\ step'[s] \in StepRow /\ step'[s].of = c /\ step'[s].tpl = row[s].tpl
        /\ step'[s].order = row[s].order
  <2> SUFFICES ASSUME NEW s \in slots
               PROVE  /\ step'[s] \in StepRow /\ step'[s].of = c
                      /\ step'[s].tpl = row[s].tpl /\ step'[s].order = row[s].order
    OBVIOUS
  <2>1. step'[s] = [row[s] EXCEPT !.of = c]
    BY <1>2, Zenon
  <2>2. row[s] \in StepRow
    BY <1>7
  <2>3. \A r \in StepRow : LET m == [r EXCEPT !.of = c] IN
          m \in StepRow /\ m.of = c /\ m.tpl = r.tpl /\ m.order = r.order
    BY DEF StepRow
  <2> QED
    BY <2>1, <2>2, <2>3
<1>9. \A s \in Steps \ slots : step'[s] = step[s]
  BY <1>2
<1>10. step' \in [Steps -> StepRow \cup {NoRow}]
  <2>1. \A s \in Steps : step'[s] \in StepRow \cup {NoRow}
    BY <1>8, <1>9 DEF Tables, RowTypes
  <2>2. step' = [s \in Steps |-> step'[s]]
    BY <1>2, Zenon
  <2> QED
    BY <2>1, <2>2
<1>11. \A s \in Steps : step[s] # NoRow =>
         /\ s \notin slots /\ step'[s] = step[s] /\ step[s].of # c
         /\ step[s].of \in Campaigns
  BY <1>2, <1>9 DEF Tables, RowKeys, RowTypes, StepRow, IsCampaign
<1>12. \A s \in Steps : step'[s] # NoRow => IsCampaign(step[s].of)' /\ IsTemplate(step'[s].tpl)
  <2> SUFFICES ASSUME NEW s \in Steps, step'[s] # NoRow
               PROVE  IsCampaign(step[s].of)' /\ IsTemplate(step'[s].tpl)
    OBVIOUS
  <2>1. CASE s \in slots
    BY <1>2, <1>5, <1>7, <1>8, <2>1
  <2>2. CASE s \notin slots
    BY <1>5, <1>9, <1>11, <2>2 DEF Tables, RowKeys
  <2> QED
    BY <2>1, <2>2
<1>13. \A r, o \in Steps :
         /\ step[r] # NoRow /\ step[o] # NoRow
         /\ step[r].of = step[o].of /\ step[r].order = step[o].order
         => r = o
  BY PlacesMeans DEF Tables
<1>14. ASSUME NEW r \in Steps, NEW o \in Steps,
              step'[r] # NoRow /\ step'[o] # NoRow,
              step'[r].of = step'[o].of /\ step'[r].order = step'[o].order
       PROVE  r = o
  <2>1. CASE r \in slots /\ o \in slots
    <3>1. row[r].order = row[o].order /\ row[r] \in shape /\ row[o] \in shape
      BY <1>7, <1>8, <1>14, <2>1
    <3> QED
      BY <1>6, <2>1, <3>1
  <2>2. CASE r \notin slots /\ o \notin slots
    BY <1>9, <1>13, <1>14, <2>2
  <2>3. CASE r \in slots /\ o \notin slots
    BY <1>8, <1>9, <1>11, <1>14, <2>3
  <2>4. CASE r \notin slots /\ o \in slots
    BY <1>8, <1>9, <1>11, <1>14, <2>4
  <2> QED
    BY <2>1, <2>2, <2>3, <2>4
<1>15. \A s \in Steps : step[s] # NoRow => step'[s] # NoRow
  BY <1>11
<1> QED
  BY <1>3, <1>5, <1>10, <1>12, <1>14, <1>15, StepTables

\* Any write of words that keeps their accounts, and the index unique.
LEMMA TriggerTables ==
  ASSUME Tables, UNCHANGED <<libraryVars, campaign, step, enrolled, job>>,
         trigger' \in [Triggers -> TriggerRow \cup {NoRow}],
         Index'
  PROVE  Tables'
<1>1. RowTypes'
  BY DEF Tables, RowTypes
<1>2. Places' /\ RowKeys'
  BY DEF Tables, Places, StepsOf, RowKeys, IsCampaign, IsTemplate, libraryVars
<1> QED
  BY <1>1, <1>2 DEF Tables

\* A word that is written active was free.
LEMMA WordWritten ==
  ASSUME Index, NEW k \in Triggers, NEW row \in TriggerRow,
         trigger \in [Triggers -> TriggerRow \cup {NoRow}],
         trigger' = [trigger EXCEPT ![k] = row],
         row.account = AccountOf[row.of],
         row.active => ~Taken(k, row.account, row.word)
  PROVE  /\ trigger' \in [Triggers -> TriggerRow \cup {NoRow}]
         /\ Index'
<1>1. /\ trigger' \in [Triggers -> TriggerRow \cup {NoRow}]
      /\ trigger'[k] = row
      /\ \A l \in Triggers \ {k} : trigger'[l] = trigger[l]
  OBVIOUS
<1>2. \A l \in Triggers : trigger'[l] # NoRow => trigger'[l].account = AccountOf[trigger'[l].of]
  BY <1>1 DEF Index
<1>3. row.active => \A l \in Triggers \ {k} :
        ~(/\ trigger[l] # NoRow /\ trigger[l].active
          /\ trigger[l].account = row.account /\ trigger[l].word = row.word)
  BY DEF Taken
<1>4. ASSUME NEW i \in Triggers, NEW l \in Triggers,
             trigger'[i] # NoRow /\ trigger'[l] # NoRow,
             trigger'[i].active /\ trigger'[l].active,
             trigger'[i].account = trigger'[l].account /\ trigger'[i].word = trigger'[l].word
      PROVE  i = l
  <2>1. CASE i # k /\ l # k
    <3>1. trigger'[i] = trigger[i] /\ trigger'[l] = trigger[l]
      BY <1>1, <2>1
    <3>2. /\ trigger[i] # NoRow /\ trigger[l] # NoRow
          /\ trigger[i].active /\ trigger[l].active
          /\ trigger[i].account = trigger[l].account /\ trigger[i].word = trigger[l].word
      BY <1>4, <3>1
    <3> QED
      BY <3>2 DEF Index
  <2>2. CASE i = k /\ l # k
    BY <1>1, <1>3, <1>4, <2>2, Zenon
  <2>3. CASE i # k /\ l = k
    BY <1>1, <1>3, <1>4, <2>3, Zenon
  <2> QED
    BY <2>1, <2>2, <2>3
<1>5. Index'
  BY <1>2, <1>4, Zenon DEF Index
<1> QED
  BY <1>1, <1>5

LEMMA WordTables ==
  ASSUME Tables, UNCHANGED libraryVars, AddTrigger \/ UpdateTrigger \/ DeleteTrigger
  PROVE  Tables'
<1>1. trigger \in [Triggers -> TriggerRow \cup {NoRow}] /\ Index
  BY DEF Tables, RowTypes
<1>2. CASE AddTrigger
  <2>1. PICK k \in Triggers, c \in Campaigns, w \in Words, on \in BOOLEAN :
          InsertTrigger(k, c, w, on)
    BY <1>2 DEF AddTrigger
  <2> DEFINE row == [of |-> c, account |-> AccountOf[c], word |-> w, active |-> on]
  <2>2. /\ row \in TriggerRow /\ row.of = c /\ row.account = AccountOf[c]
        /\ row.word = w /\ row.active = on
    BY AuthoringAssumption DEF TriggerRow
  <2>3. trigger' = [trigger EXCEPT ![k] = row] /\ (on => ~Taken(k, AccountOf[c], w))
    BY <2>1 DEF InsertTrigger
  <2> HIDE DEF row
  <2>4. trigger' \in [Triggers -> TriggerRow \cup {NoRow}] /\ Index'
    BY <1>1, <2>2, <2>3, WordWritten
  <2> QED
    BY <1>2, <2>4, TriggerTables DEF AddTrigger
<1>3. CASE UpdateTrigger
  <2>1. PICK k \in Triggers, w \in Words, on \in BOOLEAN : SaveTrigger(k, w, on)
    BY <1>3 DEF UpdateTrigger
  <2> DEFINE row == [trigger[k] EXCEPT !.word = w, !.active = on]
  <2>2. trigger[k] \in TriggerRow /\ trigger[k] # NoRow
    BY <1>1, <2>1 DEF SaveTrigger
  <2>3. /\ row \in TriggerRow /\ row.of = trigger[k].of /\ row.account = trigger[k].account
        /\ row.word = w /\ row.active = on
    BY <2>2 DEF TriggerRow
  <2>4. trigger' = [trigger EXCEPT ![k] = row] /\ (on => ~Taken(k, trigger[k].account, w))
    BY <2>1 DEF SaveTrigger
  <2>5. trigger[k].account = AccountOf[trigger[k].of]
    BY <1>1, <2>2 DEF Index
  <2> HIDE DEF row
  <2>6. trigger' \in [Triggers -> TriggerRow \cup {NoRow}] /\ Index'
    BY <1>1, <2>3, <2>4, <2>5, WordWritten
  <2> QED
    BY <1>3, <2>6, TriggerTables DEF UpdateTrigger
<1>4. CASE DeleteTrigger
  <2>1. PICK k \in Triggers : trigger' = [trigger EXCEPT ![k] = NoRow]
    BY <1>4 DEF DeleteTrigger
  <2>2. \A l \in Triggers : trigger'[l] # NoRow => trigger'[l] = trigger[l]
    BY <1>1, <2>1
  <2>3. trigger' \in [Triggers -> TriggerRow \cup {NoRow}]
    BY <1>1, <2>1
  <2>4. Index'
    BY <1>1, <2>2 DEF Index
  <2> QED
    BY <1>4, <2>3, <2>4, TriggerTables DEF DeleteTrigger
<1> QED
  BY <1>2, <1>3, <1>4

\* Any write of jobs that leaves each to its step.
LEMMA JobTables ==
  ASSUME Tables, UNCHANGED <<libraryVars, campaign, step, trigger>>,
         enrolled' \subseteq Campaigns,
         job' \in [Steps -> JobRow \cup {NoRow}],
         \A s \in Steps : job'[s] # NoRow => step[s] # NoRow
  PROVE  Tables'
<1>1. RowTypes'
  BY DEF Tables, RowTypes
<1>2. Places' /\ RowKeys' /\ Index'
  BY DEF Tables, Places, StepsOf, RowKeys, Index, IsCampaign, IsTemplate, libraryVars
<1> QED
  BY <1>1, <1>2 DEF Tables

LEMMA QueueTables ==
  ASSUME TypeOK, Tables, UNCHANGED libraryVars, Enrol \/ Reconcile \/ Send
  PROVE  Tables'
<1>1. ASSUME NEW c \in Campaigns, Plan(c)
      PROVE  /\ job' \in [Steps -> JobRow \cup {NoRow}]
             /\ \A s \in Steps : job'[s] # NoRow => step[s] # NoRow
  <2>1. job' = [s \in Steps |-> IF s \in StepsOf(c) THEN Reconciled(c, s) ELSE job[s]]
    BY <1>1 DEF Plan
  <2>2. ASSUME NEW s \in StepsOf(c) PROVE Reconciled(c, s) \in JobRow
    <3>1. s \in Steps /\ step[s] # NoRow /\ step[s] \in StepRow
      BY DEF StepsOf, Tables, RowTypes
    <3>2. IsTemplate(step[s].tpl) /\ step[s].tpl \in Templates
      BY <3>1 DEF Tables, RowKeys, StepRow
    <3>3. tpl[step[s].tpl].version \in Versions
      BY <3>2 DEF TypeOK, LibraryTypeOK, IsTemplate, TemplateRow
    <3>4. job[s] # NoRow => job[s] \in JobRow
      BY <3>1 DEF Tables, RowTypes
    <3>5. \A j \in JobRow : \A st \in {"PENDING", "SKIP"} : [j EXCEPT !.st = st] \in JobRow
      BY DEF JobRow
    <3>6. \A st \in {"PENDING", "SKIP"} : Queued(s, st) \in JobRow
      BY <3>3 DEF Queued, JobRow
    <3> DEFINE want == step[s].enabled /\ campaign[c].status \notin Closed
    <3>7. \/ job[s] = NoRow /\ Reconciled(c, s) = Queued(s, IF want THEN "PENDING" ELSE "SKIP")
          \/ job[s] # NoRow /\ Reconciled(c, s) = [job[s] EXCEPT !.st = "PENDING"]
          \/ job[s] # NoRow /\ Reconciled(c, s) = [job[s] EXCEPT !.st = "SKIP"]
          \/ job[s] # NoRow /\ Reconciled(c, s) = job[s]
      BY <3>4 DEF Reconciled
    <3> HIDE DEF want
    <3> QED
      BY <3>4, <3>5, <3>6, <3>7
  <2>3. \A s \in Steps : job'[s] \in JobRow \cup {NoRow} /\ (job'[s] # NoRow => step[s] # NoRow)
    BY <2>1, <2>2 DEF Tables, RowTypes, RowKeys, StepsOf
  <2>4. job' = [s \in Steps |-> job'[s]]
    BY <2>1, Zenon
  <2> QED
    BY <2>3, <2>4
<1>2. CASE Enrol
  <2>1. PICK a \in Accounts, w \in Words : \E c \in Accepting(a, w) \ enrolled :
          enrolled' = enrolled \cup {c} /\ Plan(c)
    BY <1>2 DEF Enrol
  <2>2. PICK c \in Campaigns : enrolled' = enrolled \cup {c} /\ Plan(c)
    BY <2>1 DEF Accepting
  <2>3. enrolled' \subseteq Campaigns
    BY <2>2 DEF Tables, RowTypes
  <2> QED
    BY <1>1, <1>2, <2>2, <2>3, JobTables DEF Enrol
<1>3. CASE Reconcile
  <2>1. PICK c \in Campaigns : Plan(c)
    BY <1>3 DEF Reconcile, Tables, RowTypes
  <2>2. enrolled' \subseteq Campaigns
    BY <1>3 DEF Reconcile, Tables, RowTypes
  <2> QED
    BY <1>1, <1>3, <2>1, <2>2, JobTables DEF Reconcile
<1>4. CASE Send
  <2>1. PICK s \in Steps :
          /\ job[s] # NoRow
          /\ job' = [job EXCEPT ![s].st =
               IF ~step[s].enabled \/ campaign[step[s].of].status \in Closed THEN "CANCELLED"
               ELSE IF Deliverable(s) THEN "SENT" ELSE "FAILED"]
    BY <1>4 DEF Send
  <2>2. \E st \in {"CANCELLED", "SENT", "FAILED"} :
          job' = [job EXCEPT ![s] = [job[s] EXCEPT !.st = st]]
    BY <2>1
  <2>3. \A st \in {"CANCELLED", "SENT", "FAILED"} : [job[s] EXCEPT !.st = st] \in JobRow
    BY <2>1 DEF Tables, RowTypes, JobRow
  <2>4. /\ job' \in [Steps -> JobRow \cup {NoRow}]
        /\ \A r \in Steps : job'[r] # NoRow => job[r] # NoRow
    BY <2>1, <2>2, <2>3 DEF Tables, RowTypes
  <2>5. \A r \in Steps : job'[r] # NoRow => step[r] # NoRow
    BY <2>4 DEF Tables, RowKeys
  <2>6. enrolled' \subseteq Campaigns
    BY <1>4 DEF Send, Tables, RowTypes
  <2> QED
    BY <1>4, <2>4, <2>5, <2>6, JobTables DEF Send
<1> QED
  BY <1>2, <1>3, <1>4

\* The library never takes a template from a step.
LEMMA LibraryTables ==
  ASSUME TypeOK, Tables, LibraryStep, UNCHANGED campaignVars
  PROVE  Tables'
<1>1. \A t \in Templates : UsersOf(t) # {} /\ IsTemplate(t) => IsTemplate(t)'
  <2> SUFFICES ASSUME NEW t \in Templates, UsersOf(t) # {}, IsTemplate(t) PROVE IsTemplate(t)'
    OBVIOUS
  <2>1. CASE UNCHANGED tpl
    BY <2>1 DEF IsTemplate
  <2>2. ASSUME NEW u \in Templates, NEW row \in TemplateRow, tpl' = [tpl EXCEPT ![u] = row]
        PROVE  IsTemplate(t)'
    BY <2>2, TemplateRowAssumption DEF IsTemplate, TypeOK, LibraryTypeOK
  <2>3. ASSUME NEW m \in Media, SaveFile(m) \/ RemoveFile(m) \/ InsertMedia(m) \/ DeleteMedia(m)
        PROVE  UNCHANGED tpl
    BY <2>3 DEF SaveFile, RemoveFile, InsertMedia, DeleteMedia
  <2>4. ASSUME NEW u \in Templates, NEW x \in Content, CreateTemplate(u, x) \/ UpdateTemplate(u, x)
        PROVE  tpl'[u] \in TemplateRow /\ \A o \in Templates \ {u} : tpl'[o] = tpl[o]
    <3>1. CASE CreateTemplate(u, x)
      <4>1. tpl' = [tpl EXCEPT ![u] = [content |-> x, version |-> 1, archived |-> FALSE]]
        BY <3>1 DEF CreateTemplate
      <4>2. [content |-> x, version |-> 1, archived |-> FALSE] \in TemplateRow
        BY VersionFacts DEF TemplateRow
      <4> QED
        BY <4>1, <4>2 DEF TypeOK, LibraryTypeOK
    <3>2. CASE UpdateTemplate(u, x)
      <4>2. tpl' = [tpl EXCEPT ![u] =
              [tpl[u] EXCEPT !.content = x, !.version = tpl[u].version + 1]]
        BY <3>2 DEF UpdateTemplate
      <4>3. tpl[u] \in TemplateRow
        BY <3>2 DEF UpdateTemplate, IsTemplate, TypeOK, LibraryTypeOK
      <4>4. tpl[u].version + 1 \in Versions
        BY <3>2, <4>3, LibraryAssumption DEF UpdateTemplate, TemplateRow, Versions
      <4>5. [tpl[u] EXCEPT !.content = x, !.version = tpl[u].version + 1] \in TemplateRow
        BY <4>3, <4>4 DEF TemplateRow
      <4> QED
        BY <4>2, <4>5 DEF TypeOK, LibraryTypeOK
    <3> QED
      BY <2>4, <3>1, <3>2
  <2>5. ASSUME NEW u \in Templates, ArchiveTemplate(u) PROVE IsTemplate(t)'
    <3>1. tpl[u] \in TemplateRow /\ tpl' = [tpl EXCEPT ![u] = [tpl[u] EXCEPT !.archived = TRUE]]
      BY <2>5 DEF ArchiveTemplate, IsTemplate, TypeOK, LibraryTypeOK
    <3>2. [tpl[u] EXCEPT !.archived = TRUE] \in TemplateRow
      BY <3>1 DEF TemplateRow
    <3> QED
      BY <2>2, <3>1, <3>2
  <2>6. ASSUME NEW u \in Templates, DropTemplate(u, UsersOf(u)) PROVE IsTemplate(t)'
    <3>1. u # t /\ tpl' = [tpl EXCEPT ![u] = Gone]
      BY <2>6 DEF DropTemplate
    <3> QED
      BY <3>1 DEF IsTemplate, TypeOK, LibraryTypeOK
  <2>7. ASSUME NEW u \in Templates, NEW x \in Content, CreateTemplate(u, x) \/ UpdateTemplate(u, x)
        PROVE  IsTemplate(t)'
    BY <2>4, <2>7, TemplateRowAssumption DEF IsTemplate
  <2> QED
    BY <2>1, <2>3, <2>5, <2>6, <2>7 DEF LibraryStep, libraryVars
<1>2. \A s \in Steps : step[s] # NoRow =>
        step[s].tpl \in Templates /\ s \in UsersOf(step[s].tpl)
  BY DEF Tables, RowTypes, StepRow, UsersOf
<1>3. \A s \in Steps : step[s] # NoRow => IsTemplate(step[s].tpl)'
  <2>1. \A s \in Steps : step[s] # NoRow => (tpl'[step[s].tpl] \notin {NoRow, Gone})
    BY <1>1, <1>2 DEF Tables, RowKeys, IsTemplate
  <2> QED
    BY <2>1 DEF IsTemplate, campaignVars
<1>4. RowKeys'
  BY <1>3 DEF Tables, RowKeys, IsCampaign, campaignVars
<1>5. RowTypes' /\ Places' /\ Index'
  BY DEF Tables, RowTypes, Places, StepsOf, Index, campaignVars
<1> QED
  BY <1>4, <1>5 DEF Tables

-----------------------------------------------------------------------------
(***************************************************************************)
(* The invariant.                                                           *)
(***************************************************************************)

LEMMA TablesStep == AuthoringInv /\ [Next]_vars => Tables'
<1> SUFFICES ASSUME AuthoringInv, [Next]_vars PROVE Tables'
  OBVIOUS
<1>1. TypeOK /\ Tables
  BY TablesOf DEF AuthoringInv
<1>2. LibraryStep
  BY <1>1, NextLibrary
<1>3. CASE UNCHANGED campaignVars
  BY <1>1, <1>2, <1>3, LibraryTables
<1>4. ASSUME CampaignAction, UNCHANGED libraryVars PROVE Tables'
  <2>1. ASSUME NEW q \in Requests, Activate(q) PROVE Tables'
    <3>1. request[q].of \in Campaigns
      BY <1>1, <2>1, RequestKinds DEF TypeOK, Activate
    <3> QED
      BY <1>1, <1>4, <2>1, <3>1, CampaignTables
  <2>2. ASSUME NEW q \in Requests, Copy(q) PROVE Tables'
    <3>1. request[q].at = "copy"
      BY <2>2 DEF Copy
    <3>2. request[q].pin \in BOOLEAN /\ request[q].shape \subseteq StepRow
      BY <1>1, <3>1, RequestKinds DEF TypeOK
    <3>3. \A r, s \in request[q].shape : r.order = s.order => r = s
      BY <3>1 DEF AuthoringInv, Keys
    <3> QED
      BY <1>1, <1>4, <2>2, <3>2, <3>3, CopyTables
  <2>3. CreateCampaign \/ UpdateCampaign \/ SetStatus => Tables'
    BY <1>1, <1>4, CampaignTables
  <2>4. Archive => Tables'
    BY <1>1, <1>4, ArchiveTables
  <2>5. DeleteCampaign => Tables'
    BY <1>1, <1>4, DeleteCampaignTables
  <2>6. AddStep => Tables'
    BY <1>1, <1>4, AddStepTables
  <2>7. UpdateStep => Tables'
    BY <1>1, <1>4, UpdateStepTables
  <2>8. ReorderSteps => Tables'
    BY <1>1, <1>4, ReorderTables
  <2>9. AddTrigger \/ UpdateTrigger \/ DeleteTrigger => Tables'
    BY <1>1, <1>4, WordTables
  <2>10. Enrol \/ Reconcile \/ Send => Tables'
    BY <1>1, <1>4, QueueTables
  <2> QED
    BY <1>4, <2>1, <2>2, <2>3, <2>4, <2>5, <2>6, <2>7, <2>8, <2>9, <2>10, Zenon
    DEF CampaignAction
<1>5. CASE Next
  <2>1. ASSUME NEW q \in Requests, UNCHANGED <<libraryVars, campaignVars>>
        PROVE  UNCHANGED campaignVars
    BY <2>1
  <2> QED
    BY <1>3, <1>4, <1>5, <2>1, NextCases, Zenon
<1>6. CASE UNCHANGED vars
  BY <1>3, <1>6 DEF vars
<1> QED
  BY <1>5, <1>6

\* Only a campaign whose places are distinct is read for a copy.
LEMMA CopiesStep ==
  ASSUME AuthoringInv, [Next]_vars, NEW q \in Requests, request'[q].at = "copy"
  PROVE  \A r, s \in request'[q].shape : r.order = s.order => r = s
<1>1. CASE request'[q] = request[q]
  BY <1>1 DEF AuthoringInv, Keys
<1>2. ASSUME NEW p \in Requests, ReadForCopy(p), request'[q] # request[q]
      PROVE  \A r, s \in request'[q].shape : r.order = s.order => r = s
  <2>1. PICK c \in Campaigns :
          request' = [request EXCEPT ![p] =
            [at |-> "copy", of |-> c, pin |-> campaign[c].pin,
             shape |-> {step[s] : s \in StepsOf(c)}]]
    BY <1>2 DEF ReadForCopy, Opens
  <2>2. request'[q].shape = {step[s] : s \in StepsOf(c)}
    BY <1>2, <2>1 DEF AuthoringInv, TypeOK
  <2>3. \A r, s \in StepsOf(c) : step[r].order = step[s].order => r = s
    BY DEF AuthoringInv, TypeOK
  <2> QED
    BY <2>2, <2>3
<1>3. \/ request'[q] = request[q]
      \/ \E p \in Requests : ReadForCopy(p)
  <2>1. request \in [Requests -> Busy \cup {Idle}]
    BY DEF AuthoringInv, TypeOK
  <2>2. ASSUME NEW p \in Requests, NEW b, b.at # "copy", request' = [request EXCEPT ![p] = b]
        PROVE  request'[q] = request[q]
    BY <2>1, <2>2
  <2>3. ASSUME NEW p \in Requests, LibraryAction(p) PROVE request'[q] = request[q]
    <3>1. \E b : b.at # "copy" /\ request' = [request EXCEPT ![p] = b]
      <4> USE DEF Opens, Goes, Ends, Idle
      <4>1. CASE Upload(p) \/ RecordUpload(p) \/ RefuseUpload(p) \/ ConvertVoice(p)
        BY <4>1 DEF Upload, RecordUpload, RefuseUpload, ConvertVoice
      <4>2. CASE DeleteMediaRow(p) \/ DeleteMediaFile(p) \/ SaveTemplate(p) \/ DeleteTemplate(p)
        BY <4>2 DEF DeleteMediaRow, DeleteMediaFile, SaveTemplate, DeleteTemplate
      <4> QED
        BY <2>3, <4>1, <4>2 DEF LibraryAction
    <3> QED
      BY <2>2, <3>1
  <2>4. ASSUME NEW p \in Requests, ReadAction(p), ~ReadForCopy(p)
        PROVE  request'[q] = request[q]
    <3>1. \E b : b.at # "copy" /\ request' = [request EXCEPT ![p] = b]
      BY <2>4 DEF ReadAction, AskDeleteMedia, ValidateTemplate, CountUses, CheckReadiness,
         Abandon, Opens, Ends, Idle
    <3> QED
      BY <2>2, <3>1
  <2>5. ASSUME NEW p \in Requests, Activate(p) \/ Copy(p) PROVE request'[q] = request[q]
    <3>1. Idle.at # "copy" /\ request' = [request EXCEPT ![p] = Idle]
      BY <2>5 DEF Activate, Copy, Ends, Idle
    <3> QED
      BY <2>2, <3>1
  <2>6. ASSUME \/ CreateCampaign \/ UpdateCampaign \/ SetStatus \/ Archive \/ DeleteCampaign
               \/ AddStep \/ UpdateStep \/ ReorderSteps
               \/ AddTrigger \/ UpdateTrigger \/ DeleteTrigger
               \/ Enrol \/ Reconcile \/ Send
        PROVE  request'[q] = request[q]
    BY <2>6 DEF CreateCampaign, UpdateCampaign, SetStatus, Archive, DeleteCampaign,
       AddStep, UpdateStep, ReorderSteps, AddTrigger, UpdateTrigger, DeleteTrigger,
       Enrol, Reconcile, Send, AtOnce
  <2>7. CampaignAction => request'[q] = request[q]
    BY <2>5, <2>6, Zenon DEF CampaignAction
  <2>8. CASE Next
    BY <2>3, <2>4, <2>7, <2>8, NextCases, Zenon
  <2> QED
    BY <2>8 DEF vars
<1> QED
  BY <1>1, <1>2, <1>3

LEMMA AuthoringStep == AuthoringInv /\ [Next]_vars => AuthoringInv'
<1> SUFFICES ASSUME AuthoringInv, [Next]_vars PROVE AuthoringInv'
  OBVIOUS
<1>1. Tables'
  BY TablesStep
<1>2. LibraryTypeOK' /\ History'
  BY NextLibrary, LibraryTypes, LibraryHistory DEF AuthoringInv, TypeOK
<1>3. request' \in [Requests -> Busy \cup {Idle}] /\ edits' \in 0..MaxEdits
  BY RequestTypes, EditTypes DEF AuthoringInv
<1>4. Files'
  BY FilesStep DEF AuthoringInv
<1>5. TypeOK'
  BY <1>1, <1>2, <1>3 DEF Tables, RowTypes, Places, TypeOK
<1>6. Keys'
  BY <1>1, CopiesStep DEF Tables, RowKeys, Keys
<1> QED
  BY <1>1, <1>2, <1>4, <1>5, <1>6 DEF AuthoringInv, Tables

LEMMA AuthoringStart == Init => AuthoringInv
<1> SUFFICES ASSUME Init PROVE AuthoringInv
  OBVIOUS
<1> DEFINE e == Established
<1>1. /\ e.media \subseteq Media
      /\ e.tpl \in [Templates -> TemplateRow \cup {NoRow}]
      /\ e.campaign \in [Campaigns -> CampaignRow \cup {NoRow}]
      /\ e.step \in [Steps -> StepRow \cup {NoRow}]
      /\ e.trigger \in [Triggers -> TriggerRow \cup {NoRow}]
  BY EstablishedAssumption
<1>2. \A t \in Templates : e.tpl[t] # NoRow =>
        e.tpl[t].version = 1 /\ e.tpl[t].content \in e.media \cup {Text}
  BY EstablishedAssumption
<1>3. /\ file = e.media /\ media = e.media /\ spent = e.media /\ tpl = e.tpl
      /\ campaign = e.campaign /\ step = e.step /\ trigger = e.trigger
      /\ enrolled = {} /\ job = [s \in Steps |-> NoRow]
      /\ request = [q \in Requests |-> Idle] /\ edits = 0
      /\ revision = [t \in Templates |-> [n \in Versions |->
           IF e.tpl[t] # NoRow /\ n = 1 THEN e.tpl[t].content ELSE NoRow]]
  BY DEF Init
<1>4. \A t \in Templates : tpl[t] # NoRow => tpl[t] \in TemplateRow /\ tpl[t].content \in Content
  BY <1>1, <1>3 DEF TemplateRow
<1>5. LibraryTypeOK
  BY <1>1, <1>3, <1>4 DEF LibraryTypeOK
<1>6. History
  <2>1. \A t \in Templates : IsTemplate(t) =>
          /\ tpl[t] \in TemplateRow /\ tpl[t].version = 1 /\ Exists(tpl[t].content)
          /\ \A n \in Versions : revision[t][n] = IF n = 1 THEN tpl[t].content ELSE NoRow
    BY <1>2, <1>3, <1>4 DEF IsTemplate, Exists
  <2>2. \A t \in Templates : tpl[t] = NoRow => revision[t] = NoRevisions
    BY <1>3 DEF NoRevisions
  <2>3. NoRow \notin Media \cup {Text}
    BY LibraryAssumption
  <2>4. \A t \in Templates, n \in Versions :
          revision[t][n] \in Media => revision[t][n] \in media
    <3> SUFFICES ASSUME NEW t \in Templates, NEW n \in Versions, revision[t][n] \in Media
                 PROVE  revision[t][n] \in media
      OBVIOUS
    <3>1. e.tpl[t] # NoRow /\ revision[t][n] = e.tpl[t].content
      BY <1>3, <2>3
    <3> QED
      BY <1>2, <1>3, <3>1, LibraryAssumption
  <2>5. HistoryEndsLive
    <3> SUFFICES ASSUME NEW t \in Templates, IsTemplate(t)
                 PROVE  /\ revision[t][tpl[t].version] = tpl[t].content
                        /\ \A n \in Versions : revision[t][n] # NoRow <=> n <= tpl[t].version
      BY DEF HistoryEndsLive
    <3>1. tpl[t].version = 1 /\ tpl[t].content # NoRow
      BY <1>4, <2>1, <2>3 DEF IsTemplate, Content
    <3>2. \A n \in Versions : n <= 1 <=> n = 1
      BY VersionFacts DEF Versions
    <3> QED
      BY <2>1, <3>1, <3>2, VersionFacts
  <2> QED
    BY <2>1, <2>2, <2>4, <2>5 DEF History
<1>7. \A r, s \in Steps :
        /\ e.step[r] # NoRow /\ e.step[s] # NoRow
        /\ e.step[r].of = e.step[s].of /\ e.step[r].order = e.step[s].order
        => r = s
  BY EstablishedAssumption
<1>8. TypeOK
  <2>1. \A c \in Campaigns : \A r, s \in StepsOf(c) : step[r].order = step[s].order => r = s
    BY <1>3, <1>7 DEF StepsOf
  <2>2. edits \in 0..MaxEdits
    BY <1>3, AuthoringAssumption
  <2> QED
    BY <1>1, <1>3, <1>5, <2>1, <2>2 DEF TypeOK
<1>9. \A q \in Requests : request[q].at = "idle"
  BY <1>3 DEF Idle
<1>10. Files
  BY <1>3, <1>9 DEF Files
<1>11. Keys
  <2>1. \A s \in Steps : step[s] # NoRow => step[s] \in StepRow
    BY <1>1, <1>3
  <2>2. \A s \in Steps : e.step[s] # NoRow =>
          e.campaign[e.step[s].of] # NoRow /\ e.tpl[e.step[s].tpl] # NoRow
    BY EstablishedAssumption
  <2>3. \A s \in Steps : step[s] # NoRow => IsCampaign(step[s].of) /\ IsTemplate(step[s].tpl)
    <3> SUFFICES ASSUME NEW s \in Steps, step[s] # NoRow
                 PROVE  IsCampaign(step[s].of) /\ IsTemplate(step[s].tpl)
      OBVIOUS
    <3>1. step[s].of \in Campaigns /\ step[s].tpl \in Templates
      BY <2>1 DEF StepRow
    <3>2. campaign[step[s].of] \in CampaignRow /\ tpl[step[s].tpl] \in TemplateRow
      BY <1>1, <1>3, <2>2, <3>1
    <3> QED
      BY <3>2, RowAssumption, TemplateRowAssumption DEF IsCampaign, IsTemplate
  <2> QED
    BY <1>3, <1>9, <2>3 DEF Keys
<1>12. Index
  <2>1. /\ \A k \in Triggers : e.trigger[k] # NoRow =>
             e.trigger[k].account = AccountOf[e.trigger[k].of]
        /\ \A k, l \in Triggers :
             /\ e.trigger[k] # NoRow /\ e.trigger[l] # NoRow
             /\ e.trigger[k].active /\ e.trigger[l].active
             /\ e.trigger[k].account = e.trigger[l].account
             /\ e.trigger[k].word = e.trigger[l].word
             => k = l
    BY EstablishedAssumption
  <2> QED
    BY <1>3, <2>1 DEF Index
<1> QED
  BY <1>6, <1>8, <1>10, <1>11, <1>12 DEF AuthoringInv

LEMMA AuthoringInvariant == Spec => []AuthoringInv
BY AuthoringStart, AuthoringStep, PTL DEF Spec

-----------------------------------------------------------------------------
(***************************************************************************)
(* What follows.                                                            *)
(***************************************************************************)

\* No request, however it is interleaved with others or cut off, leaves a table
\* with a row that is none, or two steps of a campaign in one place.
THEOREM AuthoringTypes == Spec => []TypeOK
<1>1. AuthoringInv => TypeOK
  BY DEF AuthoringInv
<1> QED
  BY <1>1, AuthoringInvariant, PTL

\* A file under a template has its row and is on disk, while uploads and deletions
\* run, and after any of them was cut off between its two writes.
THEOREM TemplatesStaySendable == Spec => []TemplatesSendable
<1>1. AuthoringInv => TemplatesSendable
  BY DEF AuthoringInv, Files, History, TemplatesSendable, Exists, Sendable
<1> QED
  BY <1>1, AuthoringInvariant, PTL

\* Saves at the same time each add their revision, and the last is the live one.
THEOREM HistoryStaysComplete == Spec => []HistoryEndsLive
<1>1. AuthoringInv => HistoryEndsLive
  BY DEF AuthoringInv, History
<1> QED
  BY <1>1, AuthoringInvariant, PTL

\* What waits in the queue can be built, whatever is edited meanwhile; the one
\* exception is a pinned revision whose file was deleted.
THEOREM QueueStaysSendable == Spec => []QueueIsSendable
<1>1. AuthoringInv => QueueIsSendable
  <2> SUFFICES ASSUME AuthoringInv, NEW s \in Steps, job[s] # NoRow
               PROVE  \/ Deliverable(s)
                      \/ /\ campaign[step[s].of].pin
                         /\ revision[step[s].tpl][job[s].ver] = Lost
                         /\ job[s].ver < tpl[step[s].tpl].version
    BY DEF QueueIsSendable
  <2> DEFINE t == step[s].tpl
             n == job[s].ver
             p == campaign[step[s].of].pin
  <2>1. step[s] \in StepRow /\ IsTemplate(t) /\ job[s] \in JobRow
    BY DEF AuthoringInv, Keys, TypeOK
  <2>2. t \in Templates /\ n \in Versions
    BY <2>1 DEF StepRow, JobRow
  <2>3. tpl[t] \in TemplateRow /\ tpl[t].version \in Versions
    BY <2>1, <2>2 DEF AuthoringInv, TypeOK, LibraryTypeOK, IsTemplate, TemplateRow
  <2>4. revision[t][n] \in Content \cup {Lost, NoRow}
    BY <2>2 DEF AuthoringInv, TypeOK, LibraryTypeOK
  <2>5. Deliverable(s) <=> Sendable(IF p /\ revision[t][n] # NoRow THEN revision[t][n]
                                    ELSE tpl[t].content)
    BY DEF Deliverable, Resolve, Pinned, Live
  <2> HIDE DEF t, n, p
  <2>6. Sendable(tpl[t].content)
    BY <2>1, <2>2 DEF AuthoringInv, History, Files, Exists, Sendable
  <2>7. CASE ~p \/ revision[t][n] = NoRow
    BY <2>5, <2>6, <2>7
  <2>8. CASE p /\ revision[t][n] \in Content
    <3>1. Sendable(revision[t][n]) /\ revision[t][n] # NoRow
      BY <2>2, <2>8, LibraryAssumption DEF AuthoringInv, History, Files, Sendable, Content
    <3> QED
      BY <2>5, <2>8, <3>1
  <2>9. CASE p /\ revision[t][n] = Lost
    <3>1. Lost # NoRow /\ tpl[t].content # Lost
      BY <2>3, LibraryAssumption DEF TemplateRow, Content
    <3>2. revision[t][tpl[t].version] = tpl[t].content /\ n <= tpl[t].version
      BY <2>1, <2>2, <2>9, <3>1 DEF AuthoringInv, History, HistoryEndsLive
    <3>3. n # tpl[t].version
      BY <2>9, <3>1, <3>2
    <3>4. n < tpl[t].version
      <4> DEFINE v == tpl[t].version
      <4>1. n \in Nat /\ v \in Nat /\ n <= v /\ n # v
        BY <2>2, <2>3, <3>2, <3>3, VersionFacts
      <4> HIDE DEF v
      <4>2. n < v
        BY <4>1
      <4> QED
        BY <4>2 DEF v
    <3> QED
      BY <2>9, <3>4 DEF t, n, p
  <2> QED
    BY <2>4, <2>7, <2>8, <2>9 DEF t, n, p
<1> QED
  BY <1>1, AuthoringInvariant, PTL

\* A word leads to one campaign of its account at most.
THEOREM WordsStayUnambiguous == Spec => []WordsLeadToOne
<1>1. AuthoringInv => WordsLeadToOne
  <2> SUFFICES ASSUME AuthoringInv, NEW a \in Accounts, NEW w \in Words,
                      NEW c \in Accepting(a, w), NEW d \in Accepting(a, w)
               PROVE  c = d
    BY DEF WordsLeadToOne
  <2>1. PICK k \in Triggers :
          /\ trigger[k] # NoRow /\ trigger[k].of = c
          /\ trigger[k].active /\ trigger[k].word = w /\ AccountOf[c] = a
    BY DEF Accepting, TriggersOf
  <2>2. PICK l \in Triggers :
          /\ trigger[l] # NoRow /\ trigger[l].of = d
          /\ trigger[l].active /\ trigger[l].word = w /\ AccountOf[d] = a
    BY DEF Accepting, TriggersOf
  <2>3. trigger[k].account = a /\ trigger[l].account = a
    BY <2>1, <2>2 DEF AuthoringInv, Index
  <2>4. k = l
    BY <2>1, <2>2, <2>3 DEF AuthoringInv, Index
  <2> QED
    BY <2>1, <2>2, <2>4
<1> QED
  BY <1>1, AuthoringInvariant, PTL
=============================================================================
