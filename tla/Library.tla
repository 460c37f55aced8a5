------------------------------ MODULE Library ------------------------------
(***************************************************************************)
(* The library of messages: files on disk, their rows in media_files,       *)
(* message_templates and the history of each template in                    *)
(* message_template_versions (src/internal/media, src/internal/templates,   *)
(* src/migrations/0001_init.sql).  One operator per file operation, SQL     *)
(* statement or transaction, with what the foreign keys refuse as its       *)
(* guard; Authoring says which request runs which of them, and when.        *)
(*                                                                          *)
(* Of a message's content only its file matters here: Text stands for a     *)
(* message without one.  A file of the wrong kind is refused by Validate,   *)
(* and a kind never changes, so kinds are left out.                         *)
(***************************************************************************)
EXTENDS Naturals

CONSTANTS
  Media,       \* ids of media files; a file and its row have the same id
  Templates,   \* ids of templates; an id is never used twice
  MaxVersion,  \* bound on the revisions of one template
  Text,        \* the content of a message without a file
  Lost,        \* the content of a revision whose file was deleted (SET NULL)
  NoRow,       \* no such row yet
  Gone         \* the row was deleted

ASSUME LibraryAssumption ==
  /\ MaxVersion \in Nat \ {0}
  /\ Text \notin Media /\ Lost \notin Media \cup {Text}
  /\ NoRow \notin Media \cup {Text, Lost}

VARIABLES
  file,      \* the files on disk
  media,     \* the rows of media_files
  spent,     \* the ids that were given to a file
  tpl,       \* tpl[t]: the row of message_templates
  revision   \* revision[t][n]: the content of version n of template t

libraryVars == <<file, media, spent, tpl, revision>>

Content == Media \cup {Text}
Versions == 1..MaxVersion
TemplateRow == [content : Content, version : Versions, archived : BOOLEAN]

\* No row of message_templates is a mark of a missing one.
ASSUME TemplateRowAssumption == NoRow \notin TemplateRow /\ Gone \notin TemplateRow

LibraryTypeOK ==
  /\ file \subseteq Media
  /\ media \subseteq Media
  /\ spent \subseteq Media
  /\ tpl \in [Templates -> TemplateRow \cup {NoRow, Gone}]
  /\ revision \in [Templates -> [Versions -> Content \cup {Lost, NoRow}]]

IsTemplate(t) == tpl[t] \notin {NoRow, Gone}
NoRevisions == [n \in Versions |-> NoRow]

\* What the foreign keys and Validate ask of a content.
Exists(x) == x = Text \/ x \in media

-----------------------------------------------------------------------------
(***************************************************************************)
(* Files.                                                                   *)
(***************************************************************************)

\* Store.Save: a fresh name; a rejected upload leaves nothing behind.
SaveFile(m) ==
  /\ m \notin spent
  /\ file' = file \cup {m}
  /\ spent' = spent \cup {m}
  /\ UNCHANGED <<media, tpl, revision>>

RemoveFile(m) ==
  /\ file' = file \ {m}
  /\ UNCHANGED <<media, spent, tpl, revision>>

InsertMedia(m) ==
  /\ media' = media \cup {m}
  /\ UNCHANGED <<file, spent, tpl, revision>>

\* InUse: archived templates are not counted.
InUse(m) == \E t \in Templates :
  IsTemplate(t) /\ tpl[t].content = m /\ ~tpl[t].archived

\* Mutant: the key counts like InUse does.
HeldInUse(m) == InUse(m)
\* ON DELETE RESTRICT: templates hold their file, archived ones too.
Held(m) == \E t \in Templates : IsTemplate(t) /\ tpl[t].content = m

\* ON DELETE SET NULL: revisions do not.
DeleteMedia(m) ==
  /\ m \in media
  /\ ~Held(m)
  /\ media' = media \ {m}
  /\ revision' = [t \in Templates |-> [n \in Versions |->
       IF revision[t][n] = m THEN Lost ELSE revision[t][n]]]
  /\ UNCHANGED <<file, spent, tpl>>

-----------------------------------------------------------------------------
(***************************************************************************)
(* Templates.                                                               *)
(***************************************************************************)

\* Repository.Create: the row and its first revision.
CreateTemplate(t, x) ==
  /\ tpl[t] = NoRow
  /\ Exists(x)
  /\ tpl' = [tpl EXCEPT ![t] = [content |-> x, version |-> 1, archived |-> FALSE]]
  /\ revision' = [revision EXCEPT ![t][1] = x]
  /\ UNCHANGED <<file, media, spent>>

\* insertVersion: ON CONFLICT (template_id, version) DO NOTHING.
Recorded(t, n, x) ==
  IF revision[t][n] = NoRow THEN [revision EXCEPT ![t][n] = x] ELSE revision

\* Mutant: the row is saved under the version it has.
UpdateInPlace(t, x) ==
  /\ IsTemplate(t)
  /\ Exists(x)
  /\ tpl[t].version < MaxVersion
  /\ tpl' = [tpl EXCEPT ![t].content = x]
  /\ revision' = Recorded(t, tpl[t].version, x)
  /\ UNCHANGED <<file, media, spent>>

\* Repository.Update: version = version + 1 and its revision, in one
\* transaction.  An archived template is saved like any other.
UpdateTemplate(t, x) ==
  /\ IsTemplate(t)
  /\ Exists(x)
  /\ tpl[t].version < MaxVersion
  /\ LET n == tpl[t].version + 1 IN
     /\ tpl' = [tpl EXCEPT ![t].content = x, ![t].version = n]
     /\ revision' = Recorded(t, n, x)
  /\ UNCHANGED <<file, media, spent>>

ArchiveTemplate(t) ==
  /\ IsTemplate(t)
  /\ tpl' = [tpl EXCEPT ![t].archived = TRUE]
  /\ UNCHANGED <<file, media, spent, revision>>

\* The steps hold their template (RESTRICT), its revisions go with it (CASCADE).
DropTemplate(t, users) ==
  /\ IsTemplate(t)
  /\ users = {}
  /\ tpl' = [tpl EXCEPT ![t] = Gone]
  /\ revision' = [revision EXCEPT ![t] = NoRevisions]
  /\ UNCHANGED <<file, media, spent>>

-----------------------------------------------------------------------------
(***************************************************************************)
(* What the worker gets.                                                    *)
(***************************************************************************)

\* ResolveForSend, ResolveVersionForSend
Live(t) == tpl[t].content
Pinned(t, n) == revision[t][n]

\* Mutant: a revision that is missing is an error.
ResolveStrictly(t, n, pinned) ==
  IF ~pinned THEN Live(t) ELSE IF Pinned(t, n) # NoRow THEN Pinned(t, n) ELSE Lost

\* The revision the job recorded, where the campaign pins and there is one;
\* the live template otherwise.
Resolve(t, n, pinned) ==
  IF pinned /\ Pinned(t, n) # NoRow THEN Pinned(t, n) ELSE Live(t)

\* buildOutbound refuses a media message without a file; the upload needs it
\* on disk.
Sendable(x) == x = Text \/ x \in media \cap file
=============================================================================
