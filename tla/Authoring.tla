----------------------------- MODULE Authoring -----------------------------
(***************************************************************************)
(* How a campaign is put together: the panel's requests over media,         *)
(* templates, campaigns, steps and trigger words, and what the queue makes   *)
(* of it (src/internal/api/handlers_campaigns.go, handlers_templates.go,    *)
(* handlers_media.go, campaigns/service.go, campaigns/repository.go).       *)
(*                                                                          *)
(* Requests run concurrently.  A request that reads, decides and then       *)
(* writes is a program counter with what it read; one that is a single      *)
(* statement or transaction is one step.  Any request may be cut off        *)
(* between two steps: the process dies, the client goes away, a statement   *)
(* fails.                                                                    *)
(*                                                                          *)
(* One contact per campaign stands for all; Reconciler has the times and    *)
(* the runs, Delivery the workers, StepDeletion why no step is ever deleted *)
(* but with its campaign.                                                    *)
(***************************************************************************)
EXTENDS Library, FiniteSets, Sequences

CONSTANTS
  Campaigns, Steps, Triggers,  \* ids of rows
  Accounts,                    \* the WhatsApp accounts
  AccountOf,                   \* [Campaigns -> Accounts], fixed at creation
  Words,                       \* normalized keywords with their match mode
  MaxOrder,                    \* bound on order_index
  Requests,                    \* requests that run at once
  MaxEdits,                    \* bound on requests in a run
  Established                  \* the installation at the start

ASSUME AuthoringAssumption ==
  /\ AccountOf \in [Campaigns -> Accounts]
  /\ IsFiniteSet(Steps)  \* a table
  /\ MaxOrder \in Nat /\ MaxEdits \in Nat

VARIABLES
  campaign,  \* the rows of campaigns
  step,      \* of campaign_steps
  trigger,   \* of campaign_triggers
  enrolled,  \* the campaigns that a contact has entered
  job,       \* job[s]: the contact's row of scheduled_messages for step s
  request,   \* what each request is doing
  edits      \* requests so far

campaignVars == <<campaign, step, trigger, enrolled, job>>
vars == <<libraryVars, campaignVars, request, edits>>

Statuses == {"DRAFT", "ACTIVE", "PAUSED", "COMPLETED", "ARCHIVED"}
Closed == {"COMPLETED", "ARCHIVED"}
CampaignRow == [status : Statuses, hidden : BOOLEAN, pin : BOOLEAN]
StepRow == [of : Campaigns, tpl : Templates, enabled : BOOLEAN, order : 1..MaxOrder]
TriggerRow ==
  [of : Campaigns, account : Accounts, word : Words, active : BOOLEAN]
\* SKIP is CANCELLED with a skip reason, the one end that can be undone.
JobRow == [st : {"PENDING", "SKIP", "CANCELLED", "SENT", "FAILED"}, ver : Versions]

ASSUME RowAssumption ==
  /\ NoRow \notin CampaignRow /\ Gone \notin CampaignRow
  /\ NoRow \notin StepRow /\ NoRow \notin TriggerRow /\ NoRow \notin JobRow

\* The installation at the start is one the tables can hold: the foreign keys, the
\* place of a step in its campaign and the unique index on words.
ASSUME EstablishedAssumption ==
  LET e == Established IN
  /\ e.media \subseteq Media
  /\ e.tpl \in [Templates -> TemplateRow \cup {NoRow}]
  /\ e.campaign \in [Campaigns -> CampaignRow \cup {NoRow}]
  /\ e.step \in [Steps -> StepRow \cup {NoRow}]
  /\ e.trigger \in [Triggers -> TriggerRow \cup {NoRow}]
  /\ \A t \in Templates : e.tpl[t] # NoRow =>
       e.tpl[t].version = 1 /\ e.tpl[t].content \in e.media \cup {Text}
  /\ \A s \in Steps : e.step[s] # NoRow =>
       e.campaign[e.step[s].of] # NoRow /\ e.tpl[e.step[s].tpl] # NoRow
  /\ \A r, s \in Steps :
       /\ e.step[r] # NoRow /\ e.step[s] # NoRow
       /\ e.step[r].of = e.step[s].of /\ e.step[r].order = e.step[s].order
       => r = s
  /\ \A k \in Triggers : e.trigger[k] # NoRow =>
       /\ e.campaign[e.trigger[k].of] # NoRow
       /\ e.trigger[k].account = AccountOf[e.trigger[k].of]
  /\ \A k, l \in Triggers :
       /\ e.trigger[k] # NoRow /\ e.trigger[l] # NoRow
       /\ e.trigger[k].active /\ e.trigger[l].active
       /\ e.trigger[k].account = e.trigger[l].account /\ e.trigger[k].word = e.trigger[l].word
       => k = l

Idle == [at |-> "idle"]
Busy ==
  [at : {"insert", "delete", "unlink"}, of : Media]
    \cup [at : {"derive"}, of : {Text}]
    \cup [at : {"create"}, of : Content]
    \cup [at : {"update"}, of : Templates, content : Content]
    \cup [at : {"archive", "drop"}, of : Templates]
    \cup [at : {"activate"}, of : Campaigns]
    \cup [at : {"copy"}, of : Campaigns, pin : BOOLEAN, shape : SUBSET (StepRow)]

IsCampaign(c) == campaign[c] \notin {NoRow, Gone}
StepsOf(c) == {s \in Steps : step[s] # NoRow /\ step[s].of = c}
UsersOf(t) == {s \in Steps : step[s] # NoRow /\ step[s].tpl = t}
TriggersOf(c) == {k \in Triggers : trigger[k] # NoRow /\ trigger[k].of = c}

\* A request of its own, and the first or the last step of one that takes several.
Edit == edits < MaxEdits /\ edits' = edits + 1
Opens(q, b) == Edit /\ request[q] = Idle /\ request' = [request EXCEPT ![q] = b]
Ends(q) == request' = [request EXCEPT ![q] = Idle] /\ UNCHANGED edits
Goes(q, b) == request' = [request EXCEPT ![q] = b] /\ UNCHANGED edits
AtOnce == Edit /\ UNCHANGED request

-----------------------------------------------------------------------------
(***************************************************************************)
(* Media: Upload (with ensureVoice), SaveInbound, Delete.                   *)
(***************************************************************************)

Upload(q) ==
  /\ \E m \in Media : SaveFile(m) /\ Opens(q, [at |-> "insert", of |-> m])
  /\ UNCHANGED campaignVars

\* Repo.Create of a media row.  A voice note that is not Opus goes on with the
\* file it is converted to; the original stays, of kind VOICE.
RecordUpload(q) ==
  /\ request[q].at = "insert"
  /\ InsertMedia(request[q].of)
  /\ Ends(q) \/ Goes(q, [at |-> "derive", of |-> Text])
  /\ UNCHANGED campaignVars

\* The row is refused: the file is removed again.
RefuseUpload(q) ==
  /\ request[q].at = "insert"
  /\ RemoveFile(request[q].of)
  /\ Ends(q)
  /\ UNCHANGED campaignVars

ConvertVoice(q) ==
  /\ request[q].at = "derive"
  /\ \E m \in Media : SaveFile(m) /\ Goes(q, [at |-> "insert", of |-> m])
  /\ UNCHANGED campaignVars

\* Service.Delete counts the templates that use the file ...
AskDeleteMedia(q) ==
  /\ \E m \in media : ~InUse(m) /\ Opens(q, [at |-> "delete", of |-> m])
  /\ UNCHANGED <<libraryVars, campaignVars>>

\* ... deletes the row, if no foreign key objects, and then the file.
DeleteMediaRow(q) ==
  /\ request[q].at = "delete"
  /\ DeleteMedia(request[q].of)
  /\ Goes(q, [at |-> "unlink", of |-> request[q].of])
  /\ UNCHANGED campaignVars

DeleteMediaFile(q) ==
  /\ request[q].at = "unlink"
  /\ RemoveFile(request[q].of)
  /\ Ends(q)
  /\ UNCHANGED campaignVars

-----------------------------------------------------------------------------
(***************************************************************************)
(* Templates: Create, Update, Duplicate (Create with another's content),    *)
(* Delete.                                                                   *)
(***************************************************************************)

\* Validate reads the file outside the transaction that writes.
ValidateTemplate(q) ==
  /\ \E x \in Content :
       /\ Exists(x)
       /\ \/ Opens(q, [at |-> "create", of |-> x])
          \/ \E t \in Templates :
               IsTemplate(t) /\ Opens(q, [at |-> "update", of |-> t, content |-> x])
  /\ UNCHANGED <<libraryVars, campaignVars>>

SaveTemplate(q) ==
  /\ \/ /\ request[q].at = "create"
        /\ \E t \in Templates : CreateTemplate(t, request[q].of)
     \/ /\ request[q].at = "update"
        /\ UpdateTemplate(request[q].of, request[q].content)
  /\ Ends(q)
  /\ UNCHANGED campaignVars

\* Repository.Delete counts the steps, and archives or deletes by the count.
CountUses(q) ==
  /\ \E t \in Templates :
       /\ IsTemplate(t)
       /\ Opens(q, [at |-> IF UsersOf(t) = {} THEN "drop" ELSE "archive", of |-> t])
  /\ UNCHANGED <<libraryVars, campaignVars>>

DeleteTemplate(q) ==
  /\ \/ request[q].at = "archive" /\ ArchiveTemplate(request[q].of)
     \/ request[q].at = "drop" /\ DropTemplate(request[q].of, UsersOf(request[q].of))
  /\ Ends(q)
  /\ UNCHANGED campaignVars

-----------------------------------------------------------------------------
(***************************************************************************)
(* Campaigns.                                                               *)
(***************************************************************************)

Draft(pin) == [status |-> "DRAFT", hidden |-> FALSE, pin |-> pin]

CreateCampaign ==
  /\ \E c \in Campaigns, pin \in BOOLEAN :
       campaign[c] = NoRow /\ campaign' = [campaign EXCEPT ![c] = Draft(pin)]
  /\ AtOnce
  /\ UNCHANGED <<libraryVars, step, trigger, enrolled, job>>

\* Update: of the settings only pin_template_version matters here.  The account
\* is not among them.
SaveSettings(c, pin) == campaign' = [campaign EXCEPT ![c].pin = pin]

UpdateCampaign ==
  /\ \E c \in Campaigns, pin \in BOOLEAN : IsCampaign(c) /\ SaveSettings(c, pin)
  /\ AtOnce
  /\ UNCHANGED <<libraryVars, step, trigger, enrolled, job>>

\* Validate, as far as it looks at triggers, steps and templates.
Ready(c) ==
  /\ \E k \in TriggersOf(c) : trigger[k].active
  /\ \E s \in StepsOf(c) : step[s].enabled
  /\ \A s \in StepsOf(c) : step[s].enabled => ~tpl[step[s].tpl].archived

WriteStatus(c, st) == campaign' = [campaign EXCEPT ![c].status = st]

\* Activate looks at the campaign as it was read; archived_at is not asked for.
CheckReadiness(q) ==
  /\ \E c \in Campaigns :
       IsCampaign(c) /\ Ready(c) /\ Opens(q, [at |-> "activate", of |-> c])
  /\ UNCHANGED <<libraryVars, campaignVars>>

Activate(q) ==
  /\ request[q].at = "activate"
  /\ IsCampaign(request[q].of)
  /\ WriteStatus(request[q].of, "ACTIVE")
  /\ Ends(q)
  /\ UNCHANGED <<libraryVars, step, trigger, enrolled, job>>

SetStatus ==
  /\ \E c \in Campaigns, st \in {"DRAFT", "PAUSED", "COMPLETED"} :
       IsCampaign(c) /\ WriteStatus(c, st)
  /\ AtOnce
  /\ UNCHANGED <<libraryVars, step, trigger, enrolled, job>>

\* One transaction: the row, its triggers, its waiting jobs.
ArchiveRows(c) ==
  /\ campaign' = [campaign EXCEPT ![c].status = "ARCHIVED", ![c].hidden = TRUE]
  /\ trigger' = [k \in Triggers |->
       IF k \in TriggersOf(c) THEN [trigger[k] EXCEPT !.active = FALSE] ELSE trigger[k]]
  /\ job' = [s \in Steps |->
       IF s \in StepsOf(c) /\ job[s] # NoRow /\ job[s].st = "PENDING"
         THEN [job[s] EXCEPT !.st = "CANCELLED"] ELSE job[s]]

Archive ==
  /\ \E c \in Campaigns : IsCampaign(c) /\ ArchiveRows(c)
  /\ AtOnce
  /\ UNCHANGED <<libraryVars, step, enrolled>>

\* Everything of the campaign goes with it (CASCADE).
DropCampaign(c) ==
  /\ campaign' = [campaign EXCEPT ![c] = Gone]
  /\ step' = [s \in Steps |-> IF s \in StepsOf(c) THEN NoRow ELSE step[s]]
  /\ job' = [s \in Steps |-> IF s \in StepsOf(c) THEN NoRow ELSE job[s]]
  /\ trigger' = [k \in Triggers |-> IF k \in TriggersOf(c) THEN NoRow ELSE trigger[k]]
  /\ enrolled' = enrolled \ {c}

DeleteCampaign ==
  /\ \E c \in Campaigns : IsCampaign(c) /\ DropCampaign(c)
  /\ AtOnce
  /\ UNCHANGED libraryVars

\* Duplicate reads the campaign with its steps, then writes the copy.
ReadForCopy(q) ==
  /\ \E c \in Campaigns :
       /\ IsCampaign(c)
       /\ Opens(q, [at |-> "copy", of |-> c, pin |-> campaign[c].pin,
                    shape |-> {step[s] : s \in StepsOf(c)}])
  /\ UNCHANGED <<libraryVars, campaignVars>>

\* A draft with the steps and no triggers.  A template that has gone meanwhile
\* makes the whole copy fail.
Copy(q) ==
  /\ request[q].at = "copy"
  /\ \E c \in Campaigns, slots \in SUBSET Steps :
       LET shape == request[q].shape IN
       \E row \in [slots -> shape] :
         /\ campaign[c] = NoRow
         /\ AccountOf[c] = AccountOf[request[q].of]
         /\ \A s \in slots : step[s] = NoRow
         /\ \A r \in shape : \E s \in slots : row[s] = r
         /\ Cardinality(slots) = Cardinality(shape)
         /\ \A r \in shape : IsTemplate(r.tpl)
         /\ campaign' = [campaign EXCEPT ![c] = Draft(request[q].pin)]
         /\ step' = [s \in Steps |->
              IF s \in slots THEN [row[s] EXCEPT !.of = c] ELSE step[s]]
  /\ Ends(q)
  /\ UNCHANGED <<libraryVars, trigger, enrolled, job>>

-----------------------------------------------------------------------------
(***************************************************************************)
(* Steps and trigger words.                                                 *)
(***************************************************************************)

LastOrder(c) ==
  CHOOSE n \in 0..MaxOrder :
    /\ n = 0 \/ \E s \in StepsOf(c) : step[s].order = n
    /\ \A s \in StepsOf(c) : step[s].order <= n

InsertStep(s, c, t, on) ==
  /\ step[s] = NoRow
  /\ IsTemplate(t)
  /\ LastOrder(c) < MaxOrder
  /\ step' = [step EXCEPT ![s] =
       [of |-> c, tpl |-> t, enabled |-> on, order |-> LastOrder(c) + 1]]

AddStep ==
  /\ \E s \in Steps, c \in Campaigns, t \in Templates, on \in BOOLEAN :
       /\ IsCampaign(c)
       /\ InsertStep(s, c, t, on)
  /\ AtOnce
  /\ UNCHANGED <<libraryVars, campaign, trigger, enrolled, job>>

SaveStep(s, t, on) ==
  /\ step[s] # NoRow
  /\ IsTemplate(t)
  /\ step' = [step EXCEPT ![s].tpl = t, ![s].enabled = on]

UpdateStep ==
  /\ \E s \in Steps, t \in Templates, on \in BOOLEAN :
       SaveStep(s, t, on)
  /\ AtOnce
  /\ UNCHANGED <<libraryVars, campaign, trigger, enrolled, job>>

\* ReorderSteps: the n-th id gets order n, a repeated one its last place; the
\* list has to name steps of the campaign only, and all of them.
Lists == UNION {[1..n -> Steps] : n \in 1..MaxOrder}
Names(list) == {list[i] : i \in DOMAIN list}
PlaceIn(list, s) ==
  CHOOSE i \in DOMAIN list : list[i] = s /\ \A k \in DOMAIN list : list[k] = s => k <= i
\* Mutant: the steps left out of the list are not looked for.
CompleteOrLess(c, list) == Names(list) \subseteq StepsOf(c)
Complete(c, list) == Names(list) = StepsOf(c)

ReorderSteps ==
  /\ \E c \in Campaigns, list \in Lists :
       /\ Complete(c, list)
       /\ step' = [s \in Steps |->
            IF s \in Names(list) THEN [step[s] EXCEPT !.order = PlaceIn(list, s)]
                                 ELSE step[s]]
  /\ AtOnce
  /\ UNCHANGED <<libraryVars, campaign, trigger, enrolled, job>>

\* Mutant: a word is taken only while its campaign is running.
TakenWhileActive(k, account, word) ==
  \E o \in Triggers \ {k} :
    /\ trigger[o] # NoRow /\ trigger[o].active /\ trigger[o].account = account
    /\ trigger[o].word = word /\ campaign[trigger[o].of].status = "ACTIVE"
\* campaign_triggers_unique_active: one active word per account.
Taken(k, account, word) ==
  \E o \in Triggers \ {k} :
    trigger[o] # NoRow /\ trigger[o].active /\ trigger[o].account = account /\ trigger[o].word = word

\* The account is copied from the campaign by the statement itself.
InsertTrigger(k, c, w, on) ==
  /\ trigger[k] = NoRow
  /\ IsCampaign(c)
  /\ on => ~Taken(k, AccountOf[c], w)
  /\ trigger' = [trigger EXCEPT ![k] =
       [of |-> c, account |-> AccountOf[c], word |-> w, active |-> on]]

AddTrigger ==
  /\ \E k \in Triggers, c \in Campaigns, w \in Words, on \in BOOLEAN :
       InsertTrigger(k, c, w, on)
  /\ AtOnce
  /\ UNCHANGED <<libraryVars, campaign, step, enrolled, job>>

SaveTrigger(k, w, on) ==
  /\ trigger[k] # NoRow
  /\ on => ~Taken(k, trigger[k].account, w)
  /\ trigger' = [trigger EXCEPT ![k].word = w, ![k].active = on]

UpdateTrigger ==
  /\ \E k \in Triggers, w \in Words, on \in BOOLEAN :
       SaveTrigger(k, w, on)
  /\ AtOnce
  /\ UNCHANGED <<libraryVars, campaign, step, enrolled, job>>

DeleteTrigger ==
  /\ \E k \in Triggers :
       trigger[k] # NoRow /\ trigger' = [trigger EXCEPT ![k] = NoRow]
  /\ AtOnce
  /\ UNCHANGED <<libraryVars, campaign, step, enrolled, job>>

-----------------------------------------------------------------------------
(***************************************************************************)
(* The queue.                                                               *)
(***************************************************************************)

\* ActiveTriggers: the campaigns of an account that a word leads to.
Accepting(account, word) ==
  {c \in Campaigns :
     /\ IsCampaign(c)
     /\ campaign[c].status = "ACTIVE" /\ ~campaign[c].hidden
     /\ AccountOf[c] = account
     /\ \E k \in TriggersOf(c) : trigger[k].active /\ trigger[k].word = word}

\* Enqueue records the revision the step's template has now.
Queued(s, st) == [st |-> st, ver |-> tpl[step[s].tpl].version]

\* What the planner or a reconciliation makes of a step: a missing row is added,
\* a skip is revived with the revision it has, a job of a step switched off is
\* skipped.
Reconciled(c, s) ==
  LET want == step[s].enabled /\ campaign[c].status \notin Closed IN
  CASE job[s] = NoRow -> Queued(s, IF want THEN "PENDING" ELSE "SKIP")
    [] job[s] # NoRow /\ job[s].st = "SKIP" /\ want -> [job[s] EXCEPT !.st = "PENDING"]
    [] job[s] # NoRow /\ job[s].st = "PENDING" /\ ~want -> [job[s] EXCEPT !.st = "SKIP"]
    [] OTHER -> job[s]

Plan(c) == job' = [s \in Steps |-> IF s \in StepsOf(c) THEN Reconciled(c, s) ELSE job[s]]

Enrol ==
  /\ \E a \in Accounts, w \in Words : \E c \in Accepting(a, w) \ enrolled :
       enrolled' = enrolled \cup {c} /\ Plan(c)
  /\ UNCHANGED <<libraryVars, campaign, step, trigger, request, edits>>

\* reconcileAfterChange runs once an edit has committed and may fail; the sweep does
\* the same later.  Both are this step.
Reconcile ==
  /\ \E c \in enrolled : Plan(c)
  /\ UNCHANGED <<libraryVars, campaign, step, trigger, enrolled, request, edits>>

Deliverable(s) ==
  Sendable(Resolve(step[s].tpl, job[s].ver, campaign[step[s].of].pin))

\* The worker: shouldSkip, resolveTemplate, buildOutbound, and all goes well.
Send ==
  /\ \E s \in Steps :
       /\ job[s] # NoRow /\ job[s].st = "PENDING"
       /\ campaign[step[s].of].status \in {"ACTIVE"} \cup Closed
       /\ job' = [job EXCEPT ![s].st =
            IF ~step[s].enabled \/ campaign[step[s].of].status \in Closed THEN "CANCELLED"
            ELSE IF Deliverable(s) THEN "SENT" ELSE "FAILED"]
  /\ UNCHANGED <<libraryVars, campaign, step, trigger, enrolled, request, edits>>

\* A request ends where it is.
Abandon(q) ==
  /\ request[q] # Idle
  /\ Ends(q)
  /\ UNCHANGED <<libraryVars, campaignVars>>

-----------------------------------------------------------------------------
Init ==
  /\ file = Established.media
  /\ media = Established.media
  /\ spent = Established.media
  /\ tpl = Established.tpl
  /\ revision = [t \in Templates |-> [n \in Versions |->
       IF Established.tpl[t] # NoRow /\ n = 1 THEN Established.tpl[t].content ELSE NoRow]]
  /\ campaign = Established.campaign
  /\ step = Established.step
  /\ trigger = Established.trigger
  /\ enrolled = {}
  /\ job = [s \in Steps |-> NoRow]
  /\ request = [q \in Requests |-> Idle]
  /\ edits = 0

Next ==
  \/ \E q \in Requests :
       \/ Upload(q) \/ RecordUpload(q) \/ RefuseUpload(q) \/ ConvertVoice(q)
       \/ AskDeleteMedia(q) \/ DeleteMediaRow(q) \/ DeleteMediaFile(q)
       \/ ValidateTemplate(q) \/ SaveTemplate(q) \/ CountUses(q) \/ DeleteTemplate(q)
       \/ CheckReadiness(q) \/ Activate(q) \/ ReadForCopy(q) \/ Copy(q)
       \/ Abandon(q)
  \/ CreateCampaign \/ UpdateCampaign \/ SetStatus \/ Archive \/ DeleteCampaign
  \/ AddStep \/ UpdateStep \/ ReorderSteps
  \/ AddTrigger \/ UpdateTrigger \/ DeleteTrigger
  \/ Enrol \/ Reconcile \/ Send

Spec == Init /\ [][Next]_vars

-----------------------------------------------------------------------------
\* Types, and the place of a step in its campaign is its own.
TypeOK ==
  /\ LibraryTypeOK
  /\ campaign \in [Campaigns -> CampaignRow \cup {NoRow, Gone}]
  /\ step \in [Steps -> StepRow \cup {NoRow}]
  /\ trigger \in [Triggers -> TriggerRow \cup {NoRow}]
  /\ enrolled \subseteq Campaigns
  /\ job \in [Steps -> JobRow \cup {NoRow}]
  /\ request \in [Requests -> Busy \cup {Idle}]
  /\ edits \in 0..MaxEdits
  /\ \A c \in Campaigns : \A r, s \in StepsOf(c) :
       step[r].order = step[s].order => r = s

\* Every template, archived ones included, can be sent at any moment, whatever
\* uploads, deletions and saves are under way or were cut off: its file has a
\* row, and every row has its file on disk.
TemplatesSendable ==
  /\ media \subseteq file
  /\ \A t \in Templates : IsTemplate(t) => Sendable(tpl[t].content)

\* The history of a template is complete and ends in what is live: of two saves
\* at once neither loses its revision (templates/repository.go:213-256).
HistoryEndsLive ==
  \A t \in Templates : IsTemplate(t) =>
    /\ revision[t][tpl[t].version] = tpl[t].content
    /\ \A n \in Versions : revision[t][n] # NoRow <=> n <= tpl[t].version

\* A message waiting in the queue can be built when its turn comes.  The one
\* exception is a campaign that pins revisions, where the recorded revision is
\* no longer the live one and its file was deleted since.
QueueIsSendable ==
  \A s \in Steps : job[s] # NoRow /\ job[s].st = "PENDING" =>
    \/ Deliverable(s)
    \/ /\ campaign[step[s].of].pin
       /\ revision[step[s].tpl][job[s].ver] = Lost
       /\ job[s].ver < tpl[step[s].tpl].version

\* A word written to an account leads to one campaign at most, through archives,
\* pauses, copies and trigger edits in any order (campaigns/repository.go:402-408).
WordsLeadToOne ==
  \A a \in Accounts, w \in Words : \A c, d \in Accepting(a, w) : c = d
=============================================================================
