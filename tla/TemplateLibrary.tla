--------------------------- MODULE TemplateLibrary ---------------------------
(***************************************************************************)
(* Templates: saving a process as one from the builder, sharing it, and    *)
(* copying one into an organisation.  The rows are in PostgreSQL, where    *)
(* row level security shows an organisation its own and the published      *)
(* templates; blueprints and definition documents are in MongoDB, and no   *)
(* transaction covers them: what a request writes there stays when its     *)
(* rows are rolled back.                                                   *)
(* Sources: apps/api routes/templates.ts and process-definitions.ts,       *)
(* repositories/templates.ts, packages/core/src/templates/clone.ts,        *)
(* packages/documents templates.ts and process-definitions.ts,             *)
(* apps/web form-builder/save-as-template.tsx, templates/template-grid.tsx.*)
(***************************************************************************)
EXTENDS Integers, Sequences, FiniteSets

CONSTANTS
  Tenant,        \* organisations with somebody who may create processes
  Template,      \* rows of templates, numbered as they are used
  SystemLibrary, \* system_templates -> their blueprints, seeded, never written
  Process,       \* rows of process_definitions, likewise
  DocumentId,    \* documents of definitions in MongoDB, likewise
  Content(_),    \* what the people of a tenant may make of a process
  Desk,          \* browser tabs, each with one request in flight
  MaxWork,       \* bound: requests in all
  Absent         \* no row, no document

VARIABLES
  process,    \* process_definitions and, for each, its versions' documents
  document,   \* definition documents
  template,   \* the registry
  blueprint,  \* template id -> its document
  desk,       \* what each tab is doing
  work        \* how many requests there have been

libraryVars == <<process, document, template, blueprint, desk, work>>

(* An assignment names a user or a group of a tenant, or nobody in         *)
(* particular: the line manager, a role, a field of the form.              *)
Anonymous == [kind |-> "lineManager", of |-> Absent]

Names(strategy) == strategy.kind \in {"specificUser", "group"}

(* The groups that a shipped blueprint names belong to no organisation.    *)
Placeholder == "nobody's"

StrategyKind ==
  {"specificUser", "role", "lineManager", "lineManagerOfAssignee", "submitter", "group",
   "fieldReference"}

StrategyNaming(owners) ==
  {s \in [kind : StrategyKind, of : owners \cup {Absent}] : Names(s) \/ s.of = Absent}

(* A blueprint: the suffixes of its key (all processes here begin with one *)
(* key; 2 stands for _2 and -2 for itself) and, for each step, its         *)
(* assignment and those of its escalation.                                 *)
StepsNaming(owners) ==
  Seq([assignment : StrategyNaming(owners), escalation : Seq(StrategyNaming(owners))])

BlueprintNaming(owners) == [key : Seq(Int), steps : StepsNaming(owners)]

Blank == [key |-> <<>>, steps |-> <<>>]

(* A row of process_definitions with its versions' documents, the last of  *)
(* them a draft when open; what PostgreSQL has of a request that has not   *)
(* committed too.  And a document of one of its versions.                  *)
DefinitionRow ==
  [of : Tenant, key : Seq(Int), versions : Seq(DocumentId), open : BOOLEAN, committed : BOOLEAN]

StoredDocument ==
  [of : Tenant, process : Process, version : Nat, key : Seq(Int), steps : StepsNaming(Tenant)]

ASSUME LibraryAssumption ==
  /\ Process \cup Template \cup DocumentId \subseteq Nat /\ Template \cap DOMAIN SystemLibrary = {}
  /\ \A o \in Tenant : Content(o) \subseteq StepsNaming({o})
  /\ \A t \in DOMAIN SystemLibrary : SystemLibrary[t] \in BlueprintNaming({Placeholder})
  /\ Absent \notin BlueprintNaming(Tenant \cup {Placeholder})
  /\ Absent \notin DefinitionRow /\ Absent \notin StoredDocument

Idle == [pc |-> "idle", of |-> Absent, process |-> Absent, template |-> Absent,
         stored |-> Absent, shown |-> Blank, excused |-> FALSE]

LibraryInit ==
  /\ process = [p \in Process |-> Absent]
  /\ document = [i \in DocumentId |-> Absent]
  /\ template = [t \in Template |-> Absent]
  /\ blueprint = [t \in Template |-> Absent]
  /\ desk = [d \in Desk |-> Idle]
  /\ work = 0

----------------------------------------------------------------------------
(* packages/core/src/templates/clone.ts                                    *)

(* Stands for the time.                                                    *)
Now == 1000

(* `base`, or `base_2`, `base_3` and so on; a thousandth is told apart by  *)
(* the time, whether that is taken or not.                                 *)
Suffix(base, existing) ==
  CHOOSE n \in 2 .. Now :
    /\ n = Now \/ Append(base, n) \notin existing
    /\ \A m \in 2 .. (n - 1) : Append(base, m) \in existing

UniqueKey(base, existing) ==
  IF base \notin existing THEN base ELSE Append(base, Suffix(base, existing))

ResetStrategy(s) == IF Names(s) THEN Anonymous ELSE s

(* A slip: the levels of an escalation are copied as they are.             *)
ResetAssignment(step) == [step EXCEPT !.assignment = ResetStrategy(@)]

ResetStep(step) ==
  [assignment |-> ResetStrategy(step.assignment),
   escalation |-> [l \in DOMAIN step.escalation |-> ResetStrategy(step.escalation[l])]]

(* The warnings say which assignments were reset; they are the answer's.   *)
CloneTemplate(b, existingKeys) ==
  [key |-> UniqueKey(b.key, existingKeys), steps |-> [i \in DOMAIN b.steps |-> ResetStep(b.steps[i])]]

----------------------------------------------------------------------------
(* repositories/templates.ts: what the policies of the tables let through. *)

Own(o, t) == template[t] # Absent /\ template[t].of = o

Published(t) == template[t] # Absent /\ template[t].scope = "published"

FindTemplateById(o, t) == t \in Template /\ (Own(o, t) \/ Published(t))

FindSystemTemplateById(t) == t \in DOMAIN SystemLibrary

FindEitherTemplate(o, t) == FindTemplateById(o, t) \/ FindSystemTemplateById(t)

FindSharedTemplateDocument(t) ==
  IF t \in Template THEN blueprint[t] ELSE SystemLibrary[t]

TemplateKeys(o) == {template[t].key : t \in {u \in Template : Own(o, u)}}

----------------------------------------------------------------------------
(* Definitions and their documents.                                        *)

Committed(p) == process[p] # Absent /\ process[p].committed

(* What a transaction sees, and what UNIQUE (organisation_id, key) looks   *)
(* at: an insert of a key that another transaction has inserted waits.     *)
Keys(o) == {process[p].key : p \in {q \in Process : Committed(q) /\ process[q].of = o}}

ReservedKeys(o) ==
  {process[p].key : p \in {q \in Process : process[q] # Absent /\ process[q].of = o}}

(* allocateDefinitionKey: the slug, slug-2 and so on; refused after -99.   *)
Candidate(n) == IF n = 1 THEN <<>> ELSE <<-n>>

FreeKeys(existing) == {n \in 1 .. 99 : Candidate(n) \notin existing}

AllocateDefinitionKey(existing) ==
  Candidate(CHOOSE n \in FreeKeys(existing) : \A m \in FreeKeys(existing) : n <= m)

DocumentsOf(p) == {i \in DocumentId : document[i] # Absent /\ document[i].process = p}

(* findLatestProcessDefinitionDocument: one of the highest version number, *)
(* which no index makes unique.                                            *)
Latest(p) == {i \in DocumentsOf(p) : \A j \in DocumentsOf(p) : document[j].version <= document[i].version}

(* The document of the last version's row.                                 *)
Current(p) == process[p].versions[Len(process[p].versions)]

(* Left behind by a save that was rolled back: not the one its version's   *)
(* row names.                                                              *)
Orphan(i) ==
  LET versions == process[document[i].process].versions IN
  document[i].version \notin DOMAIN versions \/ versions[document[i].version] # i

(* Ids are never given twice: a number is free when nothing bears it.      *)
Unused(p) == process[p] = Absent /\ DocumentsOf(p) = {}

NextProcess(p) == Unused(p) /\ \A q \in Process : q < p => ~Unused(q)

NextDocument(i) == document[i] = Absent /\ \A j \in DocumentId : j < i => document[j] # Absent

NextTemplate(t) == blueprint[t] = Absent /\ \A u \in Template : u < t => blueprint[u] # Absent

----------------------------------------------------------------------------

Ask(d, r) ==
  /\ desk[d] = Idle /\ work < MaxWork
  /\ work' = work + 1
  /\ desk' = [desk EXCEPT ![d] = r]

Proceed(d, r) == desk' = [desk EXCEPT ![d] = r] /\ UNCHANGED work

(* A request that is one statement.                                        *)
Quick == work < MaxWork /\ work' = work + 1 /\ UNCHANGED desk

(* POST /process-definitions: the key is free when this request looks; the *)
(* document it starts from has no steps.                                   *)
CreateProcess(d, o) ==
  /\ FreeKeys(Keys(o)) # {}
  /\ Ask(d, [Idle EXCEPT !.pc = "define", !.of = o,
                         !.shown = [key |-> AllocateDefinitionKey(Keys(o)), steps |-> <<>>]])
  /\ UNCHANGED <<process, document, template, blueprint>>

(* The page shows the process with whatever was edited since; saving it as *)
(* a template saves the draft first.                                       *)
SaveAsTemplate(d, p) ==
  /\ Committed(p)
  /\ \E steps \in Content(process[p].of) \cup {document[Current(p)].steps} :
       Ask(d, [Idle EXCEPT !.pc = "save", !.of = process[p].of, !.process = p,
                           !.shown = [key |-> process[p].key, steps |-> steps]])
  /\ UNCHANGED <<process, document, template, blueprint>>

(* A slip: the save is started and not waited for.                         *)
DoNotWait(d, i) ==
  /\ desk[d].pc = "save"
  /\ Proceed(d, [desk[d] EXCEPT !.pc = "post"])
  /\ UNCHANGED <<process, document, template, blueprint>>

(* What PATCH draft writes into MongoDB, before its rows: over the open    *)
(* draft's document, or as a new one of the next version.                  *)
SavedInto(d, i) ==
  LET r == desk[d]  row == process[r.process] IN
  /\ IF row.open THEN i = Current(r.process) ELSE NextDocument(i)
  /\ document' = [document EXCEPT ![i] =
       [of |-> row.of, process |-> r.process, key |-> row.key, steps |-> r.shown.steps,
        version |-> IF row.open THEN Len(row.versions) ELSE Len(row.versions) + 1]]
  /\ desk' = [e \in Desk |->
       IF e = d THEN [r EXCEPT !.pc = "post"]
       ELSE [desk[e] EXCEPT !.excused = @ \/ (desk[e].pc = "post" /\ desk[e].process = r.process)]]
  /\ UNCHANGED work

(* onBeforeSave: handleSave of the builder, which shows a failure and does *)
(* not pass it on.  The request may fail before it has written anything,   *)
(* or when its document is written and its rows are rolled back.  Another  *)
(* tab about to save as a template gets this document instead of its own.  *)
BeforeSave(d, i) ==
  LET r == desk[d]  row == process[r.process] IN
  /\ r.pc = "save"
  /\ \/ /\ SavedInto(d, i)
        /\ process' = IF row.open THEN process
                      ELSE [process EXCEPT ![r.process].open = TRUE,
                                           ![r.process].versions = Append(@, i)]
     \/ SavedInto(d, i) /\ UNCHANGED process
     \/ /\ Proceed(d, [r EXCEPT !.pc = "post", !.excused = TRUE])
        /\ UNCHANGED <<process, document>>
  /\ UNCHANGED <<template, blueprint>>

(* POST /templates reads the latest document there is and writes the       *)
(* blueprint, for a row that does not exist yet.                           *)
InsertTemplateDocument(d, t) ==
  LET r == desk[d] IN
  /\ r.pc = "post" /\ NextTemplate(t)
  /\ \E i \in Latest(r.process) :
       blueprint' = [blueprint EXCEPT ![t] = [key |-> document[i].key, steps |-> document[i].steps]]
  /\ Proceed(d, [r EXCEPT !.pc = "row", !.template = t,
                          !.excused = @ \/ \E i \in Latest(r.process) : Orphan(i)])
  /\ UNCHANGED <<process, document, template>>

(* UNIQUE (organisation_id, key): one template per process.  The loser, or *)
(* a request cut short, leaves its document behind (GiveUp).               *)
CreateTemplate(d) ==
  LET r == desk[d] IN
  /\ r.pc = "row" /\ r.shown.key \notin TemplateKeys(r.of)
  /\ template' = [template EXCEPT ![r.template] =
       [of |-> r.of, key |-> r.shown.key, scope |-> "organisation", name |-> "given",
        shown |-> r.shown, excused |-> r.excused]]
  /\ Proceed(d, Idle)
  /\ UNCHANGED <<process, document, blueprint>>

(* Cloning: the blueprint is read before the transaction that asks the     *)
(* registry whether this organisation may have it.                         *)
ReadBlueprint(d, o, t) ==
  /\ FindSharedTemplateDocument(t) # Absent
  /\ Ask(d, [Idle EXCEPT !.pc = "clone", !.of = o, !.template = t,
                         !.shown = FindSharedTemplateDocument(t)])
  /\ UNCHANGED <<process, document, template, blueprint>>

(* The row is visible; the key is free when this request looks.            *)
ChooseKey(d) ==
  LET r == desk[d] IN
  /\ r.pc = "clone" /\ FindEitherTemplate(r.of, r.template)
  /\ Proceed(d, [r EXCEPT !.pc = "define", !.shown = CloneTemplate(r.shown, Keys(r.of))])
  /\ UNCHANGED <<process, document, template, blueprint>>

(* What creating and cloning have in common, in one transaction: the row   *)
CreateDefinition(d, p) ==
  LET r == desk[d] IN
  /\ r.pc = "define" /\ NextProcess(p) /\ r.shown.key \notin ReservedKeys(r.of)
  /\ process' = [process EXCEPT ![p] =
       [of |-> r.of, key |-> r.shown.key, versions |-> <<>>, open |-> FALSE, committed |-> FALSE]]
  /\ Proceed(d, [r EXCEPT !.pc = "document", !.process = p])
  /\ UNCHANGED <<document, template, blueprint>>

(* of the definition, its document,                                        *)
InsertDefinitionDocument(d, i) ==
  LET r == desk[d] IN
  /\ r.pc = "document" /\ NextDocument(i)
  /\ document' = [document EXCEPT ![i] =
       [of |-> r.of, process |-> r.process, key |-> r.shown.key, steps |-> r.shown.steps, version |-> 1]]
  /\ Proceed(d, [r EXCEPT !.pc = "version", !.stored = i])
  /\ UNCHANGED <<process, template, blueprint>>

(* and the row of its first version, a draft.                              *)
CreateVersion(d) ==
  LET r == desk[d] IN
  /\ r.pc = "version"
  /\ process' = [process EXCEPT ![r.process].versions = <<r.stored>>, ![r.process].open = TRUE,
                                ![r.process].committed = TRUE]
  /\ Proceed(d, Idle)
  /\ UNCHANGED <<document, template, blueprint>>

(* A refusal, a constraint, a lost connection: rows that are not committed *)
(* are rolled back.                                                        *)
GiveUp(d) ==
  /\ desk[d] # Idle
  /\ Proceed(d, Idle)
  /\ process' = IF desk[d].pc \in {"document", "version"}
                THEN [process EXCEPT ![desk[d].process] = Absent] ELSE process
  /\ UNCHANGED <<document, template, blueprint>>

(* POST .../draft/publish: the next save opens a version.                  *)
PublishVersion(p) ==
  /\ Committed(p) /\ process[p].open /\ Quick
  /\ process' = [process EXCEPT ![p].open = FALSE]
  /\ UNCHANGED <<document, template, blueprint>>

(* UPDATE and DELETE are governed by tenant_isolation alone.               *)
UpdateTemplate(o, t) ==
  /\ Own(o, t) /\ Quick
  /\ template' = [template EXCEPT ![t].name = "patched"]
  /\ UNCHANGED <<process, document, blueprint>>

SetTemplateScope(o, t) ==
  /\ Own(o, t) /\ Quick
  /\ \E scope \in {"organisation", "published"} :
       template' = [template EXCEPT ![t].scope = scope]
  /\ UNCHANGED <<process, document, blueprint>>

(* The document stays where it is, with nothing that names it.             *)
DeleteTemplate(o, t) ==
  /\ Own(o, t) /\ Quick
  /\ template' = [template EXCEPT ![t] = Absent]
  /\ UNCHANGED <<process, document, blueprint>>

DeskStep(d) ==
  \/ \E p \in Process : SaveAsTemplate(d, p) \/ CreateDefinition(d, p)
  \/ \E i \in DocumentId : BeforeSave(d, i) \/ InsertDefinitionDocument(d, i)
  \/ \E t \in Template : InsertTemplateDocument(d, t)
  \/ \E o \in Tenant : CreateProcess(d, o)
  \/ \E o \in Tenant : \E t \in Template \cup DOMAIN SystemLibrary : ReadBlueprint(d, o, t)
  \/ CreateTemplate(d) \/ ChooseKey(d) \/ CreateVersion(d) \/ GiveUp(d)

LibraryNext ==
  \/ \E d \in Desk : DeskStep(d)
  \/ \E p \in Process : PublishVersion(p)
  \/ \E o \in Tenant, t \in Template :
       UpdateTemplate(o, t) \/ SetTemplateScope(o, t) \/ DeleteTemplate(o, t)

LibrarySpec == LibraryInit /\ [][LibraryNext]_libraryVars

----------------------------------------------------------------------------

(* "The row never points at a blueprint that does not exist"               *)
(* (routes/templates.ts:200), nor a version at a document of another       *)
(* process or version, whichever request is cut short between its two      *)
(* stores and whatever it leaves behind there.                             *)
RowsHaveDocuments ==
  /\ \A t \in Template : template[t] # Absent => blueprint[t] # Absent
  /\ \A p \in Process : Committed(p) =>
       /\ process[p].versions # <<>>
       /\ \A n \in DOMAIN process[p].versions :
            /\ process[p].versions[n] \in DocumentsOf(p)
            /\ document[process[p].versions[n]].version = n

(* Keys of processes and of templates name one each in an organisation,    *)
(* also when two processes of one name, or two copies of one template, are *)
(* made at the same time.                                                  *)
LibraryKeysAreUnique ==
  /\ \A p, q \in Process :
       /\ p # q /\ process[p] # Absent /\ process[q] # Absent /\ process[p].of = process[q].of
       => process[p].key # process[q].key
  /\ \A t, u \in Template :
       t # u /\ template[t] # Absent /\ template[u] # Absent /\ template[t].of = template[u].of
       => template[t].key # template[u].key

Assignments(steps) ==
  UNION {{steps[i].assignment} \cup {steps[i].escalation[l] : l \in DOMAIN steps[i].escalation} :
           i \in DOMAIN steps}

(* No step or escalation of a process names a person or group of another   *)
(* organisation, through whatever chain of templates and copies it came.   *)
NobodyFromElsewhere ==
  \A p \in Process : Committed(p) =>
    \A i \in DocumentsOf(p) : \A s \in Assignments(document[i].steps) : s.of \in {Absent, process[p].of}

(* The library of templates and what is copied from it, across tenants,    *)
(* concurrent requests and requests cut short.                             *)
LibraryInv == RowsHaveDocuments /\ LibraryKeysAreUnique /\ NobodyFromElsewhere

(* "Saving the draft first is what makes 'save as template' mean what it   *)
(* looks like it means" (save-as-template.tsx:57): a template holds what   *)
(* its author's page showed.  Unless that save failed before its document  *)
(* was written (the page posts all the same), another tab saved the        *)
(* process meanwhile, or a save that was rolled back has left a document   *)
(* of the same version, which the read may take instead.                   *)
TemplatesHoldWhatWasShown ==
  \A t \in Template :
    template[t] # Absent /\ ~template[t].excused => blueprint[t] = template[t].shown
=============================================================================
