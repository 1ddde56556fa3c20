---------------------------- MODULE DefinitionStore ----------------------------
(***************************************************************************)
(* One process definition under the requests that share it: saves of its   *)
(* draft and publications (apps/api/src/routes/process-definitions.ts) and *)
(* submissions, which pin its current version and take a reference from    *)
(* its counter (routes/cases.ts).                                          *)
(*                                                                         *)
(* A version is a row in PostgreSQL, with the hash of its content, and a   *)
(* document in MongoDB.  Rows are locked until the transaction ends and    *)
(* its writes are seen only then; the document is replaced at once and no  *)
(* roll back undoes it.                                                    *)
(***************************************************************************)
EXTENDS Naturals

CONSTANTS
  Client,       \* requests that can be in flight at once
  Fragile,      \* those whose database session may be lost under them
  Content,      \* contents of a document; each is its own SHA-256 hash
  Bootstrap,    \* the content create starts with
  Case,         \* drafts of this definition that may be submitted
  NoCase,
  NotPublished, \* stands for the content of a version nobody has published
  MaxVersions   \* bound on the versions opened

ASSUME DefinitionAssumption ==
  /\ Fragile \subseteq Client
  /\ Bootstrap \in Content
  /\ NoCase \notin Case
  /\ NotPublished \notin Content
  /\ MaxVersions \in Nat \ {0}

VARIABLES
  version,    \* process_versions, by version_number
  document,   \* the documents their document_id leads to
  current,    \* current_version_id of the definition, 0 before the first
  counter,    \* reference_counter of the definition
  pinned,     \* what each case was submitted with
  request     \* what each handler in flight holds

vars == <<version, document, current, counter, pinned, request>>

Number == 1 .. MaxVersions

VersionRow == [status : {"absent", "draft", "published"}, hash : Content]

Pin == [number : 0 .. MaxVersions, content : Content, reference : Nat]

NotPinned == [number |-> 0, content |-> Bootstrap, reference |-> 0]

Request ==
  [pc : {"idle", "lookup", "replace", "record", "insert", "orphaned",
         "mark", "point", "allocate", "persist"},
   number : 0 .. MaxVersions, content : Content,
   case : Case \cup {NoCase}, reference : Nat]

Idle == [pc |-> "idle", number |-> 0, content |-> Bootstrap,
         case |-> NoCase, reference |-> 0]

(* Whoever has looked up a version or a case has one.                      *)
Grounded(r) ==
  /\ r.pc \notin {"idle", "lookup"} => r.number \in Number
  /\ r.pc \in {"allocate", "persist"} => r.case \in Case

TypeOK ==
  /\ version \in [Number -> VersionRow]
  /\ document \in [Number -> Content]
  /\ current \in 0 .. MaxVersions
  /\ counter \in Nat
  /\ pinned \in [Case -> Pin]
  /\ request \in [Client -> Request]
  /\ \A c \in Client : Grounded(request[c])

(* POST /process-definitions has committed: the definition, its version 1  *)
(* and the bootstrap document.                                             *)
Init ==
  /\ version = [n \in Number |->
                  [status |-> IF n = 1 THEN "draft" ELSE "absent", hash |-> Bootstrap]]
  /\ document = [n \in Number |-> Bootstrap]
  /\ current = 0
  /\ counter = 0
  /\ pinned = [k \in Case |-> NotPinned]
  /\ request = [c \in Client |-> Idle]

-----------------------------------------------------------------------------
(* Rows and locks.  A handler waits for a row another one has updated.     *)

Exists(n)    == version[n].status # "absent"
IsDraft(n)   == version[n].status = "draft"
Published(n) == version[n].status = "published"
Pinned(k)    == pinned[k] # NotPinned

(* Mutant: the save does not touch the row of the definition.              *)
HoldsDefinitionUnlessSaving(c) == request[c].pc = "persist"

(* Mutant: the counter is read, and written only at the end.               *)
HoldsDefinitionUnlessSubmitting(c) ==
  request[c].pc \in {"lookup", "replace", "record", "insert"}

(* Between its UPDATE of process_definitions and its end.                  *)
HoldsDefinition(c) ==
  request[c].pc \in {"lookup", "replace", "record", "insert", "persist"}

DefinitionFree == \A c \in Client : ~HoldsDefinition(c)

(* Between its UPDATE of the row of version n and its end; a save ends     *)
(* with that UPDATE, only a publication goes on to another row.            *)
HoldsVersion(c, n) == request[c].pc = "point" /\ request[c].number = n

VersionFree(n) == \A c \in Client : ~HoldsVersion(c, n)

(* findDraftProcessVersion: the draft with the highest number.             *)
DraftFound(n) == IsDraft(n) /\ \A m \in Number : IsDraft(m) => m <= n

(* findLatestVersionNumber + 1                                             *)
NextNumber(n) ==
  /\ \A m \in Number : Exists(m) => m < n
  /\ n = 1 \/ Exists(n - 1)

Begin(c, entry) ==
  /\ request[c].pc = "idle"
  /\ request' = [request EXCEPT ![c] = entry]

Go(c, pc) == request' = [request EXCEPT ![c].pc = pc]

(* COMMIT or ROLLBACK: the locks are gone.                                 *)
Finish(c) == request' = [request EXCEPT ![c] = Idle]

-----------------------------------------------------------------------------
(* PATCH .../draft                                                         *)

(* updateProcessDefinitionMetadata comes first and locks the definition.   *)
StartSave(c) ==
  /\ DefinitionFree
  /\ \E n \in Number : ~Published(n)    \* bound: a version is left to edit
  /\ \E content \in Content :
       Begin(c, [Idle EXCEPT !.pc = "lookup", !.content = content])
  /\ UNCHANGED <<version, document, current, counter, pinned>>

(* Mutant: edits in place only until the definition is first published.    *)
LookUpDraftUntilPublished(c) ==
  /\ request[c].pc = "lookup"
  /\ \E n \in Number :
       \/ /\ DraftFound(n) /\ current = 0
          /\ request' = [request EXCEPT ![c].pc = "replace", ![c].number = n]
       \/ /\ current # 0
          /\ NextNumber(n)
          /\ request' = [request EXCEPT ![c].pc = "insert", ![c].number = n]
  /\ UNCHANGED <<version, document, current, counter, pinned>>

(* Edit the open draft in place, or open a new one.                        *)
LookUpDraft(c) ==
  /\ request[c].pc = "lookup"
  /\ \E n \in Number :
       \/ /\ DraftFound(n)
          /\ request' = [request EXCEPT ![c].pc = "replace", ![c].number = n]
       \/ /\ \A m \in Number : ~IsDraft(m)
          /\ NextNumber(n)
          /\ request' = [request EXCEPT ![c].pc = "insert", ![c].number = n]
  /\ UNCHANGED <<version, document, current, counter, pinned>>

(* updateProcessDefinitionDocument: outside the transaction.               *)
ReplaceDocument(c) ==
  /\ request[c].pc = "replace"
  /\ document' = [document EXCEPT ![request[c].number] = request[c].content]
  /\ Go(c, "record")
  /\ UNCHANGED <<version, current, counter, pinned>>

(* updateProcessVersionDocumentHash, whatever the status, and commit.      *)
RecordHash(c) ==
  /\ request[c].pc = "record"
  /\ VersionFree(request[c].number)
  /\ version' = [version EXCEPT ![request[c].number].hash = request[c].content]
  /\ Finish(c)
  /\ UNCHANGED <<document, current, counter, pinned>>

(* insertProcessDefinitionDocument, createProcessVersion and commit.  The  *)
(* document of a version that is rolled back is read by nobody.            *)
InsertVersion(c) ==
  LET n == request[c].number IN
  /\ request[c].pc = "insert"
  /\ ~Exists(n)                         \* UNIQUE (definition_id, version_number)
  /\ version' = [version EXCEPT ![n] = [status |-> "draft", hash |-> request[c].content]]
  /\ document' = [document EXCEPT ![n] = request[c].content]
  /\ Finish(c)
  /\ UNCHANGED <<current, counter, pinned>>

(* The session is lost, and the locks with it, while replaceOne is on its  *)
(* way; it may still arrive.                                               *)
LoseSession(c) ==
  /\ c \in Fragile
  /\ request[c].pc = "replace"
  /\ Go(c, "orphaned")
  /\ UNCHANGED <<version, document, current, counter, pinned>>

OrphanedReplace(c) ==
  /\ request[c].pc = "orphaned"
  /\ document' = [document EXCEPT ![request[c].number] = request[c].content]
  /\ Finish(c)
  /\ UNCHANGED <<version, current, counter, pinned>>

-----------------------------------------------------------------------------
(* POST .../draft/publish                                                  *)

(* Without an open draft the answer is 409.  Nothing is locked yet.        *)
StartPublish(c) ==
  /\ \E n \in Number :
       /\ DraftFound(n)
       /\ Begin(c, [Idle EXCEPT !.pc = "mark", !.number = n])
  /\ UNCHANGED <<version, document, current, counter, pinned>>

(* publishProcessVersion, its two UPDATEs: the version, by its id alone,   *)
(* and then the definition; commit.                                        *)
MarkPublished(c) ==
  /\ request[c].pc = "mark"
  /\ VersionFree(request[c].number)
  /\ Go(c, "point")
  /\ UNCHANGED <<version, document, current, counter, pinned>>

PointDefinition(c) ==
  /\ request[c].pc = "point"
  /\ DefinitionFree
  /\ version' = [version EXCEPT ![request[c].number].status = "published"]
  /\ current' = request[c].number
  /\ Finish(c)
  /\ UNCHANGED <<document, counter, pinned>>

-----------------------------------------------------------------------------
(* POST /cases/:caseId/submit, the part that touches the definition.       *)

(* Mutant: the document is not checked against its hash.                   *)
StartSubmitUnverified(c) ==
  /\ current # 0
  /\ \E k \in Case :
       /\ ~Pinned(k)
       /\ Begin(c, [Idle EXCEPT !.pc = "allocate", !.number = current,
                                !.content = document[current], !.case = k])
  /\ UNCHANGED <<version, document, current, counter, pinned>>

(* A document that does not match its recorded hash is a 500.              *)
StartSubmit(c) ==
  /\ current # 0
  /\ document[current] = version[current].hash
  /\ \E k \in Case :
       /\ ~Pinned(k)
       /\ Begin(c, [Idle EXCEPT !.pc = "allocate", !.number = current,
                                !.content = document[current], !.case = k])
  /\ UNCHANGED <<version, document, current, counter, pinned>>

(* allocateCaseReference locks the definition.                             *)
AllocateReference(c) ==
  /\ request[c].pc = "allocate"
  /\ DefinitionFree
  /\ request' = [request EXCEPT ![c].pc = "persist", ![c].reference = counter + 1]
  /\ UNCHANGED <<version, document, current, counter, pinned>>

(* The case is still the draft that was read; UNIQUE (reference).          *)
Persistable(c) ==
  /\ ~Pinned(request[c].case)
  /\ \A k \in Case : Pinned(k) => pinned[k].reference # request[c].reference

(* Mutant: pins what is current by the time it commits.                    *)
PersistSubmissionPinsLatest(c) ==
  /\ request[c].pc = "persist"
  /\ Persistable(c)
  /\ pinned' = [pinned EXCEPT ![request[c].case] =
                  [number |-> current, content |-> request[c].content,
                   reference |-> request[c].reference]]
  /\ counter' = request[c].reference
  /\ Finish(c)
  /\ UNCHANGED <<version, document, current>>

(* persistEngineOutput and commit.                                         *)
PersistSubmission(c) ==
  /\ request[c].pc = "persist"
  /\ Persistable(c)
  /\ pinned' = [pinned EXCEPT ![request[c].case] =
                  [number |-> request[c].number, content |-> request[c].content,
                   reference |-> request[c].reference]]
  /\ counter' = request[c].reference
  /\ Finish(c)
  /\ UNCHANGED <<version, document, current>>

(* Mutant: repeats the statement in the transaction that has failed.       *)
ConflictRetries(c) ==
  /\ request[c].pc = "persist"
  /\ ~Persistable(c)
  /\ UNCHANGED vars

(* The case has been submitted meanwhile, or its reference is taken.       *)
Conflict(c) ==
  /\ request[c].pc = "persist"
  /\ ~Persistable(c)
  /\ Finish(c)
  /\ UNCHANGED <<version, document, current, counter, pinned>>

-----------------------------------------------------------------------------
(* A refusal by the engine, an error, a crash: at any step.                *)
RollBack(c) ==
  /\ request[c].pc # "idle"
  /\ Finish(c)
  /\ UNCHANGED <<version, document, current, counter, pinned>>

(* A save waits for the version a publication has marked, which waits for  *)
(* the definition the save has locked: PostgreSQL aborts one of them.      *)
BreakDeadlock ==
  /\ \E c, d \in Client :
       /\ request[c].pc = "record"
       /\ HoldsVersion(d, request[c].number)
       /\ Finish(c) \/ Finish(d)
  /\ UNCHANGED <<version, document, current, counter, pinned>>

Start(c) == StartSave(c) \/ StartPublish(c) \/ StartSubmit(c)

Proceed(c) ==
  \/ LookUpDraft(c) \/ ReplaceDocument(c) \/ RecordHash(c) \/ InsertVersion(c)
  \/ OrphanedReplace(c)
  \/ MarkPublished(c) \/ PointDefinition(c)
  \/ AllocateReference(c) \/ PersistSubmission(c) \/ Conflict(c)

Next ==
  \/ \E c \in Client : Start(c) \/ Proceed(c) \/ LoseSession(c) \/ RollBack(c)
  \/ BreakDeadlock

Spec == Init /\ [][Next]_vars

(* A row lock is granted in the order of the queue for it, so whoever can  *)
(* go on again and again does; the deadlock detector runs.                 *)
FairSpec ==
  /\ Spec
  /\ \A c \in Client : SF_vars(Proceed(c))
  /\ WF_vars(BreakDeadlock)

-----------------------------------------------------------------------------
(* Properties.                                                             *)

(* PRD.md section 8.1: "A definition has at most one draft version at a    *)
(* time": the newest one, whatever saves and publications overlap.         *)
OnlyNewestIsDraft ==
  \A m, n \in Number : IsDraft(m) /\ Exists(n) => n <= m

(* routes/process-definitions.ts:490: publication is "the point of no      *)
(* return" for the content: no save that found the version a draft         *)
(* records another hash, or reopens it, later.                             *)
PublishedRowsAreFixed ==
  [][\A n \in Number : Published(n) => version'[n] = version[n]]_vars

(* PRD.md section 8.2: the pin never changes and the engine loads the      *)
(* document by it: what a case reads is what it was submitted with and     *)
(* passes the integrity check.                                             *)
PinnedDocumentsVerify ==
  \A k \in Case : Pinned(k) =>
    /\ document[pinned[k].number] = pinned[k].content
    /\ version[pinned[k].number].hash = pinned[k].content

(* repositories/process-definitions.ts:386: "two concurrent submissions    *)
(* cannot receive the same number": nor the one of a case already          *)
(* submitted, which the UNIQUE constraint would turn into an error.        *)
ReferencesAreHandedOutOnce ==
  \A c \in Client : request[c].pc = "persist" =>
    /\ \A d \in Client :
         request[d].pc = "persist" /\ request[d].reference = request[c].reference
         => d = c
    /\ \A k \in Case : Pinned(k) => pinned[k].reference # request[c].reference

(* Every request ends, whichever locks the others take: the two orders in  *)
(* which saves and publications lock the rows do not leave both waiting.   *)
RequestsEnd ==
  \A c \in Client : request[c].pc # "idle" ~> request[c].pc = "idle"

-----------------------------------------------------------------------------
(* What the proofs rest on.                                                *)

(* The row lock of the definition has one holder.                          *)
OneHolder ==
  \A c, d \in Client : HoldsDefinition(c) /\ HoldsDefinition(d) => c = d

(* Versions are opened in order, each after the one before is published.   *)
PublishedInOrder ==
  \A m, n \in Number : Exists(n) /\ m < n => Published(m)

CurrentIsPublished == current # 0 => Published(current)

ReferencesAreCounted ==
  \A k \in Case : Pinned(k) => pinned[k].reference <= counter

(* What a handler has read is still so: a save, under its lock, sees the    *)
(* version as it is; a publication, however stale, names a version; what a *)
(* submission has read is published, hence what it will always be.         *)
Sound(r) ==
  /\ r.pc \in {"replace", "record"} => IsDraft(r.number)
  /\ r.pc = "insert" =>
       ~Exists(r.number) /\ \A m \in Number : m < r.number => Published(m)
  /\ r.pc \in {"mark", "point"} => Exists(r.number)
  /\ r.pc \in {"allocate", "persist"} =>
       Published(r.number) /\ version[r.number].hash = r.content
  /\ r.pc = "persist" => r.reference = counter + 1

(* The inductive invariant: why locks taken late and reads taken early do  *)
(* no harm to what is published.                                           *)
IInv ==
  /\ TypeOK
  /\ OneHolder
  /\ PublishedInOrder
  /\ CurrentIsPublished
  /\ ReferencesAreCounted
  /\ \A c \in Client : Sound(request[c])

-----------------------------------------------------------------------------
(* PublicationLog, with the recorded hashes for the contents.              *)

PublishedLog ==
  [n \in Number |-> IF Published(n) THEN version[n].hash ELSE NotPublished]

Log == INSTANCE PublicationLog WITH log <- PublishedLog, issued <- counter, pins <- pinned

ImplementsLog == Log!Spec
=============================================================================
