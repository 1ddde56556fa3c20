--------------------------- MODULE AttachmentCustody ---------------------------
(***************************************************************************)
(* The files of one case, from the presigned upload to redaction: the      *)
(* attachments table, the object store beside it, the routes of the        *)
(* requester, the scan worker fed by a queue, and the retention sweeps of  *)
(* the API processes.  No transaction spans the table and the store.       *)
(* Sources: apps/api/src/routes/attachments.ts,                            *)
(* workers/src/attachment-scan, apps/api/src/retention/sweep.ts,           *)
(* apps/api/src/routes/data-protection.ts.                                 *)
(***************************************************************************)
EXTENDS Naturals, FiniteSets

CONSTANTS
  Attachment,   \* rows, and with each of them the file it is about
  Client,       \* requests of the requester in flight at once
  Scanner,      \* scan workers
  Sweeper,      \* retention sweeps: one per API process
  MaxFiles,     \* validation.maxFiles of the file field
  MaxReceives,  \* maxReceiveCount of the redrive policy
  MaxFaults,    \* bound: failures of the store, the database or a process
  MaxMoves,     \* bound: submissions and returns, changes of the retention
  None

ASSUME CustodyAssumption ==
  /\ None \notin Attachment
  /\ {MaxFiles, MaxReceives} \subseteq Nat \ {0}
  /\ {MaxFaults, MaxMoves} \subseteq Nat
  /\ IsFiniteSet(Scanner)

VARIABLES
  case,       \* the cases row: where it is, retention, redaction
  values,     \* case_values: the personal answers, or their tombstones
  row,        \* the attachments table
  object,     \* the store: <<file, place>> for every object in it
  upload,     \* presigned posts still usable
  message,    \* attachment.uploaded on its way to a scanner
  received,   \* how often that message was received
  request,    \* requests in flight, between their reads and their commit
  scan,       \* scanners, between receiving and acknowledging
  sweep,      \* sweeps, between finding the case and committing
  faults,     \* failures so far
  moves,      \* case and retention changes so far
  astray,     \* history: files a scan moved without the row following
  again       \* history: files posted again once they were confirmed

custodyVars == <<case, values, row, object, upload, message, received,
                 request, scan, sweep, faults, moves, astray, again>>

(* A key, as buildStorageKey built it or behind the quarantine prefix.     *)
Place == {"uploads", "quarantine"}

(* A NULL timestamp is FALSE; named: the filename is not yet blanked;      *)
(* infected is no column: what a scanner finds in the file posted last.    *)
Row == [there : BOOLEAN, confirmed : BOOLEAN, deleted : BOOLEAN, named : BOOLEAN,
        infected : BOOLEAN, scanStatus : {"pending", "clean", "infected"}, storageKey : Place]

Case == [status : {"draft", "running", "returned", "ended"},
         retained : BOOLEAN,     \* the window is unset or has not elapsed
         redacted : BOOLEAN,
         legible  : BOOLEAN]     \* its version and document are found, the hash is right

FreeRequest == [pc |-> "free", file |-> None]
FreeScan    == [pc |-> "free", file |-> None]
FreeSweep   == [pc |-> "free", listed |-> {}, files |-> {}]

CustodyInit ==
  /\ case = [status |-> "draft", retained |-> TRUE, redacted |-> FALSE, legible |-> TRUE]
  /\ values = "personal"
  /\ row = [a \in Attachment |->
              [there |-> FALSE, confirmed |-> FALSE, deleted |-> FALSE, named |-> TRUE,
               infected |-> FALSE, scanStatus |-> "pending", storageKey |-> "uploads"]]
  /\ object = {} /\ upload = {} /\ astray = {} /\ again = {}
  /\ message = [a \in Attachment |-> "none"]
  /\ received = [a \in Attachment |-> 0]
  /\ request = [c \in Client |-> FreeRequest]
  /\ scan = [w \in Scanner |-> FreeScan]
  /\ sweep = [s \in Sweeper |-> FreeSweep]
  /\ faults = 0 /\ moves = 0

(* One more thing fails: the store, a statement, the process itself.       *)
Fault == faults < MaxFaults /\ faults' = faults + 1

----------------------------------------------------------------------------
(* The routes.  A request reads, checks, and commits what it decided on    *)
(* those reads; nothing it reads is locked meanwhile.                      *)

(* requireEditableByRequester, for the requester.                          *)
Editable == case.status \in {"draft", "returned"}

Live(a) == row[a].there /\ ~row[a].deleted

(* The download route: 404 unless clean, and a link for the row's key.     *)
Downloadable(a) == Live(a) /\ row[a].scanStatus = "clean"

ConfirmedAttachments == {a \in Attachment : Live(a) /\ row[a].confirmed}

(* What each route insists on before it writes.                            *)
Accepts(kind, a) ==
  /\ Editable
  /\ CASE kind = "presign" -> ~row[a].there /\ Cardinality(ConfirmedAttachments) < MaxFiles
       [] kind = "confirm" -> Live(a) /\ ~row[a].confirmed /\ <<a, row[a].storageKey>> \in object
       [] kind = "delete"  -> Live(a)

Read(c, kind, a) ==
  /\ request[c].pc = "free" /\ Accepts(kind, a)
  /\ kind = "presign" => \A d \in Client : request[d].file # a    \* a new id
  /\ request' = [request EXCEPT ![c] = [pc |-> kind, file |-> a]]
  /\ UNCHANGED <<case, values, row, object, upload, message, received, scan,
                 sweep, faults, moves, astray, again>>

Presign(c) ==
  LET a == request[c].file IN
  /\ request[c].pc = "presign"
  /\ row' = [row EXCEPT ![a].there = TRUE]
  /\ upload' = upload \cup {a}
  /\ request' = [request EXCEPT ![c] = FreeRequest]
  /\ UNCHANGED <<case, values, object, message, received, scan, sweep,
                 faults, moves, astray, again>>

(* The form is good for fifteen minutes and any number of posts, whatever  *)
(* has become of the row meanwhile; each post replaces what lies under the *)
(* original key.                                                           *)
Upload(a) ==
  /\ a \in upload
  /\ object' = object \cup {<<a, "uploads">>}
  /\ \E infected \in BOOLEAN : row' = [row EXCEPT ![a].infected = infected]
  /\ again' = IF row[a].confirmed THEN again \cup {a} ELSE again
  /\ UNCHANGED <<case, values, upload, message, received, request, scan, sweep,
                 faults, moves, astray>>

FormExpires(a) ==
  /\ a \in upload
  /\ upload' = upload \ {a}
  /\ UNCHANGED <<case, values, row, object, message, received, request, scan, sweep,
                 faults, moves, astray, again>>

MarkAttachmentConfirmed(c) ==
  LET a == request[c].file IN
  /\ request[c].pc = "confirm"
  /\ row' = [row EXCEPT ![a].confirmed = TRUE]
  /\ request' = [request EXCEPT ![c].pc = "publish"]
  /\ UNCHANGED <<case, values, object, upload, message, received, scan, sweep,
                 faults, moves, astray, again>>

(* After the commit and beside the answer; a failure is swallowed.  A      *)
(* second confirmation of the same file publishes a second message, which  *)
(* finds the row scanned, or scans it like a redelivery.                   *)
PublishUploaded(c) ==
  LET a == request[c].file IN
  /\ request[c].pc = "publish"
  /\ \/ /\ message' = [message EXCEPT ![a] = "visible"]
        /\ received' = [received EXCEPT ![a] = 0]
        /\ UNCHANGED faults
     \/ /\ Fault /\ UNCHANGED received
        /\ message' = [message EXCEPT ![a] = IF @ = "none" THEN "lost" ELSE @]
  /\ request' = [request EXCEPT ![c] = FreeRequest]
  /\ UNCHANGED <<case, values, row, object, upload, scan, sweep, moves, astray, again>>

SoftDeleteAttachment(c) ==
  LET a == request[c].file IN
  /\ request[c].pc = "delete"
  /\ row' = [row EXCEPT ![a].deleted = TRUE]
  /\ request' = [request EXCEPT ![c].pc = "discard"]
  /\ UNCHANGED <<case, values, object, upload, message, received, scan, sweep,
                 faults, moves, astray, again>>

(* Best effort: the key the update returned, and errors are dropped.       *)
DiscardObject(c) ==
  LET a == request[c].file IN
  /\ request[c].pc = "discard"
  /\ \/ object' = object \ {<<a, row[a].storageKey>>} /\ UNCHANGED faults
     \/ Fault /\ UNCHANGED object
  /\ request' = [request EXCEPT ![c] = FreeRequest]
  /\ UNCHANGED <<case, values, row, upload, message, received, scan, sweep,
                 moves, astray, again>>

----------------------------------------------------------------------------
(* The case itself, as the case routes move it, and its retention.  A      *)
(* window is counted in days: no form and no request outlives it, and the  *)
(* pinned document may have been spoiled when it has passed.               *)

MoveCase(from, to) ==
  /\ case.status \in from /\ moves < MaxMoves /\ moves' = moves + 1
  /\ case' = [case EXCEPT !.status = to]
  /\ UNCHANGED <<values, row, object, upload, message, received, request,
                 scan, sweep, faults, astray, again>>

WindowElapses ==
  /\ case.status = "ended" /\ case.retained /\ moves < MaxMoves
  /\ upload = {} /\ \A c \in Client : request[c].pc = "free"
  /\ moves' = moves + 1
  /\ \E legible \in BOOLEAN :
       case' = [case EXCEPT !.retained = FALSE, !.legible = @ /\ legible]
  /\ UNCHANGED <<values, row, object, upload, message, received, request,
                 scan, sweep, faults, astray, again>>

(* PATCH /data-protection/retention: longer, or unlimited.                 *)
ProlongRetention ==
  /\ ~case.retained /\ moves < MaxMoves
  /\ moves' = moves + 1
  /\ case' = [case EXCEPT !.retained = TRUE]
  /\ UNCHANGED <<values, row, object, upload, message, received, request,
                 scan, sweep, faults, astray, again>>

CaseMoves ==
  \/ MoveCase({"draft", "returned"}, "running")
  \/ MoveCase({"running"}, "returned")
  \/ MoveCase({"draft", "running", "returned"}, "ended")
  \/ WindowElapses \/ ProlongRetention

----------------------------------------------------------------------------
(* scanAndPersist: one transaction that reads the row, and before it       *)
(* writes fetches the file and, if it is infected, moves it aside.         *)

Step(w, a, pc) == scan' = [scan EXCEPT ![w] = [pc |-> pc, file |-> a]]

Acknowledge(w, a) ==
  /\ scan' = [scan EXCEPT ![w] = FreeScan]
  /\ message' = [message EXCEPT ![a] = "done"]

(* Unacknowledged, the message comes back, or has been received too often. *)
ComesBack(a) ==
  message' = [message EXCEPT ![a] =
                IF @ # "hidden" THEN @
                ELSE IF received[a] >= MaxReceives THEN "dead" ELSE "visible"]

Receive(w, a) ==
  /\ scan[w].pc = "free" /\ message[a] = "visible" /\ received[a] < MaxReceives
  /\ message' = [message EXCEPT ![a] = "hidden"]
  /\ received' = [received EXCEPT ![a] = @ + 1]
  /\ Step(w, a, "read")
  /\ UNCHANGED <<case, values, row, object, upload, request, sweep, faults,
                 moves, astray, again>>

(* The visibility timeout passes while a scanner still works on it.        *)
Reappear(a) ==
  /\ message[a] = "hidden" /\ received[a] < MaxReceives
  /\ message' = [message EXCEPT ![a] = "visible"]
  /\ UNCHANGED <<case, values, row, object, upload, received, request, scan,
                 sweep, faults, moves, astray, again>>

ScanRead(w) ==
  LET a == scan[w].file IN
  /\ scan[w].pc = "read"
  /\ IF Live(a) /\ row[a].scanStatus = "pending"
       THEN Step(w, a, "fetch") /\ UNCHANGED message
       ELSE Acknowledge(w, a)
  /\ UNCHANGED <<case, values, row, object, upload, received, request, sweep,
                 faults, moves, astray, again>>

(* A slip: the error is caught and the message acknowledged all the same.  *)
GiveUpSilently(w, a) == Acknowledge(w, a)

GiveUp(w, a) ==
  /\ scan' = [scan EXCEPT ![w] = FreeScan]
  /\ ComesBack(a)

GetObjectBytes(w) ==
  LET a == scan[w].file IN
  /\ scan[w].pc = "fetch"
  /\ IF <<a, "uploads">> \in object
       THEN Step(w, a, IF row[a].infected THEN "copy" ELSE "markClean") /\ UNCHANGED message
       ELSE GiveUp(w, a)
  /\ UNCHANGED <<case, values, row, object, upload, received, request, sweep,
                 faults, moves, astray, again>>

(* moveToQuarantine is a copy and then a delete; a copy of nothing throws. *)
CopyToQuarantine(w) ==
  LET a == scan[w].file IN
  /\ scan[w].pc = "copy"
  /\ IF <<a, "uploads">> \in object
       THEN object' = object \cup {<<a, "quarantine">>} /\ Step(w, a, "remove") /\ UNCHANGED message
       ELSE GiveUp(w, a) /\ UNCHANGED object
  /\ UNCHANGED <<case, values, row, upload, received, request, sweep, faults,
                 moves, astray, again>>

RemoveOriginal(w) ==
  LET a == scan[w].file IN
  /\ scan[w].pc = "remove"
  /\ object' = object \ {<<a, "uploads">>}
  /\ Step(w, a, "markInfected")
  /\ UNCHANGED <<case, values, row, upload, message, received, request, sweep,
                 faults, moves, astray, again>>

(* A slip: the row is not told where the file went.                        *)
MarkScannedInPlace(w) ==
  LET a == scan[w].file IN
  /\ scan[w].pc \in {"markClean", "markInfected"}
  /\ row' = [row EXCEPT ![a].scanStatus = IF scan[w].pc = "markInfected" THEN "infected" ELSE "clean"]
  /\ Step(w, a, "acknowledge")
  /\ UNCHANGED <<case, values, object, upload, message, received, request,
                 sweep, faults, moves, astray, again>>

MarkClean(w) ==
  /\ scan[w].pc = "markClean"
  /\ row' = [row EXCEPT ![scan[w].file].scanStatus = "clean"]
  /\ UNCHANGED astray

MarkInfected(w) ==
  LET a == scan[w].file IN
  /\ scan[w].pc = "markInfected"
  /\ row' = [row EXCEPT ![a].scanStatus = "infected", ![a].storageKey = "quarantine"]
  /\ astray' = IF row[a].deleted \/ \E s \in Sweeper : a \in sweep[s].listed
                 THEN astray \cup {a} ELSE astray

(* UPDATE by id alone: whatever happened to the row since it was read.  A  *)
(* clean verdict leaves the key as it is.                                  *)
MarkAttachmentScanned(w) ==
  /\ MarkClean(w) \/ MarkInfected(w)
  /\ Step(w, scan[w].file, "acknowledge")
  /\ UNCHANGED <<case, values, object, upload, message, received, request,
                 sweep, faults, moves, again>>

(* attachment.scanned goes out, or is logged as lost, and SQS is told.     *)
ScanDone(w) ==
  /\ scan[w].pc = "acknowledge"
  /\ Acknowledge(w, scan[w].file)
  /\ UNCHANGED <<case, values, row, object, upload, received, request, sweep,
                 faults, moves, astray, again>>

(* Anything throws, or the worker dies: PostgreSQL forgets, S3 does not.   *)
ScanFails(w) ==
  LET a == scan[w].file IN
  /\ scan[w].pc # "free" /\ Fault
  /\ GiveUp(w, a)
  /\ astray' = IF scan[w].pc \in {"remove", "markInfected"} /\ row[a].storageKey = "uploads"
                 THEN astray \cup {a} ELSE astray
  /\ UNCHANGED <<case, values, row, object, upload, received, request, sweep, moves, again>>

ScanStep(w) ==
  \/ \E a \in Attachment : Receive(w, a)
  \/ ScanRead(w) \/ GetObjectBytes(w) \/ CopyToQuarantine(w) \/ RemoveOriginal(w)
  \/ MarkAttachmentScanned(w) \/ ScanDone(w)

----------------------------------------------------------------------------
(* The nightly redaction of cases past their retention window.             *)

(* findCasesEligibleForRedaction.                                          *)
Eligible == case.status = "ended" /\ ~case.retained /\ ~case.redacted

(* A slip: a case whose answers are gone already passes for redacted.      *)
FindUntouched(s) ==
  /\ sweep[s].pc = "free" /\ Eligible /\ case.legible /\ values = "personal"
  /\ sweep' = [sweep EXCEPT ![s].pc = "values"]
  /\ UNCHANGED <<case, values, row, object, upload, message, received, request,
                 scan, faults, moves, astray, again>>

(* redactCase returns before it writes anything when the pinned version or *)
(* its document is gone or fails the integrity check: no step of the model.*)
FindEligible(s) ==
  /\ sweep[s].pc = "free" /\ Eligible /\ case.legible
  /\ sweep' = [sweep EXCEPT ![s].pc = "values"]
  /\ UNCHANGED <<case, values, row, object, upload, message, received, request,
                 scan, faults, moves, astray, again>>

(* The tombstones are written to MongoDB, outside the transaction; then    *)
(* the confirmed files are listed, each with its key.                      *)
RedactValues(s) ==
  /\ sweep[s].pc = "values"
  /\ values' = "tombstones"
  /\ sweep' = [sweep EXCEPT ![s] = [pc |-> "files",
                 files |-> {<<a, row[a].storageKey>> : a \in ConfirmedAttachments},
                 listed |-> ConfirmedAttachments]]
  /\ UNCHANGED <<case, row, object, upload, message, received, request, scan,
                 faults, moves, astray, again>>

(* A slip: the store's errors are swallowed, as the delete route does.     *)
DeleteBestEffort(s) ==
  \E f \in sweep[s].files :
    /\ object' \in {object, object \ {f}}
    /\ sweep' = [sweep EXCEPT ![s].files = @ \ {f}]
    /\ UNCHANGED <<case, values, row, upload, message, received, request, scan,
                   faults, moves, astray, again>>

DeleteObject(s) ==
  \E f \in sweep[s].files :
    /\ object' = object \ {f}
    /\ sweep' = [sweep EXCEPT ![s].files = @ \ {f}]
    /\ UNCHANGED <<case, values, row, upload, message, received, request, scan,
                   faults, moves, astray, again>>

(* redactAttachment for every file listed, and markCaseRedacted.           *)
MarkCaseRedacted(s) ==
  /\ sweep[s].pc = "files" /\ sweep[s].files = {}
  /\ row' = [a \in Attachment |->
               IF a \in sweep[s].listed
                 THEN [row[a] EXCEPT !.deleted = TRUE, !.named = FALSE] ELSE row[a]]
  /\ case' = [case EXCEPT !.redacted = TRUE]
  /\ sweep' = [sweep EXCEPT ![s] = FreeSweep]
  /\ UNCHANGED <<values, object, upload, message, received, request, scan,
                 faults, moves, astray, again>>

(* The whole case is left for the next night.                              *)
SweepFails(s) ==
  /\ sweep[s].pc # "free" /\ Fault
  /\ sweep' = [sweep EXCEPT ![s] = FreeSweep]
  /\ UNCHANGED <<case, values, row, object, upload, message, received, request,
                 scan, moves, astray, again>>

SweepStep(s) ==
  FindEligible(s) \/ RedactValues(s) \/ DeleteObject(s) \/ MarkCaseRedacted(s)

----------------------------------------------------------------------------

ClientStep(c) ==
  \/ \E kind \in {"presign", "confirm", "delete"}, a \in Attachment : Read(c, kind, a)
  \/ Presign(c) \/ MarkAttachmentConfirmed(c) \/ PublishUploaded(c)
  \/ SoftDeleteAttachment(c) \/ DiscardObject(c)

CustodyNext ==
  \/ \E c \in Client : ClientStep(c)
  \/ \E a \in Attachment : Upload(a) \/ FormExpires(a) \/ Reappear(a)
  \/ CaseMoves
  \/ \E w \in Scanner : ScanStep(w) \/ ScanFails(w)
  \/ \E s \in Sweeper : SweepStep(s) \/ SweepFails(s)

(* A handler that started goes on, a message is polled for, the interval   *)
(* of a sweep comes round.  Nobody has to upload, submit or delete.        *)
CustodyFairness ==
  /\ \A c \in Client : WF_custodyVars(PublishUploaded(c))
  /\ \A w \in Scanner : WF_custodyVars(ScanStep(w))
  /\ \A s \in Sweeper : WF_custodyVars(SweepStep(s))

CustodySpec == CustodyInit /\ [][CustodyNext]_custodyVars /\ CustodyFairness

----------------------------------------------------------------------------

(* Every row, object, message and process is in a state the code knows.    *)
TypeOK ==
  /\ case \in Case /\ values \in {"personal", "tombstones"}
  /\ row \in [Attachment -> Row] /\ object \subseteq Attachment \X Place
  /\ {upload, astray, again} \subseteq SUBSET Attachment
  /\ message \in [Attachment ->
       {"none", "lost", "visible", "hidden", "done", "dead"}]
  /\ received \in [Attachment -> 0 .. MaxReceives]
  /\ request \in [Client -> [pc : {"free", "presign", "confirm", "publish", "delete", "discard"},
                             file : Attachment \cup {None}]]
  /\ scan \in [Scanner -> [pc : {"free", "read", "fetch", "copy", "remove", "markInfected",
                                 "markClean", "acknowledge"},
                           file : Attachment \cup {None}]]
  /\ sweep \in [Sweeper -> [pc : {"free", "values", "files"}, listed : SUBSET Attachment,
                            files : SUBSET (Attachment \X Place)]]
  /\ faults \in 0 .. MaxFaults /\ moves \in 0 .. MaxMoves

(* "The row must keep pointing at where the object actually lives": while  *)
(* a confirmed file is neither removed nor being redacted, its key finds   *)
(* it, through racing scanners, redeliveries and removals.  The exception  *)
(* is a scan whose move outlived its transaction.                          *)
KeyIsWhereTheFileIs ==
  \A a \in ConfirmedAttachments :
    \/ <<a, row[a].storageKey>> \in object
    \/ values = "tombstones" \/ a \in astray
    \/ \E w \in Scanner : scan[w] = [pc |-> "markInfected", file |-> a]

(* What a redacted case leaves in the store is exactly what redactCase     *)
(* does not look for: uploads never confirmed, files the requester removed *)
(* whose deletion failed or came first, files a scan moved behind the      *)
(* sweep's back, and quarantined files that were posted again under their  *)
(* original key.  Its answers are tombstones and no confirmed file is live.*)
RedactionLeavesOnlyStrays ==
  case.redacted =>
    /\ values = "tombstones" /\ ConfirmedAttachments = {}
    /\ \A f \in object :
         LET a == f[1] IN
         \/ ~row[a].confirmed \/ row[a].named
         \/ a \in astray \/ (a \in again /\ row[a].storageKey = "quarantine")
         \/ \E w \in Scanner : scan[w].file = a /\ scan[w].pc \in {"remove", "markInfected"}

(* A file whose message ended in the dead letter queue and that nobody has *)
(* a verdict on met a failure at every one of its deliveries - or a single *)
(* one, after the scanner had moved it: then no redelivery can find it.    *)
DeadLettersAreExplained ==
  \A a \in ConfirmedAttachments :
    message[a] = "dead" /\ row[a].scanStatus = "pending" =>
      \/ faults >= MaxReceives \/ a \in astray \/ values = "tombstones"
      \/ \E w \in Scanner : scan[w].file = a

(* A file the API hands out a link to was confirmed, is the file that was  *)
(* found clean, and lies under the key the link is signed for, until       *)
(* redaction has begun - unless it was posted again after the confirmation:*)
(* then the verdict is about a file that may have been replaced, and two   *)
(* scanners may have come to different ones.                               *)
LinksLeadToTheFile ==
  \A a \in Attachment :
    Downloadable(a) =>
      /\ row[a].confirmed
      /\ \/ a \in again
         \/ /\ ~row[a].infected
            /\ values = "personal" => <<a, row[a].storageKey>> \in object

(* What custody of a case's files comes down to, and what the others rest  *)
(* on: everything is of its kind, keys and links lead to files, and no     *)
(* message is given up on without a failure.                               *)
CustodyInv ==
  TypeOK /\ KeyIsWhereTheFileIs /\ DeadLettersAreExplained /\ LinksLeadToTheFile

(* Every confirmed file gets its verdict, unless it is removed, its event  *)
(* was lost after the commit, or its message was given up on.              *)
ConfirmedFilesAreScanned ==
  \A a \in Attachment :
    row[a].confirmed ~>
      (row[a].scanStatus # "pending" \/ row[a].deleted \/ message[a] \in {"lost", "dead"})

(* No case stays eligible for ever: whatever failed half-way is taken up   *)
(* by a later sweep and finished.  The exception is a case whose pinned    *)
(* document cannot be verified: every sweep skips it, for good.            *)
EligibleCasesGetRedacted == ~<>[](Eligible /\ case.legible)
=============================================================================
