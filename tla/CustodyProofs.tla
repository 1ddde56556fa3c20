----------------------------- MODULE CustodyProofs -----------------------------
(***************************************************************************)
(* Theorems about AttachmentCustody, for any files, any number of requests *)
(* in flight, scanners and sweeps, and any number of failures.             *)
(***************************************************************************)
EXTENDS AttachmentCustody, FiniteSetTheorems, TLAPS

(* A scanner has begun to move the file, or has moved it.                  *)
Moving(a) == \E w \in Scanner : scan[w].file = a /\ scan[w].pc \in {"remove", "markInfected"}

(* What may lie in the store beside the key of its row.                    *)
Stray(a) ==
  \/ a \in astray
  \/ row[a].storageKey = "uploads" /\ Moving(a)
  \/ row[a].storageKey = "quarantine" /\ a \in again

MarkedBySomeone(a) == \E w \in Scanner : scan[w].file = a /\ scan[w].pc = "markInfected"

(* The case is over and nobody can touch its files but scanners and sweeps.*)
Closed ==
  case.status = "ended" /\ upload = {} /\ \A c \in Client : request[c].pc = "free"

RowInOrder(a) ==
  /\ row[a].confirmed => row[a].there
  /\ ~row[a].confirmed => /\ row[a].storageKey = "uploads" /\ row[a].scanStatus = "pending"
                          /\ message[a] = "none" /\ received[a] = 0
                          /\ <<a, "quarantine">> \notin object
  /\ row[a].storageKey = "quarantine" => row[a].scanStatus # "pending"
  /\ row[a].storageKey = "quarantine" /\ a \notin again =>
       row[a].infected /\ row[a].scanStatus = "infected" /\ <<a, "uploads">> \notin object
  /\ row[a].scanStatus = "clean" => ~row[a].infected \/ a \in again
  /\ ~row[a].named => row[a].deleted /\ row[a].confirmed /\ a \notin upload
  /\ ~row[a].there => a \notin upload /\ <<a, "uploads">> \notin object
  /\ a \in astray => row[a].confirmed /\ (row[a].infected \/ a \in again)
  /\ message[a] = "dead" => received[a] >= MaxReceives

(* What a request still holds to be true of what it read.                  *)
RequestInOrder(c) ==
  LET a == request[c].file IN
  /\ request[c].pc # "free" => a \in Attachment
  /\ request[c].pc = "presign" =>
       ~row[a].there /\ \A d \in Client \ {c} : request[d].file # a
  /\ request[c].pc = "confirm" =>
       /\ row[a].there
       /\ ~row[a].deleted /\ ~row[a].confirmed => <<a, "uploads">> \in object
  /\ request[c].pc = "publish" => row[a].confirmed
  /\ request[c].pc = "discard" => row[a].deleted
  /\ request[c].pc = "delete" => row[a].there

(* What a scanner knows of the file it works on.                           *)
ScanInOrder(w) ==
  LET a == scan[w].file IN
  /\ scan[w].pc = "free" <=> a = None
  /\ scan[w].pc # "free" => a \in Attachment /\ row[a].confirmed
  /\ scan[w].pc \in {"copy", "remove", "markInfected"} => row[a].infected \/ a \in again
  /\ scan[w].pc = "markClean" => ~row[a].infected \/ a \in again
  /\ scan[w].pc = "acknowledge" => row[a].scanStatus # "pending"
  /\ scan[w].pc = "markInfected" => <<a, "uploads">> \notin object \/ a \in again
  /\ scan[w].pc \in {"remove", "markInfected"} /\ ~row[a].deleted /\ values = "personal" =>
       <<a, "quarantine">> \in object

(* What a sweep has listed is all it has to delete, strays apart.          *)
SweepInOrder(s) ==
  /\ sweep[s].pc # "free" => Closed
  /\ sweep[s].pc # "files" => sweep[s].listed = {} /\ sweep[s].files = {}
  /\ sweep[s].pc = "files" => values = "tombstones" /\ ConfirmedAttachments \subseteq sweep[s].listed
  /\ \A a \in sweep[s].listed : row[a].confirmed
  /\ \A f \in sweep[s].files : f[1] \in sweep[s].listed
  /\ \A a \in sweep[s].listed : \A p \in Place :
       <<a, p>> \in object => <<a, p>> \in sweep[s].files \/ Stray(a)

CaseInOrder ==
  /\ ~case.retained \/ values = "tombstones" \/ case.redacted => Closed
  /\ case.redacted => values = "tombstones" /\ ConfirmedAttachments = {}

(* Where the objects of a file are, while its row is live and afterwards.  *)
FileInOrder(a) ==
  /\ a \in ConfirmedAttachments /\ values = "personal" =>
       \/ <<a, row[a].storageKey>> \in object
       \/ a \in astray
       \/ row[a].storageKey = "uploads" /\ MarkedBySomeone(a)
  /\ a \in ConfirmedAttachments =>
       \A p \in Place : <<a, p>> \in object => p = row[a].storageKey \/ Stray(a)
  /\ ~row[a].named /\ row[a].confirmed =>
       \A p \in Place : <<a, p>> \in object => Stray(a)

(* Every delivery of a file without a verdict failed, or is being worked on.*)
At(a) == {w \in Scanner : scan[w].file = a}

DeliveryInOrder(a) ==
  a \in ConfirmedAttachments /\ row[a].scanStatus = "pending"
    /\ values = "personal" /\ a \notin astray =>
      MarkedBySomeone(a) \/ received[a] <= faults + Cardinality(At(a))

CustodyIInv ==
  /\ TypeOK /\ CaseInOrder
  /\ \A a \in Attachment : RowInOrder(a) /\ FileInOrder(a) /\ DeliveryInOrder(a)
  /\ \A c \in Client : RequestInOrder(c)
  /\ \A w \in Scanner : ScanInOrder(w)
  /\ \A s \in Sweeper : SweepInOrder(s)

-----------------------------------------------------------------------------
(* What follows from the invariant.                                        *)

LEMMA CountsAreNumbers ==
  ASSUME NEW a PROVE IsFiniteSet(At(a)) /\ Cardinality(At(a)) \in Nat
<1>1. IsFiniteSet(At(a))
  BY CustodyAssumption, FS_Subset DEF At
<1> QED
  BY <1>1, FS_CardinalityType

(* While the case is open nothing of it is redacted and no sweep is at work.*)
Open ==
  /\ case.retained /\ ~case.redacted /\ values = "personal"
  /\ \A s \in Sweeper : sweep[s].pc = "free" /\ sweep[s].listed = {} /\ sweep[s].files = {}

LEMMA NotClosedIsOpen == CustodyIInv /\ ~Closed => Open
BY DEF CustodyIInv, CaseInOrder, SweepInOrder, Open, TypeOK, Case

LEMMA OpenIsInOrder == Open' => CaseInOrder' /\ \A s \in Sweeper : SweepInOrder(s)'
BY DEF Open, CaseInOrder, SweepInOrder

LEMMA InitInOrder == CustodyInit => CustodyIInv
<1> SUFFICES ASSUME CustodyInit PROVE CustodyIInv
  OBVIOUS
<1>1. TypeOK
  <2>1. [there |-> FALSE, confirmed |-> FALSE, deleted |-> FALSE, named |-> TRUE,
         infected |-> FALSE, scanStatus |-> "pending", storageKey |-> "uploads"] \in Row
    BY DEF Row, Place
  <2>2. row \in [Attachment -> Row]
    BY <2>1 DEF CustodyInit
  <2>3. /\ case \in Case /\ values \in {"personal", "tombstones"}
        /\ received \in [Attachment -> 0 .. MaxReceives]
        /\ faults \in 0 .. MaxFaults /\ moves \in 0 .. MaxMoves
    BY CustodyAssumption DEF CustodyInit, Case
  <2> QED
    BY <2>2, <2>3 DEF CustodyInit, TypeOK, FreeRequest, FreeScan, FreeSweep
<1>2. Open
  BY DEF CustodyInit, Open, FreeSweep
<1>3. CaseInOrder /\ \A s \in Sweeper : SweepInOrder(s)
  BY <1>2 DEF Open, CaseInOrder, SweepInOrder
<1>4. \A a \in Attachment : RowInOrder(a) /\ FileInOrder(a) /\ DeliveryInOrder(a)
  BY DEF CustodyInit, RowInOrder, FileInOrder, DeliveryInOrder, ConfirmedAttachments, Live
<1>5. \A c \in Client : RequestInOrder(c)
  BY DEF CustodyInit, RequestInOrder, FreeRequest
<1>6. \A w \in Scanner : ScanInOrder(w)
  BY DEF CustodyInit, ScanInOrder, FreeScan
<1> QED
  BY <1>1, <1>3, <1>4, <1>5, <1>6 DEF CustodyIInv


LEMMA OpenStaysInOrder ==
  ASSUME CustodyIInv, ~Closed, UNCHANGED <<case, values, sweep>>
  PROVE  CaseInOrder' /\ \A s \in Sweeper : SweepInOrder(s)'
<1>1. Open'
  BY NotClosedIsOpen DEF Open
<1> QED
  BY <1>1, OpenIsInOrder

(* A step leaves a file alone: its row, its objects, its message, and the  *)
(* scanners that work on it.                                               *)
SameFile(b) ==
  /\ row'[b] = row[b] /\ (b \in upload' <=> b \in upload) /\ (b \in again' <=> b \in again)
  /\ \A p \in Place : <<b, p>> \in object' <=> <<b, p>> \in object

SameRow(b) ==
  /\ SameFile(b) /\ (b \in astray' <=> b \in astray)
  /\ message'[b] = message[b] /\ received'[b] = received[b]

SameScanners(b) ==
  \A w \in Scanner : /\ scan'[w].file = b <=> scan[w].file = b
                     /\ scan[w].file = b => scan'[w].pc = scan[w].pc

Untouched(b) == SameRow(b) /\ SameScanners(b)

LEMMA UntouchedStaysInOrder ==
  ASSUME CustodyIInv, NEW b \in Attachment, Untouched(b),
         values' = values, faults' \in Nat, faults' >= faults
  PROVE  RowInOrder(b)' /\ FileInOrder(b)' /\ DeliveryInOrder(b)'
<1>1. RowInOrder(b) /\ FileInOrder(b) /\ DeliveryInOrder(b)
  BY DEF CustodyIInv
<1>2. "uploads" \in Place /\ "quarantine" \in Place /\ row[b].storageKey \in Place
  BY DEF Place, CustodyIInv, TypeOK, Row
<1>3. RowInOrder(b)'
  BY <1>1, <1>2 DEF RowInOrder, Untouched, SameRow, SameFile
<1>4. /\ (b \in ConfirmedAttachments)' <=> b \in ConfirmedAttachments
      /\ Moving(b)' <=> Moving(b)
      /\ MarkedBySomeone(b)' <=> MarkedBySomeone(b)
      /\ At(b)' = At(b)
  BY DEF ConfirmedAttachments, Live, Moving, MarkedBySomeone, At, Untouched, SameRow, SameFile, SameScanners
<1>5. Stray(b)' <=> Stray(b)
  BY <1>4 DEF Stray, Untouched, SameRow, SameFile
<1>6. FileInOrder(b)'
  BY <1>1, <1>2, <1>4, <1>5 DEF FileInOrder, Untouched, SameRow, SameFile
<1>7. faults \in Nat /\ received[b] \in Nat /\ Cardinality(At(b)) \in Nat
  BY CustodyAssumption, CountsAreNumbers DEF CustodyIInv, TypeOK
<1>8. received[b] <= faults + Cardinality(At(b)) => received[b] <= faults' + Cardinality(At(b))
  BY <1>7
<1>9. DeliveryInOrder(b)'
  BY <1>1, <1>4, <1>8 DEF DeliveryInOrder, Untouched, SameRow, SameFile
<1> QED
  BY <1>3, <1>6, <1>9

LEMMA UntouchedScan ==
  ASSUME CustodyIInv, NEW w \in Scanner, values' = values, scan'[w] = scan[w],
         scan[w].pc # "free" => SameFile(scan[w].file)
  PROVE  ScanInOrder(w)'
<1>1. ScanInOrder(w) /\ "uploads" \in Place /\ "quarantine" \in Place
  BY DEF CustodyIInv, Place
<1> QED
  BY <1>1 DEF ScanInOrder, SameRow, SameFile

LEMMA SameCounts == ASSUME UNCHANGED scan, NEW a PROVE At(a)' = At(a)
BY DEF At

LEMMA SameFilesStayInOrder ==
  ASSUME CustodyIInv,
         UNCHANGED <<values, row, object, upload, message, received, scan, faults, astray, again>>
  PROVE  /\ \A a \in Attachment : RowInOrder(a)' /\ FileInOrder(a)' /\ DeliveryInOrder(a)'
         /\ \A w \in Scanner : ScanInOrder(w)'
<1>1. \A a : Untouched(a) /\ SameRow(a) /\ SameFile(a)
  BY DEF Untouched, SameRow, SameFile, SameScanners
<1>2. faults' \in Nat /\ faults' >= faults
  BY CustodyAssumption DEF CustodyIInv, TypeOK
<1> QED
  BY <1>1, <1>2, UntouchedStaysInOrder, UntouchedScan

-----------------------------------------------------------------------------
(* The requests.                                                           *)

LEMMA ReadInOrder ==
  ASSUME CustodyIInv, NEW c \in Client, NEW kind \in {"presign", "confirm", "delete"},
         NEW a \in Attachment, Read(c, kind, a)
  PROVE  CustodyIInv'
<1> DEFINE r == [pc |-> kind, file |-> a]
<1>1. ~Closed
  BY DEF Read, Accepts, Editable, Closed
<1>2. CaseInOrder' /\ \A s \in Sweeper : SweepInOrder(s)'
  BY <1>1, OpenStaysInOrder DEF Read
<1>3. TypeOK'
  BY DEF CustodyIInv, TypeOK, Read
<1>4. /\ request[c].pc = "free" /\ request'[c] = r
      /\ \A d \in Client \ {c} : request'[d] = request[d]
      /\ kind = "presign" => ~row[a].there /\ \A d \in Client : request[d].file # a
      /\ kind = "confirm" => Live(a) /\ ~row[a].confirmed /\ <<a, row[a].storageKey>> \in object
      /\ kind = "delete" => Live(a)
  BY DEF CustodyIInv, TypeOK, Read, Accepts
<1>5. \A d \in Client : RequestInOrder(d)'
  <2> SUFFICES ASSUME NEW d \in Client PROVE RequestInOrder(d)'
    OBVIOUS
  <2>0. RequestInOrder(d) /\ RowInOrder(a)
    BY DEF CustodyIInv
  <2>1. CASE d = c
    BY <1>4, <2>0, <2>1 DEF RequestInOrder, RowInOrder, Read, Live
  <2>2. CASE d # c
    <3>1. request[d].pc = "presign" => request[d].file # a
      BY <1>4, <2>0 DEF RequestInOrder, Live
    <3> QED
      BY <1>4, <2>0, <2>2 DEF RequestInOrder, Read, Live
  <2> QED
    BY <2>1, <2>2
<1> QED
  BY <1>2, <1>3, <1>5, SameFilesStayInOrder DEF CustodyIInv, Read


(* A step changes the row of one file at most, and one request.            *)
OneRow(a, r) ==
  /\ row' \in [Attachment -> Row] /\ row'[a] = r
  /\ \A b \in Attachment \ {a} : row'[b] = row[b]

OneRequest(c, r) == request'[c] = r /\ \A d \in Client \ {c} : request'[d] = request[d]

LEMMA RowChanges ==
  ASSUME TypeOK, NEW a \in Attachment, NEW r \in Row, row' = [row EXCEPT ![a] = r]
  PROVE  OneRow(a, r)
BY DEF OneRow, TypeOK

LEMMA RequestChanges ==
  ASSUME TypeOK, NEW c \in Client, NEW r, request' = [request EXCEPT ![c] = r]
  PROVE  OneRequest(c, r)
BY DEF OneRequest, TypeOK

LEMMA OtherRequestStays ==
  ASSUME CustodyIInv, NEW c \in Client, NEW r, OneRequest(c, r), r.file \in {request[c].file, None},
         NEW d \in Client, d # c, request[d].pc # "free" => SameFile(request[d].file)
  PROVE  RequestInOrder(d)'
<1>1. RequestInOrder(d) /\ request'[d] = request[d] /\ "uploads" \in Place
  BY DEF CustodyIInv, OneRequest, Place
<1>2. \A e \in Client : request'[e].file \in {request[e].file, None}
  BY DEF OneRequest
<1> QED
  BY <1>1, <1>2, CustodyAssumption DEF RequestInOrder, SameRow, SameFile

LEMMA BusyIsNotClosed ==
  ASSUME CustodyIInv, NEW c \in Client, request[c].pc # "free"
  PROVE  /\ ~Closed /\ Open
         /\ request[c].file \in Attachment /\ RequestInOrder(c)
         /\ RowInOrder(request[c].file)
<1>1. ~Closed /\ Open
  BY NotClosedIsOpen DEF Closed
<1> QED
  BY <1>1 DEF CustodyIInv, RequestInOrder

LEMMA PresignInOrder ==
  ASSUME CustodyIInv, NEW c \in Client, Presign(c)
  PROVE  CustodyIInv'
<1>0. PICK a \in Attachment : a = request[c].file
  BY BusyIsNotClosed DEF Presign
<1> DEFINE r == [row[a] EXCEPT !.there = TRUE]
<1>1. request[c].pc = "presign" /\ row[a] \in Row /\ RowInOrder(a)
  BY <1>0 DEF Presign, CustodyIInv, TypeOK
<1>2. ~row[a].there /\ \A d \in Client \ {c} : request[d].file # a
  BY <1>0, <1>1 DEF CustodyIInv, RequestInOrder
<1>3. /\ ~row[a].confirmed /\ <<a, "uploads">> \notin object
  BY <1>1, <1>2 DEF RowInOrder
<1>4. r \in Row /\ r.there /\ r.confirmed = row[a].confirmed /\ r.deleted = row[a].deleted
      /\ r.named = row[a].named /\ r.infected = row[a].infected
      /\ r.scanStatus = row[a].scanStatus /\ r.storageKey = row[a].storageKey
  BY <1>1 DEF Row
<1>5. row' = [row EXCEPT ![a] = r]
  BY <1>0, <1>1 DEF Presign, CustodyIInv, TypeOK
<1> HIDE DEF r
<1>6. OneRow(a, r) /\ OneRequest(c, FreeRequest)
  BY <1>4, <1>5, RowChanges, RequestChanges DEF Presign, CustodyIInv
<1>7. TypeOK'
  BY <1>0, <1>6 DEF OneRow, CustodyIInv, TypeOK, Presign, FreeRequest
<1>8. CaseInOrder' /\ \A s \in Sweeper : SweepInOrder(s)'
  BY <1>1, BusyIsNotClosed, OpenStaysInOrder DEF Presign
<1>9. \A b \in Attachment \ {a} : Untouched(b)
  BY <1>0, <1>6 DEF Untouched, SameRow, SameFile, SameScanners, Presign, OneRow
<1>10. RowInOrder(a)' /\ FileInOrder(a)' /\ DeliveryInOrder(a)'
  BY <1>1, <1>3, <1>4, <1>6
     DEF OneRow, RowInOrder, FileInOrder, DeliveryInOrder, ConfirmedAttachments, Live, Presign
<1>11. faults' \in Nat /\ faults' >= faults /\ values' = values
  BY CustodyAssumption DEF CustodyIInv, TypeOK, Presign
<1>12. \A b \in Attachment : RowInOrder(b)' /\ FileInOrder(b)' /\ DeliveryInOrder(b)'
  BY <1>9, <1>10, <1>11, UntouchedStaysInOrder
<1>13. \A w \in Scanner : ScanInOrder(w)'
  <2> SUFFICES ASSUME NEW w \in Scanner PROVE ScanInOrder(w)'
    OBVIOUS
  <2>1. scan[w].pc # "free" => scan[w].file \in Attachment \ {a}
    BY <1>3 DEF CustodyIInv, ScanInOrder
  <2> QED
    BY <2>1, <1>9, <1>11, UntouchedScan DEF Untouched, SameRow, Presign
<1>14. \A d \in Client : RequestInOrder(d)'
  <2> SUFFICES ASSUME NEW d \in Client PROVE RequestInOrder(d)'
    OBVIOUS
  <2>1. CASE d = c
    BY <1>6, <2>1 DEF RequestInOrder, OneRequest, FreeRequest
  <2>2. CASE d # c
    <3>1. RequestInOrder(d) /\ request'[d] = request[d] /\ request[d].file # a
      BY <1>2, <1>6, <2>2 DEF CustodyIInv, OneRequest
    <3>2. request[d].pc # "free" => SameFile(request[d].file)
      BY <1>9, <3>1 DEF RequestInOrder, Untouched, SameRow
    <3> QED
      BY <1>6, <2>2, <3>2, OtherRequestStays DEF FreeRequest
  <2> QED
    BY <2>1, <2>2
<1> QED
  BY <1>7, <1>8, <1>12, <1>13, <1>14 DEF CustodyIInv


(* A post may replace a file that was confirmed, scanned, removed or moved *)
(* aside: it is the original key that is written, and again that tells.    *)
LEMMA UploadInOrder ==
  ASSUME CustodyIInv, NEW a \in Attachment, Upload(a)
  PROVE  CustodyIInv'
<1>1. ~Closed /\ RowInOrder(a) /\ FileInOrder(a) /\ DeliveryInOrder(a) /\ row[a] \in Row
  BY DEF Upload, Closed, CustodyIInv, TypeOK
<1>2. row[a].there /\ row[a].named
  BY <1>1 DEF RowInOrder, Upload, Row
<1>3. PICK infected \in BOOLEAN : row' = [row EXCEPT ![a].infected = infected]
  BY DEF Upload
<1> DEFINE r == [row[a] EXCEPT !.infected = infected]
<1>4. /\ r \in Row /\ r.there = row[a].there /\ r.confirmed = row[a].confirmed
      /\ r.deleted = row[a].deleted /\ r.named = row[a].named
      /\ r.scanStatus = row[a].scanStatus /\ r.storageKey = row[a].storageKey
  BY <1>1 DEF Row
<1>5. row' = [row EXCEPT ![a] = r]
  BY <1>3 DEF CustodyIInv, TypeOK
<1> HIDE DEF r
<1>6. OneRow(a, r)
  BY <1>4, <1>5, RowChanges DEF CustodyIInv
<1>7. /\ object' = object \cup {<<a, "uploads">>}
      /\ again' = IF row[a].confirmed THEN again \cup {a} ELSE again
      /\ UNCHANGED <<case, values, upload, message, received, request, scan, sweep,
                     faults, moves, astray>>
  BY DEF Upload
<1>8. TypeOK'
  <2>1. {<<a, "uploads">>} \subseteq Attachment \X Place
    BY DEF Place
  <2> QED
    BY <1>6, <1>7, <2>1 DEF OneRow, CustodyIInv, TypeOK
<1>9. CaseInOrder' /\ \A s \in Sweeper : SweepInOrder(s)'
  BY <1>1, <1>7, OpenStaysInOrder
<1>10. \A b \in Attachment \ {a} : Untouched(b)
  BY <1>6, <1>7 DEF Untouched, SameRow, SameFile, SameScanners, OneRow
<1>11. faults' \in Nat /\ faults' >= faults /\ values' = values
  BY <1>7, CustodyAssumption DEF CustodyIInv, TypeOK
<1>12. RowInOrder(a)'
  BY <1>1, <1>2, <1>4, <1>6, <1>7 DEF RowInOrder, OneRow
<1>13. /\ (a \in ConfirmedAttachments)' <=> a \in ConfirmedAttachments
       /\ MarkedBySomeone(a)' <=> MarkedBySomeone(a)
       /\ Stray(a) => Stray(a)'
       /\ At(a)' = At(a)
  BY <1>4, <1>6, <1>7 DEF OneRow, ConfirmedAttachments, Live, MarkedBySomeone, Stray, Moving, At
<1>14. FileInOrder(a)'
  <2>1. ASSUME a \in ConfirmedAttachments PROVE row[a].storageKey = "uploads" \/ Stray(a)'
    BY <1>1, <1>4, <1>6, <1>7, <2>1 DEF ConfirmedAttachments, Stray, OneRow, Row, Place
  <2> QED
    BY <1>1, <1>2, <1>4, <1>6, <1>7, <1>13, <2>1 DEF FileInOrder, OneRow
<1>15. DeliveryInOrder(a)'
  BY <1>1, <1>4, <1>6, <1>7, <1>13 DEF DeliveryInOrder, OneRow
<1>16. \A b \in Attachment : RowInOrder(b)' /\ FileInOrder(b)' /\ DeliveryInOrder(b)'
  BY <1>10, <1>11, <1>12, <1>14, <1>15, UntouchedStaysInOrder
<1>17. ASSUME NEW w \in Scanner PROVE ScanInOrder(w)'
  <2>1. ScanInOrder(w)
    BY DEF CustodyIInv
  <2>2. CASE scan[w].file = a
    BY <1>4, <1>6, <1>7, <2>1, <2>2, CustodyAssumption DEF ScanInOrder, OneRow
  <2>3. CASE scan[w].file # a
    BY <2>1, <2>3, <1>7, <1>10, <1>11, UntouchedScan DEF Untouched, SameRow, ScanInOrder
  <2> QED
    BY <2>2, <2>3
<1>18. ASSUME NEW d \in Client PROVE RequestInOrder(d)'
  <2>1. RequestInOrder(d)
    BY DEF CustodyIInv
  <2>2. CASE request[d].file = a
    BY <1>4, <1>6, <1>7, <2>1, <2>2 DEF RequestInOrder, OneRow
  <2>3. CASE request[d].file # a
    BY <1>6, <1>7, <2>1, <2>3 DEF RequestInOrder, OneRow
  <2> QED
    BY <2>2, <2>3
<1> QED
  BY <1>8, <1>9, <1>16, <1>17, <1>18 DEF CustodyIInv

LEMMA FormExpiresInOrder ==
  ASSUME CustodyIInv, NEW a \in Attachment, FormExpires(a)
  PROVE  CustodyIInv'
<1>1. /\ ~Closed /\ upload' = upload \ {a}
      /\ UNCHANGED <<case, values, row, object, message, received, request, scan, sweep,
                     faults, moves, astray, again>>
  BY DEF FormExpires, Closed
<1>2. TypeOK'
  BY <1>1 DEF CustodyIInv, TypeOK
<1>3. CaseInOrder' /\ \A s \in Sweeper : SweepInOrder(s)'
  BY <1>1, OpenStaysInOrder
<1>4. ASSUME NEW b \in Attachment PROVE RowInOrder(b)' /\ FileInOrder(b)' /\ DeliveryInOrder(b)'
  <2>1. RowInOrder(b) /\ FileInOrder(b) /\ DeliveryInOrder(b)
    BY DEF CustodyIInv
  <2>2. /\ ConfirmedAttachments' = ConfirmedAttachments /\ (Stray(b)' <=> Stray(b))
        /\ (MarkedBySomeone(b)' <=> MarkedBySomeone(b)) /\ At(b)' = At(b)
    BY <1>1 DEF ConfirmedAttachments, Live, Stray, Moving, MarkedBySomeone, At
  <2>3. RowInOrder(b)'
    BY <1>1, <2>1 DEF RowInOrder
  <2> QED
    BY <1>1, <2>1, <2>2, <2>3 DEF FileInOrder, DeliveryInOrder
<1>5. \A w \in Scanner : ScanInOrder(w)'
  BY <1>1 DEF CustodyIInv, ScanInOrder
<1>6. \A d \in Client : RequestInOrder(d)'
  BY <1>1 DEF CustodyIInv, RequestInOrder
<1> QED
  BY <1>2, <1>3, <1>4, <1>5, <1>6 DEF CustodyIInv

LEMMA MarkAttachmentConfirmedInOrder ==
  ASSUME CustodyIInv, NEW c \in Client, MarkAttachmentConfirmed(c)
  PROVE  CustodyIInv'
<1>0. PICK a \in Attachment : a = request[c].file
  BY BusyIsNotClosed DEF MarkAttachmentConfirmed
<1> DEFINE r == [row[a] EXCEPT !.confirmed = TRUE]
           q == [request[c] EXCEPT !.pc = "publish"]
<1>1. /\ request[c].pc = "confirm" /\ row[a] \in Row /\ RowInOrder(a) /\ FileInOrder(a)
      /\ DeliveryInOrder(a) /\ RequestInOrder(c) /\ Open
  BY <1>0, BusyIsNotClosed DEF MarkAttachmentConfirmed, CustodyIInv, TypeOK
<1>2. /\ row[a].there
      /\ ~row[a].deleted /\ ~row[a].confirmed => <<a, "uploads">> \in object
  BY <1>0, <1>1 DEF RequestInOrder
<1>3. r \in Row /\ r.confirmed /\ r.there = row[a].there /\ r.deleted = row[a].deleted
      /\ r.named = row[a].named /\ r.infected = row[a].infected
      /\ r.scanStatus = row[a].scanStatus /\ r.storageKey = row[a].storageKey
  BY <1>1 DEF Row
<1>4. q.pc = "publish" /\ q.file = a
      /\ q \in [pc : {"free", "presign", "confirm", "publish", "delete", "discard"},
                file : Attachment \cup {None}]
  BY <1>0, <1>1 DEF CustodyIInv, TypeOK
<1>5. row' = [row EXCEPT ![a] = r] /\ request' = [request EXCEPT ![c] = q]
  BY <1>0, <1>1 DEF MarkAttachmentConfirmed, CustodyIInv, TypeOK
<1> HIDE DEF r, q
<1>6. OneRow(a, r) /\ OneRequest(c, q)
  BY <1>3, <1>5, RowChanges, RequestChanges DEF CustodyIInv
<1>7. TypeOK'
  BY <1>4, <1>5, <1>6 DEF OneRow, CustodyIInv, TypeOK, MarkAttachmentConfirmed
<1>8. CaseInOrder' /\ \A s \in Sweeper : SweepInOrder(s)'
  BY <1>1, BusyIsNotClosed, OpenStaysInOrder DEF MarkAttachmentConfirmed
<1>9. \A b \in Attachment \ {a} : Untouched(b)
  BY <1>6 DEF Untouched, SameRow, SameFile, SameScanners, MarkAttachmentConfirmed, OneRow
<1>10. faults' \in Nat /\ faults' >= faults /\ values' = values
  BY CustodyAssumption DEF CustodyIInv, TypeOK, MarkAttachmentConfirmed
<1>11. RowInOrder(a)' /\ FileInOrder(a)' /\ DeliveryInOrder(a)'
  <2>1. CASE row[a].confirmed
    <3>1. r = row[a]
      BY <1>1, <2>1 DEF r, Row
    <3>2. Untouched(a)
      BY <3>1, <1>6 DEF Untouched, SameRow, SameFile, SameScanners, MarkAttachmentConfirmed, OneRow
    <3> QED
      BY <3>2, <1>10, UntouchedStaysInOrder
  <2>2. CASE ~row[a].confirmed
    <3>1. RowInOrder(a)'
      BY <1>1, <1>2, <1>3, <1>6, <2>2 DEF RowInOrder, OneRow, MarkAttachmentConfirmed
    <3>2. row[a].storageKey = "uploads" /\ <<a, "quarantine">> \notin object /\ received[a] = 0
      BY <1>1, <2>2 DEF RowInOrder
    <3>3. (a \in ConfirmedAttachments)' <=> ~row[a].deleted
      BY <1>2, <1>3, <1>6 DEF OneRow, ConfirmedAttachments, Live
    <3>4. row[a].named
      BY <1>1, <2>2 DEF RowInOrder, Row
    <3>5. FileInOrder(a)'
      <4>1. row'[a].storageKey = "uploads" /\ row'[a].named /\ object' = object
        BY <1>3, <1>6, <3>2, <3>4 DEF OneRow, MarkAttachmentConfirmed
      <4>2. \A p \in Place : <<a, p>> \in object => p = "uploads"
        BY <3>2 DEF Place
      <4> QED
        BY <4>1, <4>2, <3>3, <1>2, <2>2 DEF FileInOrder
    <3>6. Cardinality(At(a)') \in Nat /\ faults \in Nat
      BY SameCounts, CountsAreNumbers, CustodyAssumption DEF MarkAttachmentConfirmed, CustodyIInv, TypeOK
    <3>7. 0 <= faults + Cardinality(At(a)')
      BY <3>6
    <3>8. DeliveryInOrder(a)'
      BY <3>2, <3>7 DEF DeliveryInOrder, MarkAttachmentConfirmed
    <3> QED
      BY <3>1, <3>5, <3>8
  <2> QED
    BY <2>1, <2>2
<1>12. \A b \in Attachment : RowInOrder(b)' /\ FileInOrder(b)' /\ DeliveryInOrder(b)'
  BY <1>9, <1>10, <1>11, UntouchedStaysInOrder
<1>13. \A w \in Scanner : ScanInOrder(w)'
  <2> SUFFICES ASSUME NEW w \in Scanner PROVE ScanInOrder(w)'
    OBVIOUS
  <2>1. ScanInOrder(w)
    BY DEF CustodyIInv
  <2>2. CASE scan[w].file = a
    BY <2>1, <2>2, <1>3, <1>6 DEF ScanInOrder, OneRow, MarkAttachmentConfirmed
  <2>3. CASE scan[w].file # a
    BY <2>1, <2>3, <1>9, <1>10, UntouchedScan DEF Untouched, SameRow, ScanInOrder, MarkAttachmentConfirmed
  <2> QED
    BY <2>2, <2>3
<1>14. \A d \in Client : RequestInOrder(d)'
  <2> SUFFICES ASSUME NEW d \in Client PROVE RequestInOrder(d)'
    OBVIOUS
  <2>0. RequestInOrder(d) /\ \A e \in Client : request'[e].file = request[e].file
    BY <1>0, <1>4, <1>6 DEF CustodyIInv, OneRequest
  <2>1. CASE d = c
    BY <1>3, <1>4, <1>6, <2>1 DEF RequestInOrder, OneRequest, OneRow
  <2>2. CASE d # c /\ request[d].file = a
    BY <1>3, <1>6, <2>0, <2>2 DEF RequestInOrder, OneRequest, OneRow, MarkAttachmentConfirmed
  <2>3. CASE d # c /\ request[d].file # a
    <3>1. request[d].pc # "free" => SameFile(request[d].file)
      BY <1>9, <2>0, <2>3 DEF RequestInOrder, Untouched, SameRow
    <3> QED
      BY <1>0, <1>4, <1>6, <2>3, <3>1, OtherRequestStays
  <2> QED
    BY <2>1, <2>2, <2>3
<1> QED
  BY <1>7, <1>8, <1>12, <1>13, <1>14 DEF CustodyIInv


LEMMA PublishUploadedInOrder ==
  ASSUME CustodyIInv, NEW c \in Client, PublishUploaded(c)
  PROVE  CustodyIInv'
<1>0. PICK a \in Attachment : a = request[c].file
  BY BusyIsNotClosed DEF PublishUploaded
<1>1. /\ request[c].pc = "publish" /\ RowInOrder(a) /\ FileInOrder(a) /\ DeliveryInOrder(a)
      /\ RequestInOrder(c)
  BY <1>0, BusyIsNotClosed DEF PublishUploaded, CustodyIInv
<1>2. row[a].confirmed
  BY <1>0, <1>1 DEF RequestInOrder
<1>3. /\ message' \in [Attachment -> {"none", "lost", "visible", "hidden", "done", "dead"}]
      /\ message'[a] \in {"visible", "lost", message[a]}
      /\ \A b \in Attachment \ {a} : message'[b] = message[b]
  BY <1>0 DEF PublishUploaded, CustodyIInv, TypeOK
<1>4. /\ received' \in [Attachment -> 0 .. MaxReceives]
      /\ received'[a] \in {0, received[a]}
      /\ \A b \in Attachment \ {a} : received'[b] = received[b]
      /\ message'[a] = "dead" => received'[a] = received[a]
  BY <1>0, CustodyAssumption DEF PublishUploaded, CustodyIInv, TypeOK
<1>5. faults' \in 0 .. MaxFaults /\ faults' >= faults /\ faults' \in Nat /\ values' = values
  BY CustodyAssumption DEF CustodyIInv, TypeOK, PublishUploaded, Fault
<1>6. OneRequest(c, FreeRequest)
  BY RequestChanges DEF PublishUploaded, CustodyIInv
<1>7. TypeOK'
  BY <1>3, <1>4, <1>5 DEF CustodyIInv, TypeOK, PublishUploaded, FreeRequest
<1>8. CaseInOrder' /\ \A s \in Sweeper : SweepInOrder(s)'
  BY <1>1, BusyIsNotClosed, OpenStaysInOrder DEF PublishUploaded
<1>9. \A b \in Attachment : SameFile(b) /\ SameScanners(b)
  BY DEF SameFile, SameScanners, PublishUploaded
<1>10. \A b \in Attachment \ {a} : Untouched(b)
  BY <1>3, <1>4, <1>9 DEF Untouched, SameRow, PublishUploaded
<1>11. RowInOrder(a)'
  <2>1. message'[a] = "dead" => received'[a] >= MaxReceives
    BY <1>1, <1>3, <1>4 DEF RowInOrder
  <2> QED
    BY <1>1, <1>2, <2>1 DEF RowInOrder, PublishUploaded
<1>12. FileInOrder(a)'
  BY <1>1 DEF FileInOrder, PublishUploaded, ConfirmedAttachments, Live, Stray, Moving, MarkedBySomeone
<1>13. DeliveryInOrder(a)'
  <2>1. /\ At(a)' = At(a) /\ (MarkedBySomeone(a)' <=> MarkedBySomeone(a))
        /\ ConfirmedAttachments' = ConfirmedAttachments
    BY DEF At, MarkedBySomeone, ConfirmedAttachments, Live, PublishUploaded
  <2>2. faults \in Nat /\ received[a] \in Nat /\ Cardinality(At(a)) \in Nat
    BY CustodyAssumption, CountsAreNumbers DEF CustodyIInv, TypeOK
  <2>3. received[a] <= faults + Cardinality(At(a)) => received'[a] <= faults' + Cardinality(At(a))
    BY <1>4, <1>5, <2>2
  <2> QED
    BY <1>1, <2>1, <2>3 DEF DeliveryInOrder, PublishUploaded
<1>14. \A b \in Attachment : RowInOrder(b)' /\ FileInOrder(b)' /\ DeliveryInOrder(b)'
  BY <1>5, <1>10, <1>11, <1>12, <1>13, UntouchedStaysInOrder
<1>15. \A w \in Scanner : ScanInOrder(w)'
  BY <1>5, <1>9, UntouchedScan DEF PublishUploaded, CustodyIInv, ScanInOrder
<1>16. \A d \in Client : RequestInOrder(d)'
  <2> SUFFICES ASSUME NEW d \in Client PROVE RequestInOrder(d)'
    OBVIOUS
  <2>1. CASE d = c
    BY <1>6, <2>1 DEF RequestInOrder, OneRequest, FreeRequest
  <2>2. CASE d # c
    <3>1. request[d].pc # "free" => SameFile(request[d].file)
      BY <1>9 DEF CustodyIInv, RequestInOrder
    <3> QED
      BY <1>6, <2>2, <3>1, OtherRequestStays DEF FreeRequest
  <2> QED
    BY <2>1, <2>2
<1> QED
  BY <1>7, <1>8, <1>14, <1>15, <1>16 DEF CustodyIInv

LEMMA SoftDeleteAttachmentInOrder ==
  ASSUME CustodyIInv, NEW c \in Client, SoftDeleteAttachment(c)
  PROVE  CustodyIInv'
<1>0. PICK a \in Attachment : a = request[c].file
  BY BusyIsNotClosed DEF SoftDeleteAttachment
<1> DEFINE r == [row[a] EXCEPT !.deleted = TRUE]
           q == [request[c] EXCEPT !.pc = "discard"]
<1>1. /\ request[c].pc = "delete" /\ row[a] \in Row /\ RowInOrder(a) /\ FileInOrder(a)
      /\ RequestInOrder(c)
  BY <1>0, BusyIsNotClosed DEF SoftDeleteAttachment, CustodyIInv, TypeOK
<1>2. r \in Row /\ r.deleted /\ r.there = row[a].there /\ r.confirmed = row[a].confirmed
      /\ r.named = row[a].named /\ r.infected = row[a].infected
      /\ r.scanStatus = row[a].scanStatus /\ r.storageKey = row[a].storageKey
  BY <1>1 DEF Row
<1>3. q.pc = "discard" /\ q.file = a
      /\ q \in [pc : {"free", "presign", "confirm", "publish", "delete", "discard"},
                file : Attachment \cup {None}]
  BY <1>0, <1>1 DEF CustodyIInv, TypeOK
<1>4. row' = [row EXCEPT ![a] = r] /\ request' = [request EXCEPT ![c] = q]
  BY <1>0, <1>1 DEF SoftDeleteAttachment, CustodyIInv, TypeOK
<1> HIDE DEF r, q
<1>5. OneRow(a, r) /\ OneRequest(c, q)
  BY <1>2, <1>4, RowChanges, RequestChanges DEF CustodyIInv
<1>6. TypeOK'
  BY <1>3, <1>4, <1>5 DEF OneRow, CustodyIInv, TypeOK, SoftDeleteAttachment
<1>7. CaseInOrder' /\ \A s \in Sweeper : SweepInOrder(s)'
  BY <1>1, BusyIsNotClosed, OpenStaysInOrder DEF SoftDeleteAttachment
<1>8. \A b \in Attachment \ {a} : Untouched(b)
  BY <1>5 DEF Untouched, SameRow, SameFile, SameScanners, SoftDeleteAttachment, OneRow
<1>9. faults' \in Nat /\ faults' >= faults /\ values' = values
  BY CustodyAssumption DEF CustodyIInv, TypeOK, SoftDeleteAttachment
<1>10. RowInOrder(a)'
  BY <1>1, <1>2, <1>5 DEF RowInOrder, OneRow, SoftDeleteAttachment
<1>11. FileInOrder(a)'
  <2>1. ~(a \in ConfirmedAttachments)' /\ (Stray(a)' <=> Stray(a))
    BY <1>2, <1>5 DEF OneRow, ConfirmedAttachments, Live, Stray, Moving, SoftDeleteAttachment
  <2> QED
    BY <1>1, <1>2, <1>5, <2>1 DEF FileInOrder, OneRow, SoftDeleteAttachment
<1>12. DeliveryInOrder(a)'
  BY <1>2, <1>5 DEF DeliveryInOrder, OneRow, ConfirmedAttachments, Live
<1>13. \A b \in Attachment : RowInOrder(b)' /\ FileInOrder(b)' /\ DeliveryInOrder(b)'
  BY <1>8, <1>9, <1>10, <1>11, <1>12, UntouchedStaysInOrder
<1>14. \A w \in Scanner : ScanInOrder(w)'
  <2> SUFFICES ASSUME NEW w \in Scanner PROVE ScanInOrder(w)'
    OBVIOUS
  <2>1. ScanInOrder(w)
    BY DEF CustodyIInv
  <2>2. CASE scan[w].file = a
    BY <2>1, <2>2, <1>2, <1>5 DEF ScanInOrder, OneRow, SoftDeleteAttachment
  <2>3. CASE scan[w].file # a
    BY <2>1, <2>3, <1>8, <1>9, UntouchedScan DEF Untouched, SameRow, ScanInOrder, SoftDeleteAttachment
  <2> QED
    BY <2>2, <2>3
<1>15. \A d \in Client : RequestInOrder(d)'
  <2> SUFFICES ASSUME NEW d \in Client PROVE RequestInOrder(d)'
    OBVIOUS
  <2>0. RequestInOrder(d) /\ \A e \in Client : request'[e].file = request[e].file
    BY <1>0, <1>3, <1>5 DEF CustodyIInv, OneRequest
  <2>1. CASE d = c
    BY <1>2, <1>3, <1>5, <2>1 DEF RequestInOrder, OneRequest, OneRow
  <2>2. CASE d # c /\ request[d].file = a
    BY <1>2, <1>5, <2>0, <2>2 DEF RequestInOrder, OneRequest, OneRow, SoftDeleteAttachment
  <2>3. CASE d # c /\ request[d].file # a
    <3>1. request[d].pc # "free" => SameFile(request[d].file)
      BY <1>8, <2>0, <2>3 DEF RequestInOrder, Untouched, SameRow
    <3> QED
      BY <1>0, <1>3, <1>5, <2>3, <3>1, OtherRequestStays
  <2> QED
    BY <2>1, <2>2, <2>3
<1> QED
  BY <1>6, <1>7, <1>13, <1>14, <1>15 DEF CustodyIInv

LEMMA DiscardObjectInOrder ==
  ASSUME CustodyIInv, NEW c \in Client, DiscardObject(c)
  PROVE  CustodyIInv'
<1>0. PICK a \in Attachment : a = request[c].file
  BY BusyIsNotClosed DEF DiscardObject
<1>1. /\ request[c].pc = "discard" /\ RowInOrder(a) /\ FileInOrder(a) /\ RequestInOrder(c)
  BY <1>0, BusyIsNotClosed DEF DiscardObject, CustodyIInv
<1>2. row[a].deleted
  BY <1>0, <1>1 DEF RequestInOrder
<1>3. /\ object' \subseteq object
      /\ \A b \in Attachment \ {a} : \A p \in Place : <<b, p>> \in object' <=> <<b, p>> \in object
  BY <1>0 DEF DiscardObject
<1>4. faults' \in 0 .. MaxFaults /\ faults' >= faults /\ faults' \in Nat /\ values' = values
  BY CustodyAssumption DEF CustodyIInv, TypeOK, DiscardObject, Fault
<1>5. OneRequest(c, FreeRequest)
  BY RequestChanges DEF DiscardObject, CustodyIInv
<1>6. TypeOK'
  BY <1>3, <1>4 DEF CustodyIInv, TypeOK, DiscardObject, FreeRequest
<1>7. CaseInOrder' /\ \A s \in Sweeper : SweepInOrder(s)'
  BY <1>1, BusyIsNotClosed, OpenStaysInOrder DEF DiscardObject
<1>8. \A b \in Attachment \ {a} : Untouched(b)
  BY <1>3 DEF Untouched, SameRow, SameFile, SameScanners, DiscardObject
<1>9. RowInOrder(a)'
  BY <1>1, <1>3 DEF RowInOrder, DiscardObject
<1>10. FileInOrder(a)' /\ DeliveryInOrder(a)'
  <2>1. ~(a \in ConfirmedAttachments)' /\ (Stray(a)' <=> Stray(a))
    BY <1>2 DEF ConfirmedAttachments, Live, Stray, Moving, DiscardObject
  <2> QED
    BY <1>1, <1>3, <2>1 DEF FileInOrder, DeliveryInOrder, DiscardObject
<1>11. \A b \in Attachment : RowInOrder(b)' /\ FileInOrder(b)' /\ DeliveryInOrder(b)'
  BY <1>4, <1>8, <1>9, <1>10, UntouchedStaysInOrder
<1>12. \A w \in Scanner : ScanInOrder(w)'
  <2> SUFFICES ASSUME NEW w \in Scanner PROVE ScanInOrder(w)'
    OBVIOUS
  <2>1. ScanInOrder(w)
    BY DEF CustodyIInv
  <2>2. CASE scan[w].file = a
    BY <2>1, <2>2, <1>2, <1>3 DEF ScanInOrder, DiscardObject
  <2>3. CASE scan[w].file # a
    BY <2>1, <2>3, <1>4, <1>8, UntouchedScan DEF Untouched, SameRow, ScanInOrder, DiscardObject
  <2> QED
    BY <2>2, <2>3
<1>13. \A d \in Client : RequestInOrder(d)'
  <2> SUFFICES ASSUME NEW d \in Client PROVE RequestInOrder(d)'
    OBVIOUS
  <2>0. RequestInOrder(d) /\ \A e \in Client : request'[e].file \in {request[e].file, None}
    BY <1>5 DEF CustodyIInv, OneRequest, FreeRequest
  <2>1. CASE d = c
    BY <1>5, <2>1 DEF RequestInOrder, OneRequest, FreeRequest
  <2>2. CASE d # c /\ request[d].file = a
    BY <1>2, <1>3, <1>5, <2>0, <2>2, CustodyAssumption
       DEF RequestInOrder, OneRequest, DiscardObject
  <2>3. CASE d # c /\ request[d].file # a
    <3>1. request[d].pc # "free" => SameFile(request[d].file)
      BY <1>8, <2>0, <2>3 DEF RequestInOrder, Untouched, SameRow
    <3> QED
      BY <1>5, <2>3, <3>1, OtherRequestStays DEF FreeRequest
  <2> QED
    BY <2>1, <2>2, <2>3
<1> QED
  BY <1>6, <1>7, <1>11, <1>12, <1>13 DEF CustodyIInv


-----------------------------------------------------------------------------
(* The case.                                                               *)

LEMMA CaseMovesInOrder ==
  ASSUME CustodyIInv, CaseMoves
  PROVE  CustodyIInv'
<1> USE DEF CaseMoves, MoveCase, WindowElapses, ProlongRetention
<1>1. UNCHANGED <<values, row, object, upload, message, received, request, scan, sweep, faults, astray, again>>
  OBVIOUS
<1>2. TypeOK'
  <2>1. case' \in Case
    <3>1. case \in Case
      BY DEF CustodyIInv, TypeOK
    <3>2. CASE WindowElapses
      BY <3>1, <3>2 DEF Case
    <3>3. CASE ProlongRetention
      BY <3>1, <3>3 DEF Case
    <3>4. CASE case' = [case EXCEPT !.status = "running"]
      BY <3>1, <3>4 DEF Case
    <3>5. CASE case' = [case EXCEPT !.status = "returned"]
      BY <3>1, <3>5 DEF Case
    <3>6. CASE case' = [case EXCEPT !.status = "ended"]
      BY <3>1, <3>6 DEF Case
    <3> QED
      BY <3>2, <3>3, <3>4, <3>5, <3>6
  <2>2. moves' \in 0 .. MaxMoves
    <3>1. moves < MaxMoves /\ moves' = moves + 1
      OBVIOUS
    <3>2. moves \in 0 .. MaxMoves /\ MaxMoves \in Nat
      BY CustodyAssumption DEF CustodyIInv, TypeOK
    <3> HIDE DEF CaseMoves
    <3> QED
      BY <3>1, <3>2
  <2> QED
    BY <1>1, <2>1, <2>2 DEF CustodyIInv, TypeOK
<1>3. \A c \in Client : RequestInOrder(c)'
  BY <1>1 DEF CustodyIInv, RequestInOrder
<1>4. CaseInOrder' /\ \A s \in Sweeper : SweepInOrder(s)'
  <2>1. CASE Closed
    <3>1. Closed' /\ case'.redacted = case.redacted
      BY <1>1, <2>1 DEF Closed, CustodyIInv, TypeOK, Case
    <3>2. ConfirmedAttachments' = ConfirmedAttachments /\ \A a : Stray(a)' <=> Stray(a)
      BY <1>1 DEF ConfirmedAttachments, Live, Stray, Moving
    <3>3. CaseInOrder'
      BY <1>1, <3>1, <3>2 DEF CustodyIInv, CaseInOrder
    <3>4. \A s \in Sweeper : SweepInOrder(s)'
      BY <1>1, <3>1, <3>2 DEF CustodyIInv, SweepInOrder
    <3> QED
      BY <3>3, <3>4
  <2>2. CASE ~Closed
    <3>1. Open
      BY <2>2, NotClosedIsOpen
    <3>2. case'.retained /\ ~case'.redacted
      BY <2>2, <3>1 DEF Open, Closed, CustodyIInv, TypeOK, Case
    <3>3. Open'
      BY <1>1, <3>1, <3>2 DEF Open
    <3> QED
      BY <3>3, OpenIsInOrder
  <2> QED
    BY <2>1, <2>2
<1> QED
  BY <1>1, <1>2, <1>3, <1>4, SameFilesStayInOrder DEF CustodyIInv


-----------------------------------------------------------------------------
(* The scanners.                                                           *)

ScanRecord ==
  [pc : {"free", "read", "fetch", "copy", "remove", "markInfected", "markClean", "acknowledge"},
   file : Attachment \cup {None}]

OneScan(w, r) ==
  /\ scan' \in [Scanner -> ScanRecord] /\ scan'[w] = r
  /\ \A v \in Scanner \ {w} : scan'[v] = scan[v]

LEMMA ScanChanges ==
  ASSUME TypeOK, NEW w \in Scanner, NEW r \in ScanRecord, scan' = [scan EXCEPT ![w] = r]
  PROVE  OneScan(w, r)
BY DEF OneScan, TypeOK, ScanRecord

(* A scan changes nothing that requests and the case depend on, and what   *)
(* a sweep has listed it leaves in its order.                              *)
Listed(b) == \E s \in Sweeper : b \in sweep[s].listed

ScanFrame ==
  /\ UNCHANGED <<case, values, upload, request, sweep, again>>
  /\ \A b \in Attachment :
       /\ row'[b].there = row[b].there /\ row'[b].confirmed = row[b].confirmed
       /\ row'[b].deleted = row[b].deleted
       /\ ~row[b].confirmed /\ <<b, "uploads">> \in object => <<b, "uploads">> \in object'
       /\ Listed(b) =>
            \A p \in Place : <<b, p>> \in object' => Stray(b)' \/ (<<b, p>> \in object /\ ~Stray(b))

LEMMA ScanFrameInOrder ==
  ASSUME CustodyIInv, ScanFrame
  PROVE  /\ CaseInOrder' /\ \A s \in Sweeper : SweepInOrder(s)'
         /\ \A c \in Client : RequestInOrder(c)'
<1>1. (Closed' <=> Closed) /\ ConfirmedAttachments' = ConfirmedAttachments
  BY DEF ScanFrame, Closed, ConfirmedAttachments, Live
<1>2. CaseInOrder'
  BY <1>1 DEF CustodyIInv, CaseInOrder, ScanFrame
<1>3. ASSUME NEW s \in Sweeper PROVE SweepInOrder(s)'
  <2>1. /\ SweepInOrder(s) /\ sweep[s].listed \subseteq Attachment
        /\ values' = values /\ sweep' = sweep
        /\ \A a \in sweep[s].listed : row'[a].confirmed = row[a].confirmed
    BY DEF CustodyIInv, TypeOK, ScanFrame
  <2>2. \A a \in sweep[s].listed : \A p \in Place :
          <<a, p>> \in object' => Stray(a)' \/ (<<a, p>> \in object /\ ~Stray(a))
    BY <2>1 DEF ScanFrame, Listed
  <2>3. \A a \in sweep[s].listed : \A p \in Place :
          <<a, p>> \in object' => <<a, p>> \in sweep[s].files \/ Stray(a)'
    BY <2>1, <2>2 DEF SweepInOrder
  <2> QED
    BY <1>1, <2>1, <2>3 DEF SweepInOrder
<1>4. ASSUME NEW c \in Client PROVE RequestInOrder(c)'
  <2>1. RequestInOrder(c)
    BY DEF CustodyIInv
  <2> QED
    BY <2>1 DEF RequestInOrder, ScanFrame
<1> QED
  BY <1>2, <1>3, <1>4

(* A scanner goes on with a file, or lets go of it, and leaves the row and *)
(* the store as they are.                                                  *)
Quiet(w, a, r) ==
  /\ UNCHANGED <<case, values, row, object, upload, request, sweep, moves, astray, again>>
  /\ OneScan(w, r) /\ {scan[w].file, r.file} \subseteq {a, None} /\ row[a].confirmed
  /\ {scan[w].pc, r.pc} \cap {"remove", "markInfected"} = {}
  /\ message' \in [Attachment -> {"none", "lost", "visible", "hidden", "done", "dead"}]
  /\ received' \in [Attachment -> 0 .. MaxReceives]
  /\ \A b \in Attachment \ {a} : message'[b] = message[b] /\ received'[b] = received[b]
  /\ message'[a] = "dead" => received'[a] >= MaxReceives
  /\ faults' \in 0 .. MaxFaults /\ faults' >= faults

LEMMA QuietScanInOrder ==
  ASSUME CustodyIInv, NEW w \in Scanner, NEW a \in Attachment, NEW r \in ScanRecord,
         Quiet(w, a, r), DeliveryInOrder(a)', ScanInOrder(w)'
  PROVE  CustodyIInv'
<1> USE DEF Quiet
<1>1. TypeOK'
  BY DEF CustodyIInv, TypeOK, OneScan, ScanRecord
<1>2. None \notin Attachment /\ faults' \in Nat
  BY CustodyAssumption
<1>3. \A b \in Attachment \ {a} : Untouched(b)
  BY <1>2 DEF Untouched, SameRow, SameFile, SameScanners, OneScan
<1>4. /\ MarkedBySomeone(a)' <=> MarkedBySomeone(a)
      /\ Moving(a)' <=> Moving(a)
  BY DEF MarkedBySomeone, Moving, OneScan
<1>5. Stray(a)' <=> Stray(a)
  BY <1>4 DEF Stray
<1>6. ConfirmedAttachments' = ConfirmedAttachments
  BY DEF ConfirmedAttachments, Live
<1>7. RowInOrder(a)'
  <2>1. RowInOrder(a)
    BY DEF CustodyIInv
  <2> QED
    BY <2>1 DEF RowInOrder
<1>8. FileInOrder(a)'
  <2>1. FileInOrder(a)
    BY DEF CustodyIInv
  <2> QED
    BY <2>1, <1>4, <1>5, <1>6 DEF FileInOrder
<1>9. \A b \in Attachment : RowInOrder(b)' /\ FileInOrder(b)' /\ DeliveryInOrder(b)'
  BY <1>2, <1>3, <1>7, <1>8, UntouchedStaysInOrder
<1>10. ASSUME NEW v \in Scanner PROVE ScanInOrder(v)'
  <2>1. CASE v = w
    BY <2>1
  <2>2. CASE v # w
    BY <2>2, UntouchedScan DEF OneScan, SameFile
  <2> QED
    BY <2>1, <2>2
<1>11. ScanFrame
  <2>1. \A b \in Attachment : Stray(b)' <=> Stray(b)
    <3> SUFFICES ASSUME NEW b \in Attachment, b # a PROVE Stray(b)' <=> Stray(b)
      BY <1>5
    <3>1. SameScanners(b)
      BY <1>3 DEF Untouched
    <3> QED
      BY <3>1 DEF Stray, Moving, SameScanners
  <2> QED
    BY <2>1 DEF ScanFrame
<1> QED
  BY <1>1, <1>9, <1>10, <1>11, ScanFrameInOrder DEF CustodyIInv


LEMMA OneMoreAt ==
  ASSUME NEW w \in Scanner, NEW a \in Attachment, NEW r, OneScan(w, r), scan[w].file = None, r.file = a
  PROVE  Cardinality(At(a)') = Cardinality(At(a)) + 1
<1>1. w \notin At(a)
  BY CustodyAssumption DEF At
<1>2. At(a)' = At(a) \cup {w}
  BY DEF At, OneScan
<1> QED
  BY <1>1, <1>2, CountsAreNumbers, FS_AddElement

LEMMA OneLessAt ==
  ASSUME NEW w \in Scanner, NEW a \in Attachment, NEW r, OneScan(w, r), scan[w].file = a, r.file = None
  PROVE  Cardinality(At(a)') = Cardinality(At(a)) - 1
<1>1. w \in At(a)
  BY DEF At
<1>2. At(a)' = At(a) \ {w}
  BY CustodyAssumption DEF At, OneScan
<1> QED
  BY <1>1, <1>2, CountsAreNumbers, FS_RemoveElement

LEMMA AsManyAt ==
  ASSUME NEW w \in Scanner, NEW a \in Attachment, NEW r, OneScan(w, r), scan[w].file = r.file
  PROVE  At(a)' = At(a)
BY DEF At, OneScan

LEMMA BusyScanner ==
  ASSUME CustodyIInv, NEW w \in Scanner, scan[w].pc # "free"
  PROVE  /\ scan[w].file \in Attachment /\ row[scan[w].file].confirmed
         /\ RowInOrder(scan[w].file) /\ FileInOrder(scan[w].file) /\ DeliveryInOrder(scan[w].file)
         /\ ScanInOrder(w) /\ row[scan[w].file] \in Row
BY DEF CustodyIInv, ScanInOrder, TypeOK

LEMMA ReceiveInOrder ==
  ASSUME CustodyIInv, NEW w \in Scanner, NEW a \in Attachment, Receive(w, a)
  PROVE  CustodyIInv'
<1> DEFINE r == [pc |-> "read", file |-> a]
<1>1. RowInOrder(a) /\ DeliveryInOrder(a) /\ ScanInOrder(w) /\ row[a] \in Row
  BY DEF CustodyIInv, TypeOK
<1>2. scan[w].file = None /\ scan[w].pc = "free"
  BY <1>1 DEF ScanInOrder, Receive
<1>3. row[a].confirmed
  BY <1>1 DEF RowInOrder, Receive, Row
<1>4. r \in ScanRecord /\ r.file = a /\ r.pc = "read"
  BY DEF ScanRecord
<1>5. scan' = [scan EXCEPT ![w] = r]
  BY DEF Receive, Step
<1> HIDE DEF r
<1>6. OneScan(w, r)
  BY <1>4, <1>5, ScanChanges DEF CustodyIInv
<1>7. /\ received[a] \in Nat /\ received'[a] = received[a] + 1
      /\ received' \in [Attachment -> 0 .. MaxReceives]
      /\ \A b \in Attachment \ {a} : received'[b] = received[b]
  BY CustodyAssumption DEF CustodyIInv, TypeOK, Receive
<1>8. /\ message' \in [Attachment -> {"none", "lost", "visible", "hidden", "done", "dead"}]
      /\ message'[a] = "hidden" /\ \A b \in Attachment \ {a} : message'[b] = message[b]
  BY DEF CustodyIInv, TypeOK, Receive
<1>9. Quiet(w, a, r)
  BY <1>2, <1>3, <1>4, <1>6, <1>7, <1>8, CustodyAssumption DEF Quiet, Receive, CustodyIInv, TypeOK
<1>10. DeliveryInOrder(a)'
  <2>1. Cardinality(At(a)') = Cardinality(At(a)) + 1 /\ Cardinality(At(a)) \in Nat
    BY <1>2, <1>4, <1>6, OneMoreAt, CountsAreNumbers
  <2>2. MarkedBySomeone(a) => MarkedBySomeone(a)'
    BY <1>2, <1>6, CustodyAssumption DEF MarkedBySomeone, OneScan, Receive
  <2>3. faults \in Nat /\ faults' = faults
    BY CustodyAssumption DEF CustodyIInv, TypeOK, Receive
  <2>4. received[a] <= faults + Cardinality(At(a)) => received'[a] <= faults' + Cardinality(At(a)')
    BY <1>7, <2>1, <2>3
  <2>5. ConfirmedAttachments' = ConfirmedAttachments
    BY DEF ConfirmedAttachments, Live, Receive
  <2> QED
    BY <1>1, <2>2, <2>4, <2>5 DEF DeliveryInOrder, Receive
<1>11. ScanInOrder(w)'
  BY <1>3, <1>4, <1>6, CustodyAssumption DEF ScanInOrder, OneScan, Receive
<1> QED
  BY <1>4, <1>9, <1>10, <1>11, QuietScanInOrder

LEMMA ReappearInOrder ==
  ASSUME CustodyIInv, NEW a \in Attachment, Reappear(a)
  PROVE  CustodyIInv'
<1>1. TypeOK'
  BY DEF CustodyIInv, TypeOK, Reappear
<1>2. \A b \in Attachment \ {a} : Untouched(b)
  BY DEF CustodyIInv, TypeOK, Reappear, Untouched, SameRow, SameFile, SameScanners
<1>3. RowInOrder(a)'
  <2>1. RowInOrder(a) /\ message[a] = "hidden" /\ message'[a] = "visible"
    BY DEF CustodyIInv, TypeOK, Reappear
  <2> QED
    BY <2>1 DEF RowInOrder, Reappear
<1>4. FileInOrder(a)' /\ DeliveryInOrder(a)'
  <2>1. /\ ConfirmedAttachments' = ConfirmedAttachments /\ At(a)' = At(a)
        /\ (Stray(a)' <=> Stray(a)) /\ (MarkedBySomeone(a)' <=> MarkedBySomeone(a))
    BY DEF ConfirmedAttachments, Live, At, Stray, Moving, MarkedBySomeone, Reappear
  <2> QED
    BY <2>1 DEF FileInOrder, DeliveryInOrder, CustodyIInv, Reappear
<1>5. faults' \in Nat /\ faults' >= faults
  BY CustodyAssumption DEF CustodyIInv, TypeOK, Reappear
<1>6. \A b \in Attachment : RowInOrder(b)' /\ FileInOrder(b)' /\ DeliveryInOrder(b)'
  BY <1>2, <1>3, <1>4, <1>5, UntouchedStaysInOrder DEF Reappear
<1>7. \A w \in Scanner : ScanInOrder(w)'
  BY UntouchedScan DEF SameFile, Reappear
<1>8. ScanFrame
  BY DEF ScanFrame, Reappear, Stray, Moving
<1> QED
  BY <1>1, <1>6, <1>7, <1>8, ScanFrameInOrder DEF CustodyIInv


(* The ways a delivery ends, as seen by the message.                       *)
Settled(a) ==
  /\ message' \in [Attachment -> {"none", "lost", "visible", "hidden", "done", "dead"}]
  /\ \A b \in Attachment \ {a} : message'[b] = message[b]
  /\ message'[a] = "dead" => received[a] >= MaxReceives

LEMMA AcknowledgeSettles ==
  ASSUME CustodyIInv, NEW w \in Scanner, NEW a \in Attachment, Acknowledge(w, a)
  PROVE  Settled(a) /\ OneScan(w, FreeScan)
<1>1. FreeScan \in ScanRecord
  BY DEF FreeScan, ScanRecord
<1>2. OneScan(w, FreeScan)
  BY <1>1, ScanChanges DEF Acknowledge, CustodyIInv
<1>3. Settled(a)
  BY DEF Settled, Acknowledge, CustodyIInv, TypeOK
<1> QED
  BY <1>2, <1>3

LEMMA GiveUpSettles ==
  ASSUME CustodyIInv, NEW w \in Scanner, NEW a \in Attachment, GiveUp(w, a)
  PROVE  Settled(a) /\ OneScan(w, FreeScan)
<1>1. FreeScan \in ScanRecord
  BY DEF FreeScan, ScanRecord
<1>2. OneScan(w, FreeScan)
  BY <1>1, ScanChanges DEF GiveUp, CustodyIInv
<1>3. message[a] = "dead" => received[a] >= MaxReceives
  BY DEF CustodyIInv, RowInOrder
<1>4. Settled(a)
  BY <1>3 DEF Settled, GiveUp, ComesBack, CustodyIInv, TypeOK
<1> QED
  BY <1>2, <1>4

(* A scanner that lets go, where nothing is owed to the file any more.     *)
LEMMA LettingGoInOrder ==
  ASSUME CustodyIInv, NEW w \in Scanner, NEW a \in Attachment, a = scan[w].file,
         scan[w].pc \in {"read", "fetch", "copy", "acknowledge"},
         OneScan(w, FreeScan), Settled(a), DeliveryInOrder(a)',
         UNCHANGED <<case, values, row, object, upload, received, request, sweep, faults, moves, astray, again>>
  PROVE  CustodyIInv'
<1>1. FreeScan \in ScanRecord /\ FreeScan.file = None /\ FreeScan.pc = "free"
  BY DEF FreeScan, ScanRecord
<1>2. row[a].confirmed
  BY BusyScanner
<1>3. faults \in 0 .. MaxFaults /\ faults >= faults
  BY CustodyAssumption DEF CustodyIInv, TypeOK
<1>4. Quiet(w, a, FreeScan)
  BY <1>1, <1>2, <1>3 DEF Quiet, Settled, CustodyIInv, TypeOK
<1>5. ScanInOrder(w)'
  BY <1>1 DEF ScanInOrder, OneScan
<1> QED
  BY <1>1, <1>4, <1>5, QuietScanInOrder

(* A scanner that goes on with its file.                                   *)
LEMMA GoingOnInOrder ==
  ASSUME CustodyIInv, NEW w \in Scanner, NEW a \in Attachment, a = scan[w].file,
         scan[w].pc \in {"read", "fetch", "copy"}, NEW pc \in {"fetch", "copy", "markClean"},
         pc = "copy" => row[a].infected, pc = "markClean" => ~row[a].infected,
         Step(w, a, pc),
         UNCHANGED <<case, values, row, object, upload, message, received, request, sweep,
                     faults, moves, astray, again>>
  PROVE  CustodyIInv'
<1> DEFINE r == [pc |-> pc, file |-> a]
<1>1. r \in ScanRecord /\ r.file = a /\ r.pc = pc
  BY DEF ScanRecord
<1>2. scan' = [scan EXCEPT ![w] = r]
  BY DEF Step
<1> HIDE DEF r
<1>3. OneScan(w, r)
  BY <1>1, <1>2, ScanChanges DEF CustodyIInv
<1>4. row[a].confirmed /\ RowInOrder(a) /\ DeliveryInOrder(a)
  BY BusyScanner
<1>5. faults \in 0 .. MaxFaults /\ faults >= faults
  BY CustodyAssumption DEF CustodyIInv, TypeOK
<1>6. Quiet(w, a, r)
  BY <1>1, <1>3, <1>4, <1>5 DEF Quiet, CustodyIInv, TypeOK, RowInOrder
<1>7. DeliveryInOrder(a)'
  <2>1. At(a)' = At(a)
    BY <1>1, <1>3, AsManyAt
  <2>2. MarkedBySomeone(a) => MarkedBySomeone(a)'
    BY <1>3 DEF MarkedBySomeone, OneScan
  <2>3. ConfirmedAttachments' = ConfirmedAttachments
    BY DEF ConfirmedAttachments, Live
  <2> QED
    BY <1>4, <2>1, <2>2, <2>3 DEF DeliveryInOrder
<1>8. ScanInOrder(w)'
  BY <1>1, <1>3, <1>4, CustodyAssumption DEF ScanInOrder, OneScan
<1> QED
  BY <1>1, <1>6, <1>7, <1>8, QuietScanInOrder

LEMMA ScanReadInOrder ==
  ASSUME CustodyIInv, NEW w \in Scanner, ScanRead(w)
  PROVE  CustodyIInv'
<1>0. PICK a \in Attachment : a = scan[w].file
  BY BusyScanner DEF ScanRead
<1>1. CASE Live(a) /\ row[a].scanStatus = "pending"
  BY <1>0, <1>1, GoingOnInOrder DEF ScanRead
<1>2. CASE ~(Live(a) /\ row[a].scanStatus = "pending")
  <2>1. Acknowledge(w, a)
    BY <1>0, <1>2 DEF ScanRead
  <2>2. DeliveryInOrder(a)'
    BY <1>2 DEF DeliveryInOrder, ConfirmedAttachments, Live, ScanRead
  <2> QED
    BY <1>0, <2>1, <2>2, AcknowledgeSettles, LettingGoInOrder DEF ScanRead
<1> QED
  BY <1>1, <1>2

(* A file that is not there is not owed a verdict any more, or another     *)
(* scanner, who has moved it, is about to note it.                         *)
LEMMA NothingToScan ==
  ASSUME CustodyIInv, NEW w \in Scanner, NEW a \in Attachment, a = scan[w].file,
         scan[w].pc \in {"fetch", "copy"}, <<a, "uploads">> \notin object,
         OneScan(w, FreeScan), UNCHANGED <<values, row, object, astray, again>>
  PROVE  DeliveryInOrder(a)'
<1> SUFFICES ASSUME a \in ConfirmedAttachments, row[a].scanStatus = "pending",
                    values = "personal", a \notin astray
             PROVE  MarkedBySomeone(a)'
  BY DEF DeliveryInOrder, ConfirmedAttachments, Live
<1>1. row[a].storageKey = "uploads"
  BY BusyScanner DEF RowInOrder, Row, Place
<1>2. MarkedBySomeone(a)
  BY <1>1, BusyScanner DEF FileInOrder
<1> QED
  BY <1>2 DEF MarkedBySomeone, OneScan

LEMMA GetObjectBytesInOrder ==
  ASSUME CustodyIInv, NEW w \in Scanner, GetObjectBytes(w)
  PROVE  CustodyIInv'
<1>0. PICK a \in Attachment : a = scan[w].file
  BY BusyScanner DEF GetObjectBytes
<1>1. CASE <<a, "uploads">> \in object
  BY <1>0, <1>1, GoingOnInOrder DEF GetObjectBytes
<1>2. CASE <<a, "uploads">> \notin object
  <2>1. GiveUp(w, a)
    BY <1>0, <1>2 DEF GetObjectBytes
  <2> QED
    BY <1>0, <1>2, <2>1, GiveUpSettles, NothingToScan, LettingGoInOrder DEF GetObjectBytes
<1> QED
  BY <1>1, <1>2

LEMMA ScanDoneInOrder ==
  ASSUME CustodyIInv, NEW w \in Scanner, ScanDone(w)
  PROVE  CustodyIInv'
<1>0. PICK a \in Attachment : a = scan[w].file
  BY BusyScanner DEF ScanDone
<1>1. row[a].scanStatus # "pending"
  BY <1>0, BusyScanner DEF ScanDone, ScanInOrder
<1>2. DeliveryInOrder(a)'
  BY <1>1 DEF DeliveryInOrder, ScanDone
<1> QED
  BY <1>0, <1>2, AcknowledgeSettles, LettingGoInOrder DEF ScanDone


(* What the moves of an infected file have in common: all but its own row, *)
(* objects and scanner are as they were.                                   *)
OthersUntouched(a) ==
  /\ UNCHANGED <<case, values, upload, message, received, request, sweep, faults, moves, again>>
  /\ \A b \in Attachment \ {a} :
       /\ row'[b] = row[b] /\ (b \in astray' <=> b \in astray)
       /\ \A p \in Place : <<b, p>> \in object' <=> <<b, p>> \in object
  /\ row'[a].there = row[a].there /\ row'[a].confirmed = row[a].confirmed
  /\ row'[a].deleted = row[a].deleted /\ row'[a].named = row[a].named
  /\ row'[a].infected = row[a].infected

LEMMA MovingInOrder ==
  ASSUME CustodyIInv, NEW w \in Scanner, NEW a \in Attachment, NEW r \in ScanRecord,
         a = scan[w].file, r.file = a, row[a].confirmed, OneScan(w, r), OthersUntouched(a),
         TypeOK', RowInOrder(a)', FileInOrder(a)', DeliveryInOrder(a)',
         \A v \in Scanner : scan'[v].file = a => ScanInOrder(v)',
         Listed(a) => \A p \in Place :
           <<a, p>> \in object' => Stray(a)' \/ (<<a, p>> \in object /\ ~Stray(a))
  PROVE  CustodyIInv'
<1>1. \A b \in Attachment \ {a} : Untouched(b)
  BY DEF Untouched, SameRow, SameFile, SameScanners, OneScan, OthersUntouched
<1>2. faults' \in Nat /\ faults' >= faults /\ values' = values
  BY CustodyAssumption DEF CustodyIInv, TypeOK, OthersUntouched
<1>3. \A b \in Attachment : RowInOrder(b)' /\ FileInOrder(b)' /\ DeliveryInOrder(b)'
  BY <1>1, <1>2, UntouchedStaysInOrder
<1>4. ASSUME NEW v \in Scanner PROVE ScanInOrder(v)'
  <2>1. CASE scan'[v].file = a
    BY <2>1
  <2>2. CASE scan'[v].file # a
    <3>1. v # w /\ scan'[v] = scan[v] /\ scan[v].file # a
      BY <2>2 DEF OneScan
    <3>2. scan[v].pc # "free" => SameFile(scan[v].file)
      BY <1>1, <3>1, BusyScanner DEF Untouched, SameRow
    <3> QED
      BY <1>2, <3>1, <3>2, UntouchedScan
  <2> QED
    BY <2>1, <2>2
<1>5. ScanFrame
  <2>1. ASSUME NEW b \in Attachment, b # a PROVE Stray(b)' <=> Stray(b)
    <3>1. Untouched(b)
      BY <1>1, <2>1
    <3> QED
      BY <3>1 DEF Untouched, SameRow, SameFile, SameScanners, Stray, Moving
  <2>2. \A b \in Attachment : Listed(b) => \A p \in Place :
          <<b, p>> \in object' => Stray(b)' \/ (<<b, p>> \in object /\ ~Stray(b))
    BY <2>1 DEF OthersUntouched
  <2> QED
    <3>1. "uploads" \in Place
      BY DEF Place
    <3>2. ASSUME NEW b \in Attachment
          PROVE  /\ row'[b].there = row[b].there /\ row'[b].confirmed = row[b].confirmed
                 /\ row'[b].deleted = row[b].deleted
                 /\ ~row[b].confirmed /\ <<b, "uploads">> \in object => <<b, "uploads">> \in object'
      <4>1. CASE b = a
        BY <4>1 DEF OthersUntouched
      <4>2. CASE b # a
        BY <3>1, <4>2 DEF OthersUntouched
      <4> QED
        BY <4>1, <4>2
    <3> QED
      BY <2>2, <3>2 DEF ScanFrame, OthersUntouched
<1> QED
  BY <1>3, <1>4, <1>5, ScanFrameInOrder DEF CustodyIInv

LEMMA CopyToQuarantineInOrder ==
  ASSUME CustodyIInv, NEW w \in Scanner, CopyToQuarantine(w)
  PROVE  CustodyIInv'
<1>0. PICK a \in Attachment : a = scan[w].file
  BY BusyScanner DEF CopyToQuarantine
<1>1. CASE <<a, "uploads">> \notin object
  <2>1. GiveUp(w, a) /\ UNCHANGED object
    BY <1>0, <1>1 DEF CopyToQuarantine
  <2> QED
    BY <1>0, <1>1, <2>1, GiveUpSettles, NothingToScan, LettingGoInOrder DEF CopyToQuarantine
<1>2. CASE <<a, "uploads">> \in object
  <2> DEFINE r == [pc |-> "remove", file |-> a]
  <2>1. r \in ScanRecord /\ r.file = a /\ r.pc = "remove"
    BY DEF ScanRecord
  <2>2. /\ scan' = [scan EXCEPT ![w] = r] /\ object' = object \cup {<<a, "quarantine">>}
        /\ message' = message
    BY <1>0, <1>2 DEF CopyToQuarantine, Step
  <2> HIDE DEF r
  <2>3. OneScan(w, r)
    BY <2>1, <2>2, ScanChanges DEF CustodyIInv
  <2>4. /\ row[a].confirmed /\ RowInOrder(a) /\ FileInOrder(a)
        /\ DeliveryInOrder(a) /\ row[a] \in Row /\ (row[a].infected \/ a \in again)
    BY <1>0, BusyScanner DEF CopyToQuarantine, ScanInOrder
  <2>5. row[a].storageKey = "uploads" \/ (row[a].storageKey = "quarantine" /\ a \in again)
    BY <1>2, <2>4 DEF RowInOrder, Row, Place
  <2>6. Stray(a)'
    BY <2>1, <2>3, <2>4, <2>5 DEF Stray, Moving, OneScan, CopyToQuarantine
  <2>7. OthersUntouched(a)
    BY <2>2 DEF OthersUntouched, CopyToQuarantine
  <2>8. TypeOK'
    BY <2>2, <2>3 DEF CustodyIInv, TypeOK, CopyToQuarantine, OneScan, ScanRecord, Place
  <2>9. RowInOrder(a)'
    BY <1>2, <2>2, <2>4, <2>5 DEF RowInOrder, CopyToQuarantine
  <2>10. FileInOrder(a)'
    BY <1>2, <2>2, <2>5, <2>6 DEF FileInOrder, CopyToQuarantine
  <2>11. DeliveryInOrder(a)'
    <3>1. At(a)' = At(a)
      BY <1>0, <2>1, <2>3, AsManyAt
    <3>2. MarkedBySomeone(a) => MarkedBySomeone(a)'
      BY <2>3 DEF MarkedBySomeone, OneScan, CopyToQuarantine
    <3>3. ConfirmedAttachments' = ConfirmedAttachments
      BY DEF ConfirmedAttachments, Live, CopyToQuarantine
    <3> QED
      BY <2>4, <3>1, <3>2, <3>3 DEF DeliveryInOrder, CopyToQuarantine
  <2>12. ASSUME NEW v \in Scanner, scan'[v].file = a PROVE ScanInOrder(v)'
    <3>1. CASE v = w
      BY <2>1, <2>2, <2>3, <2>4, <3>1, CustodyAssumption DEF ScanInOrder, OneScan, CopyToQuarantine
    <3>2. CASE v # w
      <4>1. ScanInOrder(v) /\ scan'[v] = scan[v]
        BY <2>3, <3>2 DEF CustodyIInv, OneScan
      <4> QED
        BY <2>2, <2>12, <4>1 DEF ScanInOrder, CopyToQuarantine
    <3> QED
      BY <3>1, <3>2
  <2> QED
    BY <1>0, <2>1, <2>3, <2>4, <2>6, <2>7, <2>8, <2>9, <2>10, <2>11, <2>12, MovingInOrder
<1> QED
  BY <1>1, <1>2

LEMMA RemoveOriginalInOrder ==
  ASSUME CustodyIInv, NEW w \in Scanner, RemoveOriginal(w)
  PROVE  CustodyIInv'
<1>0. PICK a \in Attachment : a = scan[w].file
  BY BusyScanner DEF RemoveOriginal
<1> DEFINE r == [pc |-> "markInfected", file |-> a]
<1>1. r \in ScanRecord /\ r.file = a /\ r.pc = "markInfected"
  BY DEF ScanRecord
<1>2. scan' = [scan EXCEPT ![w] = r] /\ object' = object \ {<<a, "uploads">>}
  BY <1>0 DEF RemoveOriginal, Step
<1> HIDE DEF r
<1>3. OneScan(w, r)
  BY <1>1, <1>2, ScanChanges DEF CustodyIInv
<1>4. /\ row[a].confirmed /\ RowInOrder(a) /\ FileInOrder(a)
      /\ row[a] \in Row /\ ScanInOrder(w) /\ scan[w].pc = "remove"
  BY <1>0, BusyScanner DEF RemoveOriginal, ScanInOrder
<1>5. /\ Stray(a)' <=> Stray(a)
      /\ MarkedBySomeone(a)'
      /\ ConfirmedAttachments' = ConfirmedAttachments
  BY <1>0, <1>1, <1>3, <1>4
     DEF Stray, Moving, MarkedBySomeone, ConfirmedAttachments, Live, OneScan, RemoveOriginal
<1>6. OthersUntouched(a)
  BY <1>2 DEF OthersUntouched, RemoveOriginal
<1>7. TypeOK'
  BY <1>2, <1>3 DEF CustodyIInv, TypeOK, RemoveOriginal, OneScan, ScanRecord
<1>8. RowInOrder(a)'
  BY <1>2, <1>4 DEF RowInOrder, RemoveOriginal
<1>9. FileInOrder(a)'
  BY <1>2, <1>4, <1>5 DEF FileInOrder, RemoveOriginal, Row, Place
<1>10. DeliveryInOrder(a)'
  BY <1>5 DEF DeliveryInOrder
<1>11. ASSUME NEW v \in Scanner, scan'[v].file = a PROVE ScanInOrder(v)'
  <2>1. CASE v = w
    BY <1>0, <1>1, <1>2, <1>3, <1>4, <2>1, CustodyAssumption DEF ScanInOrder, OneScan, RemoveOriginal
  <2>2. CASE v # w
    <3>1. ScanInOrder(v) /\ scan'[v] = scan[v]
      BY <1>3, <2>2 DEF CustodyIInv, OneScan
    <3> QED
      BY <1>2, <1>11, <3>1 DEF ScanInOrder, RemoveOriginal
  <2> QED
    BY <2>1, <2>2
<1>12. \A p \in Place : <<a, p>> \in object' => Stray(a)' \/ (<<a, p>> \in object /\ ~Stray(a))
  BY <1>2, <1>5
<1> QED
  BY <1>0, <1>1, <1>3, <1>4, <1>6, <1>7, <1>8, <1>9, <1>10, <1>11, <1>12, MovingInOrder


LEMMA MarkAttachmentScannedInOrder ==
  ASSUME CustodyIInv, NEW w \in Scanner, MarkAttachmentScanned(w)
  PROVE  CustodyIInv'
<1>0. PICK a \in Attachment : a = scan[w].file
  BY BusyScanner DEF MarkAttachmentScanned, MarkClean, MarkInfected
<1> DEFINE r == [pc |-> "acknowledge", file |-> a]
           Found == scan[w].pc = "markInfected"
           q == [row[a] EXCEPT !.scanStatus = IF Found THEN "infected" ELSE "clean",
                               !.storageKey = IF Found THEN "quarantine" ELSE @]
<1>1. r \in ScanRecord /\ r.file = a /\ r.pc = "acknowledge"
  BY DEF ScanRecord
<1>2. /\ row[a].confirmed /\ RowInOrder(a) /\ FileInOrder(a)
      /\ row[a] \in Row /\ ScanInOrder(w) /\ scan[w].pc \in {"markClean", "markInfected"}
  BY <1>0, BusyScanner DEF MarkAttachmentScanned, MarkClean, MarkInfected
<1>3. /\ q \in Row /\ q.there = row[a].there /\ q.confirmed = row[a].confirmed
      /\ q.deleted = row[a].deleted /\ q.named = row[a].named /\ q.infected = row[a].infected
      /\ Found => q.scanStatus = "infected" /\ q.storageKey = "quarantine"
      /\ ~Found => q.scanStatus = "clean" /\ q.storageKey = row[a].storageKey
  BY <1>2 DEF Row, Place
<1>4. scan' = [scan EXCEPT ![w] = r] /\ row' = [row EXCEPT ![a] = q]
  <2>1. scan' = [scan EXCEPT ![w] = r]
    BY <1>0 DEF MarkAttachmentScanned, Step
  <2>2. row' = [row EXCEPT ![a] = q]
    <3>1. CASE Found
      BY <1>0, <1>2, <3>1 DEF MarkAttachmentScanned, MarkClean, MarkInfected, CustodyIInv, TypeOK, Row
    <3>2. CASE ~Found
      BY <1>0, <1>2, <3>2 DEF MarkAttachmentScanned, MarkClean, MarkInfected, CustodyIInv, TypeOK, Row
    <3> QED
      BY <3>1, <3>2
  <2> QED
    BY <2>1, <2>2
<1> HIDE DEF r, q
<1>5. OneScan(w, r) /\ OneRow(a, q)
  BY <1>1, <1>3, <1>4, ScanChanges, RowChanges DEF CustodyIInv
<1>6. /\ astray' = IF Found /\ (row[a].deleted \/ Listed(a))
                     THEN astray \cup {a} ELSE astray
      /\ UNCHANGED object
  BY <1>0, <1>2 DEF MarkAttachmentScanned, MarkClean, MarkInfected, Listed
<1>7. OthersUntouched(a)
  BY <1>3, <1>5, <1>6 DEF OthersUntouched, OneRow, MarkAttachmentScanned
<1>8. TypeOK'
  BY <1>5, <1>6 DEF CustodyIInv, TypeOK, MarkAttachmentScanned, OneScan, ScanRecord, OneRow
<1>9. /\ Found => /\ <<a, "uploads">> \notin object \/ a \in again
                  /\ row[a].infected \/ a \in again
      /\ ~Found => ~row[a].infected \/ a \in again
  BY <1>0, <1>2 DEF ScanInOrder
<1>10. RowInOrder(a)'
  BY <1>2, <1>3, <1>5, <1>6, <1>9 DEF RowInOrder, OneRow, MarkAttachmentScanned, Row, Place
<1>11. (a \in ConfirmedAttachments)' <=> a \in ConfirmedAttachments
  BY <1>3, <1>5 DEF ConfirmedAttachments, Live, OneRow
<1>12. ~Found => (Stray(a)' <=> Stray(a))
  <2>1. ~Found => (Moving(a)' <=> Moving(a))
    BY <1>1, <1>2, <1>5 DEF Moving, OneScan
  <2> QED
    BY <2>1, <1>3, <1>5, <1>6 DEF Stray, OneRow, MarkAttachmentScanned
<1>13. FileInOrder(a)'
  <2>1. CASE Found
    <3>1. a \in ConfirmedAttachments /\ values = "personal" => <<a, "quarantine">> \in object
      BY <1>0, <1>2, <2>1 DEF ScanInOrder, ConfirmedAttachments, Live
    <3>2. \A p \in Place : <<a, p>> \in object => p = "quarantine" \/ a \in again
      BY <1>9, <2>1 DEF Place
    <3>3. ~row[a].named => a \in astray'
      BY <1>2, <1>6, <2>1 DEF RowInOrder
    <3> QED
      BY <1>3, <1>5, <1>6, <1>11, <2>1, <3>1, <3>2, <3>3
         DEF FileInOrder, OneRow, Stray, MarkAttachmentScanned
  <2>2. CASE ~Found
    BY <1>1, <1>2, <1>3, <1>5, <1>6, <1>11, <1>12, <2>2
       DEF FileInOrder, OneRow, OneScan, MarkedBySomeone, MarkAttachmentScanned
  <2> QED
    BY <2>1, <2>2
<1>14. DeliveryInOrder(a)'
  BY <1>3, <1>5 DEF DeliveryInOrder, OneRow
<1>15. ASSUME NEW v \in Scanner, scan'[v].file = a PROVE ScanInOrder(v)'
  <2>1. CASE v = w
    BY <1>1, <1>2, <1>3, <1>5, <2>1, CustodyAssumption DEF ScanInOrder, OneScan, OneRow
  <2>2. CASE v # w
    <3>1. ScanInOrder(v) /\ scan'[v] = scan[v]
      BY <1>5, <2>2 DEF CustodyIInv, OneScan
    <3> QED
      BY <1>3, <1>5, <1>6, <1>15, <3>1 DEF ScanInOrder, OneRow, MarkAttachmentScanned
  <2> QED
    BY <2>1, <2>2
<1>16. Listed(a) => \A p \in Place : <<a, p>> \in object' => Stray(a)' \/ (<<a, p>> \in object /\ ~Stray(a))
  <2>1. CASE Found
    BY <1>6, <2>1 DEF Stray
  <2>2. CASE ~Found
    BY <1>6, <1>12, <2>2
  <2> QED
    BY <2>1, <2>2
<1> QED
  BY <1>0, <1>1, <1>2, <1>5, <1>7, <1>8, <1>10, <1>13, <1>14, <1>15, <1>16, MovingInOrder

LEMMA ScanFailsInOrder ==
  ASSUME CustodyIInv, NEW w \in Scanner, ScanFails(w)
  PROVE  CustodyIInv'
<1>0. PICK a \in Attachment : a = scan[w].file
  BY BusyScanner DEF ScanFails
<1>1. /\ row[a].confirmed /\ RowInOrder(a) /\ FileInOrder(a) /\ DeliveryInOrder(a)
      /\ row[a] \in Row /\ ScanInOrder(w) /\ scan[w].pc # "free"
  BY <1>0, BusyScanner DEF ScanFails
<1>2. Settled(a) /\ OneScan(w, FreeScan)
  BY <1>0, GiveUpSettles DEF ScanFails
<1>3. /\ UNCHANGED <<case, values, row, object, upload, received, request, sweep, moves, again>>
      /\ astray' = IF scan[w].pc \in {"remove", "markInfected"} /\ row[a].storageKey = "uploads"
                     THEN astray \cup {a} ELSE astray
  BY <1>0 DEF ScanFails
<1>4. faults \in Nat /\ faults' = faults + 1 /\ faults' \in 0 .. MaxFaults
  BY CustodyAssumption DEF ScanFails, Fault, CustodyIInv, TypeOK
<1>5. FreeScan \in ScanRecord /\ FreeScan.file = None /\ FreeScan.pc = "free"
  BY DEF FreeScan, ScanRecord
<1>6. TypeOK'
  BY <1>2, <1>3, <1>4 DEF CustodyIInv, TypeOK, OneScan, ScanRecord, Settled
<1>7. None \notin Attachment
  BY CustodyAssumption
<1>8. \A b \in Attachment \ {a} : Untouched(b)
  BY <1>0, <1>2, <1>3, <1>5, <1>7
     DEF Untouched, SameRow, SameFile, SameScanners, OneScan, Settled
<1>9. ConfirmedAttachments' = ConfirmedAttachments
  BY <1>3 DEF ConfirmedAttachments, Live
<1>10. Stray(a)' <=> Stray(a)
  <2>1. Moving(a) => Moving(a)' \/ scan[w].pc \in {"remove", "markInfected"}
    BY <1>2 DEF Moving, OneScan
  <2>2. Moving(a)' => Moving(a)
    BY <1>2, <1>5 DEF Moving, OneScan
  <2>3. scan[w].pc \in {"remove", "markInfected"} => Moving(a)
    BY <1>0 DEF Moving
  <2> QED
    BY <1>3, <2>1, <2>2, <2>3 DEF Stray
<1>11. row[a].storageKey = "uploads" /\ MarkedBySomeone(a) => MarkedBySomeone(a)' \/ a \in astray'
  BY <1>2, <1>3 DEF MarkedBySomeone, OneScan
<1>12. RowInOrder(a)'
  <2>1. a \in astray' => row[a].infected \/ a \in again
    BY <1>0, <1>1, <1>3 DEF RowInOrder, ScanInOrder
  <2> QED
    BY <1>1, <1>2, <1>3, <2>1 DEF RowInOrder, Settled
<1>13. FileInOrder(a)'
  BY <1>1, <1>3, <1>9, <1>10, <1>11 DEF FileInOrder
<1>14. DeliveryInOrder(a)'
  <2>1. Cardinality(At(a)') = Cardinality(At(a)) - 1 /\ Cardinality(At(a)) \in Nat
    BY <1>0, <1>2, <1>5, OneLessAt, CountsAreNumbers
  <2>2. received[a] \in Nat
    BY CustodyAssumption DEF CustodyIInv, TypeOK
  <2>3. received[a] <= faults + Cardinality(At(a)) => received[a] <= faults' + Cardinality(At(a)')
    BY <1>4, <2>1, <2>2
  <2>4. row[a].scanStatus = "pending" => row[a].storageKey = "uploads"
    BY <1>1 DEF RowInOrder, Row, Place
  <2> QED
    BY <1>1, <1>3, <1>9, <1>11, <2>3, <2>4 DEF DeliveryInOrder
<1>15. \A b \in Attachment : RowInOrder(b)' /\ FileInOrder(b)' /\ DeliveryInOrder(b)'
  <2>1. faults' \in Nat /\ faults' >= faults
    BY <1>4
  <2> QED
    BY <1>3, <1>8, <1>12, <1>13, <1>14, <2>1, UntouchedStaysInOrder
<1>16. ASSUME NEW v \in Scanner PROVE ScanInOrder(v)'
  <2>1. CASE v = w
    BY <1>2, <1>5, <2>1 DEF ScanInOrder, OneScan
  <2>2. CASE v # w
    BY <1>2, <1>3, <2>2, UntouchedScan DEF OneScan, SameFile
  <2> QED
    BY <2>1, <2>2
<1>17. ScanFrame
  <2>1. ASSUME NEW b \in Attachment PROVE Stray(b)' <=> Stray(b)
    <3>1. CASE b = a
      BY <1>10, <3>1
    <3>2. CASE b # a
      <4>1. Untouched(b)
        BY <1>8, <3>2
      <4> QED
        BY <4>1 DEF Untouched, SameRow, SameFile, SameScanners, Stray, Moving
    <3> QED
      BY <3>1, <3>2
  <2> QED
    BY <1>3, <2>1 DEF ScanFrame
<1> QED
  BY <1>6, <1>15, <1>16, <1>17, ScanFrameInOrder DEF CustodyIInv


-----------------------------------------------------------------------------
(* The sweeps.                                                             *)

SweepRecord ==
  [pc : {"free", "values", "files"}, listed : SUBSET Attachment,
   files : SUBSET (Attachment \X Place)]

OneSweep(s, r) ==
  /\ sweep' \in [Sweeper -> SweepRecord] /\ sweep'[s] = r
  /\ \A t \in Sweeper \ {s} : sweep'[t] = sweep[t]

LEMMA SweepChanges ==
  ASSUME TypeOK, NEW s \in Sweeper, NEW r \in SweepRecord, sweep' = [sweep EXCEPT ![s] = r]
  PROVE  OneSweep(s, r)
BY DEF OneSweep, TypeOK, SweepRecord

LEMMA ClosedRequests == ASSUME Closed' PROVE \A c \in Client : RequestInOrder(c)'
BY DEF Closed, RequestInOrder

(* A sweep at work, and what it stands on.                                 *)
LEMMA BusySweep ==
  ASSUME CustodyIInv, NEW s \in Sweeper
  PROVE  /\ SweepInOrder(s) /\ sweep[s] \in SweepRecord
         /\ sweep[s].pc # "free" => Closed
         /\ sweep[s].pc = "files" \/ sweep[s].files # {} => values = "tombstones" /\ Closed
BY DEF CustodyIInv, TypeOK, SweepRecord, SweepInOrder

(* A sweep begins or ends and touches neither table nor store.             *)
LEMMA SweepTurnInOrder ==
  ASSUME CustodyIInv, NEW s \in Sweeper, NEW r \in SweepRecord, OneSweep(s, r),
         UNCHANGED <<case, values, row, object, upload, message, received, request, scan, moves, astray, again>>,
         faults' \in 0 .. MaxFaults, faults' >= faults,
         r.pc # "files" /\ r.listed = {} /\ r.files = {}, r.pc # "free" => Closed
  PROVE  CustodyIInv'
<1>1. TypeOK'
  BY DEF CustodyIInv, TypeOK, OneSweep, SweepRecord
<1>2. faults' \in Nat
  BY CustodyAssumption
<1>3. \A b \in Attachment : Untouched(b) /\ SameFile(b)
  BY DEF Untouched, SameRow, SameFile, SameScanners
<1>4. \A b \in Attachment : RowInOrder(b)' /\ FileInOrder(b)' /\ DeliveryInOrder(b)'
  BY <1>2, <1>3, UntouchedStaysInOrder
<1>5. \A w \in Scanner : ScanInOrder(w)'
  BY <1>3, UntouchedScan, BusyScanner
<1>6. \A c \in Client : RequestInOrder(c)'
  BY DEF CustodyIInv, RequestInOrder
<1>7. (Closed' <=> Closed) /\ ConfirmedAttachments' = ConfirmedAttachments /\ \A b : Stray(b)' <=> Stray(b)
  BY DEF Closed, ConfirmedAttachments, Live, Stray, Moving
<1>8. CaseInOrder'
  BY <1>7 DEF CustodyIInv, CaseInOrder
<1>9. ASSUME NEW t \in Sweeper PROVE SweepInOrder(t)'
  <2>1. CASE t = s
    BY <1>7, <2>1 DEF SweepInOrder, OneSweep
  <2>2. CASE t # s
    BY <1>7, <2>2 DEF CustodyIInv, SweepInOrder, OneSweep
  <2> QED
    BY <2>1, <2>2
<1> QED
  BY <1>1, <1>4, <1>5, <1>6, <1>8, <1>9 DEF CustodyIInv

LEMMA FindEligibleInOrder ==
  ASSUME CustodyIInv, NEW s \in Sweeper, FindEligible(s)
  PROVE  CustodyIInv'
<1> DEFINE r == [sweep[s] EXCEPT !.pc = "values"]
<1>1. /\ r \in SweepRecord /\ r.pc = "values" /\ r.listed = {} /\ r.files = {}
  BY BusySweep DEF SweepRecord, SweepInOrder, FindEligible
<1>2. sweep' = [sweep EXCEPT ![s] = r]
  BY DEF FindEligible, CustodyIInv, TypeOK
<1> HIDE DEF r
<1>3. OneSweep(s, r)
  BY <1>1, <1>2, SweepChanges DEF CustodyIInv
<1>4. Closed
  BY DEF FindEligible, Eligible, CustodyIInv, CaseInOrder
<1>5. faults' \in 0 .. MaxFaults /\ faults' >= faults
  BY CustodyAssumption DEF FindEligible, CustodyIInv, TypeOK
<1> QED
  BY <1>1, <1>3, <1>4, <1>5, SweepTurnInOrder DEF FindEligible

LEMMA SweepFailsInOrder ==
  ASSUME CustodyIInv, NEW s \in Sweeper, SweepFails(s)
  PROVE  CustodyIInv'
<1>1. /\ FreeSweep \in SweepRecord /\ FreeSweep.pc = "free" /\ FreeSweep.listed = {}
      /\ FreeSweep.files = {}
  BY DEF SweepRecord, FreeSweep
<1>2. OneSweep(s, FreeSweep)
  BY <1>1, SweepChanges DEF CustodyIInv, SweepFails
<1>3. faults' \in 0 .. MaxFaults /\ faults' >= faults
  BY CustodyAssumption DEF SweepFails, Fault, CustodyIInv, TypeOK
<1> QED
  BY <1>1, <1>2, <1>3, SweepTurnInOrder DEF SweepFails

LEMMA RedactValuesInOrder ==
  ASSUME CustodyIInv, NEW s \in Sweeper, RedactValues(s)
  PROVE  CustodyIInv'
<1> DEFINE r == [pc |-> "files",
                 files |-> {<<a, row[a].storageKey>> : a \in ConfirmedAttachments},
                 listed |-> ConfirmedAttachments]
<1>1. \A a \in Attachment : row[a].storageKey \in Place
  BY DEF CustodyIInv, TypeOK, Row
<1>2. r \in SweepRecord
  BY <1>1 DEF SweepRecord, ConfirmedAttachments
<1>3. /\ r.pc = "files" /\ r.listed = ConfirmedAttachments
      /\ r.files = {<<a, row[a].storageKey>> : a \in ConfirmedAttachments}
  OBVIOUS
<1>4. sweep' = [sweep EXCEPT ![s] = r] /\ values' = "tombstones"
  BY DEF RedactValues
<1> HIDE DEF r
<1>5. OneSweep(s, r)
  BY <1>2, <1>4, SweepChanges DEF CustodyIInv
<1>6. TypeOK'
  BY <1>4, <1>5 DEF CustodyIInv, TypeOK, RedactValues, OneSweep, SweepRecord
<1>7. /\ Closed' /\ Closed /\ ConfirmedAttachments' = ConfirmedAttachments
      /\ \A b : Stray(b)' <=> Stray(b)
  BY BusySweep DEF RedactValues, Closed, ConfirmedAttachments, Live, Stray, Moving
<1>8. CaseInOrder'
  BY <1>4, <1>7 DEF CaseInOrder, CustodyIInv, RedactValues
<1>9. ASSUME NEW b \in Attachment PROVE RowInOrder(b)' /\ FileInOrder(b)' /\ DeliveryInOrder(b)'
  <2>1. RowInOrder(b) /\ FileInOrder(b)
    BY DEF CustodyIInv
  <2> QED
    BY <1>4, <1>7, <2>1 DEF RowInOrder, FileInOrder, DeliveryInOrder, RedactValues
<1>10. ASSUME NEW w \in Scanner PROVE ScanInOrder(w)'
  BY <1>4 DEF CustodyIInv, ScanInOrder, RedactValues
<1>11. ASSUME NEW t \in Sweeper PROVE SweepInOrder(t)'
  <2>1. CASE t = s
    <3>1. \A a \in ConfirmedAttachments : row[a].confirmed /\ FileInOrder(a)
      BY DEF ConfirmedAttachments, CustodyIInv
    <3>2. \A a \in ConfirmedAttachments : \A p \in Place :
            <<a, p>> \in object => <<a, p>> \in r.files \/ Stray(a)
      BY <1>3, <3>1 DEF FileInOrder
    <3>3. \A f \in r.files : f[1] \in ConfirmedAttachments
      BY <1>3
    <3>4. UNCHANGED <<row, object>> /\ sweep'[t] = r
      BY <1>5, <2>1 DEF RedactValues, OneSweep
    <3> QED
      BY <1>3, <1>4, <1>7, <3>1, <3>2, <3>3, <3>4 DEF SweepInOrder
  <2>2. CASE t # s
    <3>1. SweepInOrder(t) /\ sweep'[t] = sweep[t] /\ UNCHANGED <<row, object>>
      BY <1>5, <2>2 DEF CustodyIInv, OneSweep, RedactValues
    <3> QED
      BY <1>4, <1>7, <3>1 DEF SweepInOrder
  <2> QED
    BY <2>1, <2>2
<1> QED
  BY <1>6, <1>7, <1>8, <1>9, <1>10, <1>11, ClosedRequests DEF CustodyIInv

LEMMA DeleteObjectInOrder ==
  ASSUME CustodyIInv, NEW s \in Sweeper, DeleteObject(s)
  PROVE  CustodyIInv'
<1>0. PICK f \in sweep[s].files :
        /\ object' = object \ {f}
        /\ sweep' = [sweep EXCEPT ![s].files = @ \ {f}]
        /\ UNCHANGED <<case, values, row, upload, message, received, request, scan,
                       faults, moves, astray, again>>
  BY DEF DeleteObject
<1> DEFINE r == [sweep[s] EXCEPT !.files = @ \ {f}]
<1>1. /\ SweepInOrder(s) /\ sweep[s] \in SweepRecord /\ values = "tombstones" /\ Closed
  BY BusySweep
<1>2. /\ r \in SweepRecord /\ r.pc = sweep[s].pc /\ r.listed = sweep[s].listed
      /\ r.files = sweep[s].files \ {f}
  BY <1>1 DEF SweepRecord
<1>3. sweep' = [sweep EXCEPT ![s] = r]
  BY <1>0 DEF CustodyIInv, TypeOK
<1> HIDE DEF r
<1>4. OneSweep(s, r)
  BY <1>2, <1>3, SweepChanges DEF CustodyIInv
<1>5. TypeOK'
  BY <1>0, <1>4 DEF CustodyIInv, TypeOK, OneSweep, SweepRecord
<1>6. /\ Closed' /\ ConfirmedAttachments' = ConfirmedAttachments
      /\ \A b : Stray(b)' <=> Stray(b)
  BY <1>0, <1>1 DEF Closed, ConfirmedAttachments, Live, Stray, Moving
<1>7. CaseInOrder'
  BY <1>0, <1>1, <1>6 DEF CaseInOrder, CustodyIInv
<1>8. ASSUME NEW b \in Attachment PROVE RowInOrder(b)' /\ FileInOrder(b)' /\ DeliveryInOrder(b)'
  <2>1. RowInOrder(b) /\ FileInOrder(b)
    BY DEF CustodyIInv
  <2>2. RowInOrder(b)'
    BY <1>0, <2>1 DEF RowInOrder
  <2>3. FileInOrder(b)' /\ DeliveryInOrder(b)'
    BY <1>0, <1>1, <1>6, <2>1 DEF FileInOrder, DeliveryInOrder
  <2> QED
    BY <2>2, <2>3
<1>9. ASSUME NEW w \in Scanner PROVE ScanInOrder(w)'
  BY <1>0, <1>1 DEF CustodyIInv, ScanInOrder
<1>10. ASSUME NEW t \in Sweeper PROVE SweepInOrder(t)'
  <2>1. CASE t = s
    <3>1. sweep'[t] = r
      BY <1>4, <2>1 DEF OneSweep
    <3>2. \A a \in r.listed : \A p \in Place :
            <<a, p>> \in object \ {f} => <<a, p>> \in r.files \/ Stray(a)
      BY <1>1, <1>2 DEF SweepInOrder
    <3> QED
      BY <1>0, <1>1, <1>2, <1>6, <3>1, <3>2 DEF SweepInOrder
  <2>2. CASE t # s
    <3>1. SweepInOrder(t) /\ sweep'[t] = sweep[t]
      BY <1>4, <2>2 DEF CustodyIInv, OneSweep
    <3> QED
      BY <1>0, <1>6, <3>1 DEF SweepInOrder
  <2> QED
    BY <2>1, <2>2
<1> QED
  BY <1>5, <1>6, <1>7, <1>8, <1>9, <1>10, ClosedRequests DEF CustodyIInv

LEMMA MarkCaseRedactedInOrder ==
  ASSUME CustodyIInv, NEW s \in Sweeper, MarkCaseRedacted(s)
  PROVE  CustodyIInv'
<1>0. UNCHANGED <<values, object, upload, message, received, request, scan, faults, moves, astray, again>>
  BY DEF MarkCaseRedacted
<1>1. /\ SweepInOrder(s) /\ values = "tombstones" /\ Closed /\ sweep[s].files = {}
      /\ ConfirmedAttachments \subseteq sweep[s].listed
  BY BusySweep DEF MarkCaseRedacted, SweepInOrder
<1>2. /\ FreeSweep \in SweepRecord /\ FreeSweep.pc = "free" /\ FreeSweep.listed = {}
      /\ FreeSweep.files = {}
  BY DEF SweepRecord, FreeSweep
<1>3. OneSweep(s, FreeSweep)
  BY <1>2, SweepChanges DEF CustodyIInv, MarkCaseRedacted
<1> DEFINE q(b) == [row[b] EXCEPT !.deleted = TRUE, !.named = FALSE]
<1>4. /\ row \in [Attachment -> Row] /\ case \in Case
      /\ row' = [b \in Attachment |-> IF b \in sweep[s].listed THEN q(b) ELSE row[b]]
      /\ case' = [case EXCEPT !.redacted = TRUE]
  BY DEF MarkCaseRedacted, CustodyIInv, TypeOK
<1>5. \A b \in Attachment :
        /\ row'[b] \in Row
        /\ row'[b].there = row[b].there /\ row'[b].confirmed = row[b].confirmed
        /\ row'[b].infected = row[b].infected /\ row'[b].scanStatus = row[b].scanStatus
        /\ row'[b].storageKey = row[b].storageKey
        /\ b \in sweep[s].listed => row'[b].deleted /\ ~row'[b].named
        /\ b \notin sweep[s].listed => row'[b] = row[b]
  <2> TAKE b \in Attachment
  <2>1. row[b] \in Row
    BY <1>4
  <2>2. /\ q(b) \in Row /\ q(b).there = row[b].there /\ q(b).confirmed = row[b].confirmed
        /\ q(b).infected = row[b].infected /\ q(b).scanStatus = row[b].scanStatus
        /\ q(b).storageKey = row[b].storageKey /\ q(b).deleted /\ ~q(b).named
    BY <2>1 DEF Row
  <2>3. row'[b] = IF b \in sweep[s].listed THEN q(b) ELSE row[b]
    BY <1>4
  <2> HIDE DEF q
  <2> QED
    BY <2>1, <2>2, <2>3
<1> HIDE DEF q
<1>6. TypeOK'
  <2>1. row' \in [Attachment -> Row]
    BY <1>4, <1>5
  <2>2. case' \in Case
    BY <1>4 DEF Case
  <2> QED
    BY <1>0, <1>3, <2>1, <2>2 DEF CustodyIInv, TypeOK, OneSweep, SweepRecord
<1>7. Closed' /\ case'.redacted
  <2>1. case'.redacted /\ case'.status = case.status
    BY <1>4 DEF Case
  <2> QED
    BY <1>0, <1>1, <2>1 DEF Closed
<1>8. ConfirmedAttachments' = {}
  BY <1>1, <1>5 DEF ConfirmedAttachments, Live
<1>9. \A b \in Attachment : Stray(b)' <=> Stray(b)
  BY <1>0, <1>5 DEF Stray, Moving
<1>10. CaseInOrder'
  BY <1>0, <1>1, <1>7, <1>8 DEF CaseInOrder
<1>11. ASSUME NEW b \in Attachment PROVE RowInOrder(b)' /\ FileInOrder(b)' /\ DeliveryInOrder(b)'
  <2>1. RowInOrder(b) /\ FileInOrder(b) /\ (b \in sweep[s].listed => row[b].confirmed)
    BY <1>1 DEF CustodyIInv, SweepInOrder
  <2>2. RowInOrder(b)'
    BY <1>0, <1>1, <1>5, <2>1 DEF RowInOrder, Closed
  <2>3. b \in sweep[s].listed => \A p \in Place : <<b, p>> \in object => Stray(b)
    BY <1>1 DEF SweepInOrder
  <2>4. FileInOrder(b)' /\ DeliveryInOrder(b)'
    BY <1>0, <1>5, <1>8, <1>9, <2>1, <2>3 DEF FileInOrder, DeliveryInOrder
  <2> QED
    BY <2>2, <2>4
<1>12. ASSUME NEW w \in Scanner PROVE ScanInOrder(w)'
  <2>1. ScanInOrder(w) /\ values' = "tombstones" /\ UNCHANGED <<scan, object, again>>
    BY <1>0, <1>1 DEF CustodyIInv
  <2> QED
    BY <1>5, <2>1 DEF ScanInOrder
<1>13. ASSUME NEW t \in Sweeper PROVE SweepInOrder(t)'
  <2>1. CASE t = s
    BY <1>2, <1>3, <2>1 DEF SweepInOrder, OneSweep
  <2>2. CASE t # s
    <3>1. SweepInOrder(t) /\ sweep'[t] = sweep[t] /\ UNCHANGED <<values, object>>
          /\ sweep[t].listed \subseteq Attachment
      BY <1>0, <1>3, <2>2 DEF CustodyIInv, TypeOK, OneSweep
    <3> QED
      BY <1>5, <1>7, <1>8, <1>9, <3>1 DEF SweepInOrder
  <2> QED
    BY <2>1, <2>2
<1> QED
  BY <1>6, <1>7, <1>10, <1>11, <1>12, <1>13, ClosedRequests DEF CustodyIInv


-----------------------------------------------------------------------------
(* Every step.                                                             *)

LEMMA NextInOrder == CustodyIInv /\ [CustodyNext]_custodyVars => CustodyIInv'
<1> SUFFICES ASSUME CustodyIInv, [CustodyNext]_custodyVars
             PROVE  CustodyIInv'
  OBVIOUS
<1>1. ASSUME NEW c \in Client, ClientStep(c) PROVE CustodyIInv'
  <2>1. CASE \E kind \in {"presign", "confirm", "delete"}, a \in Attachment : Read(c, kind, a)
    BY <2>1, ReadInOrder
  <2>2. CASE Presign(c)
    BY <2>2, PresignInOrder
  <2>3. CASE MarkAttachmentConfirmed(c)
    BY <2>3, MarkAttachmentConfirmedInOrder
  <2>4. CASE PublishUploaded(c)
    BY <2>4, PublishUploadedInOrder
  <2>5. CASE SoftDeleteAttachment(c)
    BY <2>5, SoftDeleteAttachmentInOrder
  <2>6. CASE DiscardObject(c)
    BY <2>6, DiscardObjectInOrder
  <2> QED
    BY <1>1, <2>1, <2>2, <2>3, <2>4, <2>5, <2>6 DEF ClientStep
<1>2. ASSUME NEW w \in Scanner, ScanStep(w) PROVE CustodyIInv'
  <2>1. CASE \E a \in Attachment : Receive(w, a)
    BY <2>1, ReceiveInOrder
  <2>2. CASE ScanRead(w)
    BY <2>2, ScanReadInOrder
  <2>3. CASE GetObjectBytes(w)
    BY <2>3, GetObjectBytesInOrder
  <2>4. CASE CopyToQuarantine(w)
    BY <2>4, CopyToQuarantineInOrder
  <2>5. CASE RemoveOriginal(w)
    BY <2>5, RemoveOriginalInOrder
  <2>6. CASE MarkAttachmentScanned(w)
    BY <2>6, MarkAttachmentScannedInOrder
  <2>7. CASE ScanDone(w)
    BY <2>7, ScanDoneInOrder
  <2> QED
    BY <1>2, <2>1, <2>2, <2>3, <2>4, <2>5, <2>6, <2>7 DEF ScanStep
<1>3. ASSUME NEW s \in Sweeper, SweepStep(s) PROVE CustodyIInv'
  BY <1>3, FindEligibleInOrder, RedactValuesInOrder, DeleteObjectInOrder, MarkCaseRedactedInOrder
     DEF SweepStep
<1>4. CASE UNCHANGED custodyVars
  <2>1. /\ UNCHANGED <<case, values, row, object, upload, message, received>>
        /\ UNCHANGED <<request, scan, sweep, faults, moves, astray, again>>
    BY <1>4 DEF custodyVars
  <2>2. TypeOK'
    BY <2>1 DEF CustodyIInv, TypeOK
  <2>3. ScanFrame
    BY <2>1 DEF ScanFrame, Stray, Moving
  <2> QED
    BY <2>1, <2>2, <2>3, SameFilesStayInOrder, ScanFrameInOrder DEF CustodyIInv
<1> QED
  BY <1>1, <1>2, <1>3, <1>4, UploadInOrder, FormExpiresInOrder, ReappearInOrder, CaseMovesInOrder, ScanFailsInOrder,
     SweepFailsInOrder DEF CustodyNext

(* The invariant the theorems below rest on.  A row is confirmed for good, *)
(* and only a confirmed file is scanned; a quarantine key means that the   *)
(* original is gone, or was posted again; a case whose window has elapsed, *)
(* whose answers are tombstones or that a sweep works on is closed to      *)
(* everybody else; what a sweep has listed is all that can be left in the  *)
(* store, apart from files a scanner is moving or has moved behind the     *)
(* row's back, or that were posted again; and every receipt of a file      *)
(* without a verdict is a failure or is being worked on.                   *)
THEOREM CustodyInvariance == CustodySpec => []CustodyIInv
<1>1. CustodyInit => CustodyIInv
  BY InitInOrder
<1>2. CustodyIInv /\ [CustodyNext]_custodyVars => CustodyIInv'
  BY NextInOrder
<1> QED
  BY <1>1, <1>2, PTL DEF CustodySpec

(* However requests, scanners, redeliveries and sweeps interleave, and     *)
(* whatever fails: a live confirmed file lies under the key of its row     *)
(* until redaction has begun, unless a scan moved it and died; a dead      *)
(* letter is explained by failures; and a download link leads to a clean,  *)
(* confirmed file, or to one posted again since (attachments.ts,           *)
(* attachment-scan/handle-attachment-uploaded.ts, s3-store.ts).            *)
THEOREM FilesStayInCustody == CustodySpec => []CustodyInv
<1>1. CustodyIInv => KeyIsWhereTheFileIs
  <2> SUFFICES ASSUME CustodyIInv, NEW a \in ConfirmedAttachments, values # "tombstones",
                      a \notin astray, <<a, row[a].storageKey>> \notin object
               PROVE  \E w \in Scanner : scan[w] = [pc |-> "markInfected", file |-> a]
    BY DEF KeyIsWhereTheFileIs
  <2>1. FileInOrder(a) /\ values = "personal"
    BY DEF CustodyIInv, TypeOK, ConfirmedAttachments
  <2>2. PICK w \in Scanner : scan[w].file = a /\ scan[w].pc = "markInfected"
    BY <2>1 DEF FileInOrder, MarkedBySomeone
  <2>3. scan[w] = [pc |-> scan[w].pc, file |-> scan[w].file]
    BY DEF CustodyIInv, TypeOK
  <2> QED
    BY <2>2, <2>3
<1>2. CustodyIInv => DeadLettersAreExplained
  <2> SUFFICES ASSUME CustodyIInv, NEW a \in ConfirmedAttachments, message[a] = "dead",
                      row[a].scanStatus = "pending", a \notin astray, values # "tombstones",
                      \A w \in Scanner : scan[w].file # a
               PROVE  faults >= MaxReceives
    BY DEF DeadLettersAreExplained
  <2>1. RowInOrder(a) /\ DeliveryInOrder(a) /\ values = "personal"
    BY DEF CustodyIInv, TypeOK, ConfirmedAttachments
  <2>2. received[a] >= MaxReceives
    BY <2>1 DEF RowInOrder
  <2>3. At(a) = {}
    BY DEF At
  <2>4. received[a] <= faults + Cardinality(At(a))
    BY <2>1 DEF DeliveryInOrder, MarkedBySomeone
  <2>5. received[a] <= faults + 0
    BY <2>3, <2>4, FS_EmptySet
  <2>6. faults \in Nat /\ received[a] \in Nat /\ MaxReceives \in Nat
    BY CustodyAssumption DEF CustodyIInv, TypeOK, ConfirmedAttachments
  <2> QED
    BY <2>2, <2>5, <2>6
<1>3. CustodyIInv => LinksLeadToTheFile
  <2> SUFFICES ASSUME CustodyIInv, NEW a \in Attachment, Downloadable(a)
               PROVE  /\ row[a].confirmed
                      /\ a \notin again =>
                           /\ ~row[a].infected
                           /\ values = "personal" => <<a, row[a].storageKey>> \in object
    BY DEF LinksLeadToTheFile
  <2>1. RowInOrder(a) /\ FileInOrder(a) /\ row[a].scanStatus = "clean" /\ Live(a)
    BY DEF CustodyIInv, Downloadable
  <2>2. row[a].confirmed /\ (a \notin again => ~row[a].infected /\ a \notin astray)
    BY <2>1 DEF RowInOrder
  <2>3. a \notin again => ~MarkedBySomeone(a)
    BY <2>2 DEF MarkedBySomeone, CustodyIInv, ScanInOrder
  <2> QED
    BY <2>1, <2>2, <2>3 DEF FileInOrder, ConfirmedAttachments
<1>4. CustodyIInv => CustodyInv
  BY <1>1, <1>2, <1>3 DEF CustodyInv, CustodyIInv
<1> QED
  BY <1>4, CustodyInvariance, PTL

(* When markCaseRedacted has run, the answers are tombstones, no confirmed *)
(* file is live, and the store holds only what redactCase does not look    *)
(* for (retention/sweep.ts, workers/src/attachment-scan).                  *)
THEOREM RedactionLeavesStraysOnly == CustodySpec => []RedactionLeavesOnlyStrays
<1>1. CustodyIInv => RedactionLeavesOnlyStrays
  <2> SUFFICES ASSUME CustodyIInv, case.redacted
               PROVE  /\ values = "tombstones" /\ ConfirmedAttachments = {}
                      /\ \A f \in object :
                           \/ ~row[f[1]].confirmed \/ row[f[1]].named \/ f[1] \in astray
                           \/ f[1] \in again /\ row[f[1]].storageKey = "quarantine"
                           \/ Moving(f[1])
    BY DEF RedactionLeavesOnlyStrays, Moving
  <2>1. values = "tombstones" /\ ConfirmedAttachments = {}
    BY DEF CustodyIInv, CaseInOrder
  <2>2. ASSUME NEW f \in object, row[f[1]].confirmed, ~row[f[1]].named
        PROVE  \/ f[1] \in astray \/ Moving(f[1])
               \/ f[1] \in again /\ row[f[1]].storageKey = "quarantine"
    <3>1. f[1] \in Attachment /\ f[2] \in Place /\ f = <<f[1], f[2]>>
      BY DEF CustodyIInv, TypeOK
    <3>2. FileInOrder(f[1])
      BY <3>1 DEF CustodyIInv
    <3> QED
      BY <2>2, <3>1, <3>2 DEF FileInOrder, Stray
  <2> QED
    BY <2>1, <2>2
<1> QED
  BY <1>1, CustodyInvariance, PTL
=============================================================================
