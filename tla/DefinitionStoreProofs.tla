------------------------- MODULE DefinitionStoreProofs -------------------------
(***************************************************************************)
(* Theorems about definitions: about DefinitionStore, for any number of    *)
(* requests, versions, contents and cases; and about Simulation, which     *)
(* runs the definitions that are shipped, for any amounts, people and      *)
(* length of a run.                                                        *)
(***************************************************************************)
EXTENDS DefinitionStore, Simulation, FiniteSetTheorems, WellFoundedInduction, TLAPS

-----------------------------------------------------------------------------
(* Steps that change what one handler holds.                               *)

(* A handler that goes on to an entry that is typed and sound, and holds   *)
(* the lock of the definition only if nobody else does, keeps IInv; so     *)
(* does whatever it writes to MongoDB.                                     *)
LEMMA EntryKeepsInvariant ==
  ASSUME IInv, NEW c \in Client,
         NEW r \in Request, Grounded(r), Sound(r),
         r.pc \in {"lookup", "replace", "record", "insert", "persist"}
           => \A d \in Client \ {c} : ~HoldsDefinition(d),
         request' = [request EXCEPT ![c] = r],
         document' \in [Number -> Content],
         UNCHANGED <<version, current, counter, pinned>>
  PROVE  IInv'
<1>1. \A d \in Client : request'[d] = IF d = c THEN r ELSE request[d]
  BY DEF IInv, TypeOK
<1>2. TypeOK'
  BY <1>1 DEF IInv, TypeOK, Grounded
<1>3. OneHolder'
  BY <1>1 DEF IInv, OneHolder, HoldsDefinition
<1>4. PublishedInOrder' /\ CurrentIsPublished' /\ ReferencesAreCounted'
  BY DEF IInv, PublishedInOrder, CurrentIsPublished, ReferencesAreCounted,
         Exists, Published, Pinned
<1>5. \A d \in Client : Sound(request[d])'
  BY <1>1 DEF IInv, Sound, IsDraft, Exists, Published
<1> QED
  BY <1>2, <1>3, <1>4, <1>5 DEF IInv

LEMMA IdleIsTyped ==
  /\ Idle \in Request
  /\ Idle.number = 0 /\ Idle.pc = "idle" /\ Idle.content = Bootstrap
  /\ Grounded(Idle) /\ Sound(Idle)
  BY DefinitionAssumption DEF Idle, Request, Grounded, Sound

(* Numbers of versions are among those an entry may hold.                  *)
LEMMA NumbersAreHeld == Number \subseteq 0 .. MaxVersions
  BY DefinitionAssumption DEF Number

(* Ending a transaction without a write to PostgreSQL keeps IInv.          *)
LEMMA FinishKeepsInvariant ==
  ASSUME IInv, NEW c \in Client, Finish(c),
         document' \in [Number -> Content],
         UNCHANGED <<version, current, counter, pinned>>
  PROVE  IInv'
  BY IdleIsTyped, EntryKeepsInvariant DEF Finish

(* A save begins with the lock, and keeps it.                              *)
LEMMA SaveStepsKeepInvariant ==
  ASSUME IInv, NEW c \in Client,
         \/ StartSave(c) \/ LookUpDraft(c) \/ ReplaceDocument(c) \/ LoseSession(c)
  PROVE  IInv'
<1>1. CASE StartSave(c)
  <2>1. PICK content \in Content :
          Begin(c, [Idle EXCEPT !.pc = "lookup", !.content = content])
    BY <1>1 DEF StartSave
  <2> DEFINE r == [Idle EXCEPT !.pc = "lookup", !.content = content]
  <2>2. r \in Request /\ Grounded(r) /\ Sound(r)
    BY IdleIsTyped DEF Request, Grounded, Sound
  <2>3. \A d \in Client : ~HoldsDefinition(d)
    BY <1>1 DEF StartSave, DefinitionFree
  <2>4. document' \in [Number -> Content]
    BY <1>1 DEF StartSave, IInv, TypeOK
  <2>5. request' = [request EXCEPT ![c] = r]
    BY <2>1 DEF Begin
  <2> HIDE DEF r
  <2> QED
    BY <1>1, <2>2, <2>3, <2>4, <2>5, EntryKeepsInvariant DEF StartSave
<1>2. CASE LookUpDraft(c)
  <2>1. \A d \in Client \ {c} : ~HoldsDefinition(d)
    BY <1>2 DEF LookUpDraft, IInv, OneHolder, HoldsDefinition
  <2>2. document' \in [Number -> Content]
    BY <1>2 DEF LookUpDraft, IInv, TypeOK
  <2>3. PICK n \in Number :
          \/ /\ DraftFound(n)
             /\ request' = [request EXCEPT ![c].pc = "replace", ![c].number = n]
          \/ /\ \A m \in Number : ~IsDraft(m)
             /\ NextNumber(n)
             /\ request' = [request EXCEPT ![c].pc = "insert", ![c].number = n]
    BY <1>2 DEF LookUpDraft
  <2>4. request[c] \in Request
    BY DEF IInv, TypeOK
  <2>5. CASE DraftFound(n) /\
             request' = [request EXCEPT ![c].pc = "replace", ![c].number = n]
    <3> DEFINE r == [request[c] EXCEPT !.pc = "replace", !.number = n]
    <3>1. /\ r \in Request /\ Grounded(r)
          /\ r.pc = "replace" /\ r.number = n
      BY <2>4, NumbersAreHeld DEF Request, Grounded
    <3>2. Sound(r)
      BY <2>5, <3>1 DEF Sound, DraftFound
    <3>3. request' = [request EXCEPT ![c] = r]
      BY <2>5 DEF IInv, TypeOK, Request
    <3> HIDE DEF r
    <3> QED
      BY <1>2, <2>1, <2>2, <3>1, <3>2, <3>3, EntryKeepsInvariant DEF LookUpDraft
  <2>6. CASE (\A m \in Number : ~IsDraft(m)) /\ NextNumber(n) /\
             request' = [request EXCEPT ![c].pc = "insert", ![c].number = n]
    <3> DEFINE r == [request[c] EXCEPT !.pc = "insert", !.number = n]
    <3>1. ~Exists(n)
      BY <2>6 DEF NextNumber, Number
    <3>2. \A m \in Number : m < n => Exists(m)
      <4> SUFFICES ASSUME NEW m \in Number, m < n PROVE Exists(m)
        OBVIOUS
      <4>1. n - 1 \in Number /\ Exists(n - 1) /\ (m = n - 1 \/ m < n - 1)
        BY <2>6, DefinitionAssumption DEF NextNumber, Number
      <4> QED
        BY <4>1 DEF IInv, PublishedInOrder, Exists, Published
    <3>3. \A m \in Number : Exists(m) => Published(m)
      BY <2>6 DEF IInv, TypeOK, VersionRow, Exists, IsDraft, Published
    <3>4. /\ r \in Request /\ Grounded(r)
          /\ r.pc = "insert" /\ r.number = n
      BY <2>4, NumbersAreHeld DEF Request, Grounded
    <3>5. Sound(r)
      BY <3>1, <3>2, <3>3, <3>4 DEF Sound
    <3>6. request' = [request EXCEPT ![c] = r]
      BY <2>6 DEF IInv, TypeOK, Request
    <3> HIDE DEF r
    <3> QED
      BY <1>2, <2>1, <2>2, <3>4, <3>5, <3>6, EntryKeepsInvariant DEF LookUpDraft
  <2> QED
    BY <2>3, <2>5, <2>6
<1>3. CASE ReplaceDocument(c)
  <2> DEFINE r == [request[c] EXCEPT !.pc = "record"]
  <2>1. \A d \in Client \ {c} : ~HoldsDefinition(d)
    BY <1>3 DEF ReplaceDocument, IInv, OneHolder, HoldsDefinition
  <2>2. r \in Request /\ Grounded(r) /\ Sound(r)
    BY <1>3 DEF ReplaceDocument, IInv, TypeOK, Request, Grounded, Sound
  <2>3. request' = [request EXCEPT ![c] = r]
    BY <1>3 DEF ReplaceDocument, Go, IInv, TypeOK, Request
  <2>4. document' \in [Number -> Content]
    BY <1>3 DEF ReplaceDocument, IInv, TypeOK, Request
  <2> HIDE DEF r
  <2> QED
    BY <1>3, <2>1, <2>2, <2>3, <2>4, EntryKeepsInvariant DEF ReplaceDocument
<1>4. CASE LoseSession(c)
  <2> DEFINE r == [request[c] EXCEPT !.pc = "orphaned"]
  <2>1. /\ r \in Request /\ Grounded(r) /\ Sound(r)
        /\ r.pc = "orphaned"
    BY <1>4 DEF LoseSession, IInv, TypeOK, Request, Grounded, Sound
  <2>2. request' = [request EXCEPT ![c] = r]
    BY <1>4 DEF LoseSession, Go, IInv, TypeOK, Request
  <2>3. document' \in [Number -> Content]
    BY <1>4 DEF LoseSession, IInv, TypeOK
  <2> HIDE DEF r
  <2> QED
    BY <1>4, <2>1, <2>2, <2>3, EntryKeepsInvariant DEF LoseSession
<1> QED
  BY <1>1, <1>2, <1>3, <1>4

(* A publication reads the draft without a lock and marks it.              *)
LEMMA PublishStepsKeepInvariant ==
  ASSUME IInv, NEW c \in Client, StartPublish(c) \/ MarkPublished(c)
  PROVE  IInv'
<1>1. CASE StartPublish(c)
  <2>1. PICK n \in Number :
          DraftFound(n) /\ Begin(c, [Idle EXCEPT !.pc = "mark", !.number = n])
    BY <1>1 DEF StartPublish
  <2> DEFINE r == [Idle EXCEPT !.pc = "mark", !.number = n]
  <2>2. /\ r \in Request /\ Grounded(r)
        /\ r.pc = "mark" /\ r.number = n
    BY IdleIsTyped, NumbersAreHeld DEF Request, Grounded
  <2>3. request' = [request EXCEPT ![c] = r]
    BY <2>1 DEF Begin
  <2>4. Sound(r)
    BY <2>1, <2>2 DEF Sound, DraftFound, IsDraft, Exists
  <2>5. document' \in [Number -> Content]
    BY <1>1 DEF StartPublish, IInv, TypeOK
  <2> HIDE DEF r
  <2> QED
    BY <1>1, <2>2, <2>3, <2>4, <2>5, EntryKeepsInvariant DEF StartPublish
<1>2. CASE MarkPublished(c)
  <2> DEFINE r == [request[c] EXCEPT !.pc = "point"]
  <2>1. /\ r \in Request /\ Grounded(r) /\ Sound(r)
        /\ r.pc = "point"
    BY <1>2 DEF MarkPublished, IInv, TypeOK, Request, Grounded, Sound
  <2>2. request' = [request EXCEPT ![c] = r]
    BY <1>2 DEF MarkPublished, Go, IInv, TypeOK, Request
  <2>3. document' \in [Number -> Content]
    BY <1>2 DEF MarkPublished, IInv, TypeOK
  <2> HIDE DEF r
  <2> QED
    BY <1>2, <2>1, <2>2, <2>3, EntryKeepsInvariant DEF MarkPublished
<1> QED
  BY <1>1, <1>2

(* A submission reads the current version, then takes the lock and with it *)
(* the next reference.                                                     *)
LEMMA SubmitStepsKeepInvariant ==
  ASSUME IInv, NEW c \in Client, StartSubmit(c) \/ AllocateReference(c)
  PROVE  IInv'
<1>1. CASE StartSubmit(c)
  <2>1. PICK k \in Case :
          Begin(c, [Idle EXCEPT !.pc = "allocate", !.number = current,
                                !.content = document[current], !.case = k])
    BY <1>1 DEF StartSubmit
  <2> DEFINE r == [Idle EXCEPT !.pc = "allocate", !.number = current,
                               !.content = document[current], !.case = k]
  <2>2. current \in Number /\ document[current] \in Content
    <3>1. current # 0 /\ current \in 0 .. MaxVersions
      BY <1>1 DEF StartSubmit, IInv, TypeOK
    <3>2. current \in Number
      BY <3>1, DefinitionAssumption DEF Number
    <3> QED
      BY <3>2 DEF IInv, TypeOK
  <2>3. /\ r \in Request /\ Grounded(r)
        /\ r.pc = "allocate" /\ r.number = current /\ r.content = document[current]
    BY <2>2, IdleIsTyped, NumbersAreHeld DEF Request, Grounded
  <2>4. request' = [request EXCEPT ![c] = r]
    BY <2>1 DEF Begin
  <2>5. Sound(r)
    BY <1>1, <2>3 DEF Sound, StartSubmit, IInv, CurrentIsPublished
  <2>6. document' \in [Number -> Content]
    BY <1>1 DEF StartSubmit, IInv, TypeOK
  <2> HIDE DEF r
  <2> QED
    BY <1>1, <2>3, <2>4, <2>5, <2>6, EntryKeepsInvariant DEF StartSubmit
<1>2. CASE AllocateReference(c)
  <2> DEFINE r == [request[c] EXCEPT !.pc = "persist", !.reference = counter + 1]
  <2>1. /\ request[c] \in Request /\ Grounded(request[c]) /\ Sound(request[c])
        /\ request[c].pc = "allocate"
        /\ counter \in Nat
    BY <1>2 DEF AllocateReference, IInv, TypeOK
  <2>2. /\ r \in Request /\ Grounded(r)
        /\ r.pc = "persist" /\ r.reference = counter + 1
        /\ r.number = request[c].number /\ r.content = request[c].content
    <3>1. counter + 1 \in Nat
      BY <2>1
    <3>2. r \in Request
      BY <2>1, <3>1 DEF Request
    <3>3. r.pc = "persist" /\ r.reference = counter + 1
      BY <2>1 DEF Request
    <3>4. /\ r.number = request[c].number /\ r.content = request[c].content
          /\ r.case = request[c].case
      BY <2>1 DEF Request
    <3> QED
      BY <2>1, <3>2, <3>3, <3>4 DEF Grounded
  <2>3. Sound(r)
    BY <2>1, <2>2 DEF Sound
  <2>4. request' = [request EXCEPT ![c] = r]
    BY <1>2 DEF AllocateReference, IInv, TypeOK, Request
  <2>5. \A d \in Client : ~HoldsDefinition(d)
    BY <1>2 DEF AllocateReference, DefinitionFree
  <2>6. document' \in [Number -> Content]
    BY <1>2 DEF AllocateReference, IInv, TypeOK
  <2> HIDE DEF r
  <2> QED
    BY <1>2, <2>2, <2>3, <2>4, <2>5, <2>6, EntryKeepsInvariant DEF AllocateReference
<1> QED
  BY <1>1, <1>2

(* Whatever ends without having written to PostgreSQL.                     *)
LEMMA FailuresKeepInvariant ==
  ASSUME IInv,
         \/ \E c \in Client : OrphanedReplace(c) \/ Conflict(c) \/ RollBack(c)
         \/ BreakDeadlock
  PROVE  IInv'
<1>1. ASSUME NEW c \in Client, OrphanedReplace(c) PROVE IInv'
  <2>1. document' \in [Number -> Content]
    BY <1>1 DEF OrphanedReplace, IInv, TypeOK, Request
  <2> QED
    BY <1>1, <2>1, FinishKeepsInvariant DEF OrphanedReplace
<1>2. ASSUME NEW c \in Client, Conflict(c) \/ RollBack(c) PROVE IInv'
  BY <1>2, FinishKeepsInvariant DEF Conflict, RollBack, IInv, TypeOK
<1>3. CASE BreakDeadlock
  BY <1>3, FinishKeepsInvariant DEF BreakDeadlock, IInv, TypeOK
<1> QED
  BY <1>1, <1>2, <1>3

-----------------------------------------------------------------------------
(* Steps that commit.                                                      *)

(* After a step that ends handler c, the others hold what they held.       *)
LEMMA FinishLeavesOthers ==
  ASSUME IInv, NEW c \in Client, Finish(c)
  PROVE  /\ \A d \in Client : request'[d] = IF d = c THEN Idle ELSE request[d]
         /\ request' \in [Client -> Request]
         /\ \A d \in Client : Grounded(request'[d])
         /\ OneHolder'
<1>1. /\ \A d \in Client : request'[d] = IF d = c THEN Idle ELSE request[d]
      /\ request' \in [Client -> Request]
  BY IdleIsTyped DEF IInv, TypeOK, Finish
<1>2. \A d \in Client : Grounded(request'[d])
  BY <1>1, IdleIsTyped DEF IInv, TypeOK
<1>3. OneHolder'
  BY <1>1, IdleIsTyped DEF IInv, OneHolder, HoldsDefinition
<1> QED
  BY <1>1, <1>2, <1>3

(* The version whose hash is recorded is a draft: nothing published, and   *)
(* no submission, depends on it.                                           *)
LEMMA RecordHashKeepsInvariant ==
  ASSUME IInv, NEW c \in Client, RecordHash(c)
  PROVE  IInv'
<1> DEFINE n == request[c].number
<1>1. n \in Number /\ IsDraft(n) /\ request[c].content \in Content
  BY DEF RecordHash, IInv, TypeOK, Request, Grounded, Sound
<1>2. \A m \in Number :
        /\ version'[m].status = version[m].status
        /\ m # n => version'[m] = version[m]
        /\ Published(m) => version'[m] = version[m]
  BY <1>1 DEF RecordHash, IInv, TypeOK, VersionRow, IsDraft, Published
<1>3. version' \in [Number -> VersionRow]
  BY <1>1 DEF RecordHash, IInv, TypeOK, VersionRow
<1>4. TypeOK'
  BY <1>3, FinishLeavesOthers DEF RecordHash, IInv, TypeOK, Grounded
<1>5. PublishedInOrder' /\ CurrentIsPublished' /\ ReferencesAreCounted'
  <2>1. current # 0 => current \in Number
    BY DefinitionAssumption DEF IInv, TypeOK, Number
  <2> QED
    BY <1>2, <2>1 DEF RecordHash, IInv, PublishedInOrder, CurrentIsPublished,
                      ReferencesAreCounted, Exists, Published, Pinned
<1>6. \A d \in Client : Sound(request[d])'
  <2> SUFFICES ASSUME NEW d \in Client, d # c PROVE Sound(request[d])'
    BY FinishLeavesOthers, IdleIsTyped DEF RecordHash, Sound
  <2>1. request'[d] = request[d] /\ Sound(request[d]) /\ Grounded(request[d])
    BY FinishLeavesOthers DEF RecordHash, IInv, TypeOK
  <2> QED
    BY <1>2, <2>1 DEF RecordHash, Sound, Grounded, Exists, IsDraft, Published
<1> QED
  BY <1>4, <1>5, <1>6, FinishLeavesOthers DEF RecordHash, IInv

(* A new version follows published ones; nobody else is about to open one. *)
LEMMA InsertVersionKeepsInvariant ==
  ASSUME IInv, NEW c \in Client, InsertVersion(c)
  PROVE  IInv'
<1> DEFINE n == request[c].number
<1>1. /\ n \in Number /\ request[c].content \in Content
      /\ ~Exists(n) /\ \A m \in Number : m < n => Published(m)
  BY DEF InsertVersion, IInv, TypeOK, Request, Grounded, Sound
<1>2. /\ \A m \in Number \ {n} : version'[m] = version[m]
      /\ version'[n].status = "draft"
  BY <1>1 DEF InsertVersion, IInv, TypeOK
<1>3. \A m \in Number : Exists(m) => m < n
  <2> SUFFICES ASSUME NEW m \in Number, Exists(m), ~(m < n) PROVE FALSE
    OBVIOUS
  <2>1. m = n \/ n < m
    BY <1>1, DefinitionAssumption DEF Number
  <2> QED
    BY <1>1, <2>1 DEF IInv, PublishedInOrder, Exists, Published
<1>4. TypeOK'
  <2>1. version' \in [Number -> VersionRow] /\ document' \in [Number -> Content]
    BY <1>1 DEF InsertVersion, IInv, TypeOK, VersionRow
  <2> QED
    BY <2>1, FinishLeavesOthers DEF InsertVersion, IInv, TypeOK, Grounded
<1>5. PublishedInOrder'
  <2> SUFFICES ASSUME NEW l \in Number, NEW m \in Number, Exists(m)', l < m
               PROVE  Published(l)'
    BY DEF PublishedInOrder
  <2>1. l # n
    BY <1>2, <1>3, <1>1, DefinitionAssumption DEF Exists, Number
  <2>2. Published(l)
    BY <1>1, <1>2 DEF IInv, PublishedInOrder, Exists
  <2> QED
    BY <1>2, <2>1, <2>2 DEF Published
<1>6. CurrentIsPublished' /\ ReferencesAreCounted'
  <2>1. current # 0 => current \in Number
    BY DefinitionAssumption DEF IInv, TypeOK, Number
  <2> QED
    BY <1>1, <1>2, <2>1 DEF InsertVersion, IInv, CurrentIsPublished,
                            ReferencesAreCounted, Exists, Published, Pinned
<1>7. \A d \in Client : Sound(request[d])'
  <2> SUFFICES ASSUME NEW d \in Client, d # c PROVE Sound(request[d])'
    BY FinishLeavesOthers, IdleIsTyped DEF InsertVersion, Sound
  <2>1. request'[d] = request[d] /\ Sound(request[d]) /\ Grounded(request[d])
    BY FinishLeavesOthers DEF InsertVersion, IInv, TypeOK
  <2>2. request[d].pc # "insert"
    BY DEF InsertVersion, IInv, OneHolder, HoldsDefinition
  <2> QED
    BY <1>1, <1>2, <2>1, <2>2
    DEF InsertVersion, Sound, Grounded, Exists, IsDraft, Published
<1> QED
  BY <1>4, <1>5, <1>6, <1>7, FinishLeavesOthers DEF InsertVersion, IInv

(* Nobody holds the definition, so no save has found the version a draft.  *)
LEMMA PointDefinitionKeepsInvariant ==
  ASSUME IInv, NEW c \in Client, PointDefinition(c)
  PROVE  IInv'
<1> DEFINE n == request[c].number
<1>1. n \in Number /\ Exists(n)
  BY DEF PointDefinition, IInv, TypeOK, Grounded, Sound
<1>2. \A m \in Number :
        /\ version'[m].hash = version[m].hash
        /\ m # n => version'[m] = version[m]
        /\ m = n => version'[m].status = "published"
  BY <1>1 DEF PointDefinition, IInv, TypeOK, VersionRow
<1>3. \A m \in Number : /\ Exists(m)' <=> Exists(m)
                        /\ Published(m) => Published(m)'
  BY <1>1, <1>2 DEF Exists, Published
<1>4. TypeOK'
  <2>1. version' \in [Number -> VersionRow]
    BY <1>1 DEF PointDefinition, IInv, TypeOK, VersionRow
  <2>2. current' \in 0 .. MaxVersions
    BY <1>1, NumbersAreHeld DEF PointDefinition
  <2> QED
    BY <2>1, <2>2, FinishLeavesOthers DEF PointDefinition, IInv, TypeOK, Grounded
<1>5. PublishedInOrder' /\ ReferencesAreCounted'
  BY <1>3 DEF PointDefinition, IInv, PublishedInOrder, ReferencesAreCounted, Pinned
<1>6. CurrentIsPublished'
  BY <1>1, <1>2 DEF PointDefinition, CurrentIsPublished, Published
<1>7. \A d \in Client : Sound(request[d])'
  <2> SUFFICES ASSUME NEW d \in Client, d # c PROVE Sound(request[d])'
    BY FinishLeavesOthers, IdleIsTyped DEF PointDefinition, Sound
  <2>1. request'[d] = request[d] /\ Sound(request[d]) /\ Grounded(request[d])
    BY FinishLeavesOthers DEF PointDefinition, IInv, TypeOK
  <2>2. ~HoldsDefinition(d)
    BY DEF PointDefinition, DefinitionFree
  <2> QED
    BY <1>2, <1>3, <2>1, <2>2
    DEF PointDefinition, Sound, Grounded, HoldsDefinition
<1> QED
  BY <1>4, <1>5, <1>6, <1>7, FinishLeavesOthers DEF PointDefinition, IInv

(* The handler that persists is the only one to hold a reference.          *)
LEMMA PersistSubmissionKeepsInvariant ==
  ASSUME IInv, NEW c \in Client, PersistSubmission(c)
  PROVE  IInv'
<1> DEFINE r == request[c]
<1>1. r \in Request /\ r.case \in Case /\ counter \in Nat
  BY DEF PersistSubmission, IInv, TypeOK, Grounded
<1>2. r.reference = counter + 1 /\ counter' = counter + 1
  BY DEF PersistSubmission, IInv, Sound
<1>3. /\ pinned' \in [Case -> Pin]
      /\ \A k \in Case : k # r.case => pinned'[k] = pinned[k]
      /\ pinned'[r.case].reference = r.reference
  BY <1>1 DEF PersistSubmission, IInv, TypeOK, Pin, Request
<1>4. TypeOK'
  BY <1>1, <1>2, <1>3, FinishLeavesOthers DEF PersistSubmission, IInv, TypeOK, Grounded
<1>5. PublishedInOrder' /\ CurrentIsPublished'
  BY DEF PersistSubmission, IInv, PublishedInOrder, CurrentIsPublished,
         Exists, Published
<1>6. ReferencesAreCounted'
  <2> SUFFICES ASSUME NEW k \in Case, Pinned(k)'
               PROVE  pinned'[k].reference <= counter'
    BY DEF ReferencesAreCounted
  <2>1. pinned[k].reference \in Nat
    BY DEF IInv, TypeOK, Pin
  <2>2. k # r.case => pinned[k].reference <= counter
    BY <1>3 DEF IInv, ReferencesAreCounted, Pinned
  <2> QED
    BY <1>1, <1>2, <1>3, <2>1, <2>2
<1>7. \A d \in Client : Sound(request[d])'
  <2> SUFFICES ASSUME NEW d \in Client, d # c PROVE Sound(request[d])'
    BY FinishLeavesOthers, IdleIsTyped DEF PersistSubmission, Sound
  <2>1. request'[d] = request[d] /\ Sound(request[d])
    BY FinishLeavesOthers DEF PersistSubmission, IInv
  <2>2. request[d].pc # "persist"
    BY DEF PersistSubmission, IInv, OneHolder, HoldsDefinition
  <2> QED
    BY <2>1, <2>2 DEF PersistSubmission, Sound, Exists, IsDraft, Published
<1> QED
  BY <1>4, <1>5, <1>6, <1>7, FinishLeavesOthers DEF PersistSubmission, IInv

-----------------------------------------------------------------------------
(* The theorems.                                                           *)

LEMMA InitEstablishesInvariant == Init => IInv
<1> SUFFICES ASSUME Init PROVE IInv
  OBVIOUS
<1>1. /\ \A c \in Client : request[c] = Idle
      /\ \A n \in Number : n # 1 => ~Exists(n)
      /\ \A k \in Case : ~Pinned(k)
  BY DEF Init, Exists, Pinned, NotPinned
<1>2. version \in [Number -> VersionRow] /\ pinned \in [Case -> Pin]
  BY DefinitionAssumption DEF Init, VersionRow, Pin, NotPinned
<1>3. TypeOK
  BY <1>1, <1>2, IdleIsTyped, DefinitionAssumption DEF Init, TypeOK
<1>4. OneHolder
  BY <1>1, IdleIsTyped DEF OneHolder, HoldsDefinition
<1>5. PublishedInOrder
  BY <1>1, DefinitionAssumption DEF PublishedInOrder, Number
<1>6. CurrentIsPublished /\ ReferencesAreCounted
  BY <1>1 DEF Init, CurrentIsPublished, ReferencesAreCounted
<1> QED
  BY <1>1, <1>3, <1>4, <1>5, <1>6, IdleIsTyped DEF IInv

LEMMA NextKeepsInvariant == IInv /\ [Next]_vars => IInv'
<1> SUFFICES ASSUME IInv, [Next]_vars PROVE IInv'
  OBVIOUS
<1>1. CASE UNCHANGED vars
  BY <1>1 DEF vars, IInv, TypeOK, OneHolder, PublishedInOrder, CurrentIsPublished,
              ReferencesAreCounted, Grounded, Sound, HoldsDefinition, Exists,
              IsDraft, Published, Pinned
<1>2. ASSUME NEW c \in Client,
             StartSave(c) \/ LookUpDraft(c) \/ ReplaceDocument(c) \/ LoseSession(c)
      PROVE  IInv'
  BY <1>2, SaveStepsKeepInvariant
<1>3. ASSUME NEW c \in Client, StartPublish(c) \/ MarkPublished(c) PROVE IInv'
  BY <1>3, PublishStepsKeepInvariant
<1>4. ASSUME NEW c \in Client, StartSubmit(c) \/ AllocateReference(c) PROVE IInv'
  BY <1>4, SubmitStepsKeepInvariant
<1>5. ASSUME NEW c \in Client, OrphanedReplace(c) \/ Conflict(c) \/ RollBack(c)
      PROVE  IInv'
  BY <1>5, FailuresKeepInvariant
<1>6. CASE BreakDeadlock
  BY <1>6, FailuresKeepInvariant
<1>7. ASSUME NEW c \in Client,
             RecordHash(c) \/ InsertVersion(c) \/ PointDefinition(c)
             \/ PersistSubmission(c)
      PROVE  IInv'
  BY <1>7, RecordHashKeepsInvariant, InsertVersionKeepsInvariant,
     PointDefinitionKeepsInvariant, PersistSubmissionKeepsInvariant
<1> QED
  BY <1>1, <1>2, <1>3, <1>4, <1>5, <1>6, <1>7 DEF Next, Start, Proceed

(* The inductive invariant: locks taken late and reads taken early do no   *)
(* harm to what is published, for any number of handlers and versions.     *)
THEOREM DefinitionInvariance == Spec => []IInv
  BY InitEstablishesInvariant, NextKeepsInvariant, PTL DEF Spec

(* A definition has at most one draft, its newest version.                 *)
THEOREM OneDraftAtATime == Spec => []OnlyNewestIsDraft
<1>1. IInv => OnlyNewestIsDraft
  <2> SUFFICES ASSUME IInv, NEW m \in Number, NEW n \in Number,
                      IsDraft(m), Exists(n), ~(n <= m)
               PROVE  FALSE
    BY DEF OnlyNewestIsDraft
  <2>1. m < n
    BY DefinitionAssumption DEF Number
  <2> QED
    BY <2>1 DEF IInv, PublishedInOrder, IsDraft, Published
<1> QED
  BY <1>1, DefinitionInvariance, PTL

(* Two submissions never hold the same reference, nor one already used.    *)
THEOREM ReferencesHandedOutOnce == Spec => []ReferencesAreHandedOutOnce
<1>1. IInv => ReferencesAreHandedOutOnce
  <2> SUFFICES ASSUME IInv, NEW c \in Client, request[c].pc = "persist"
               PROVE  /\ \A d \in Client : request[d].pc = "persist" => d = c
                      /\ \A k \in Case :
                           Pinned(k) => pinned[k].reference # request[c].reference
    BY DEF ReferencesAreHandedOutOnce
  <2>1. \A d \in Client : request[d].pc = "persist" => d = c
    BY DEF IInv, OneHolder, HoldsDefinition
  <2>2. ASSUME NEW k \in Case, Pinned(k)
        PROVE  pinned[k].reference # request[c].reference
    <3>1. request[c].reference = counter + 1 /\ counter \in Nat
      BY DEF IInv, TypeOK, Sound
    <3>2. pinned[k].reference <= counter /\ pinned[k].reference \in Nat
      BY <2>2 DEF IInv, TypeOK, Pin, ReferencesAreCounted
    <3> QED
      BY <3>1, <3>2
  <2> QED
    BY <2>1, <2>2
<1> QED
  BY <1>1, DefinitionInvariance, PTL

(* Which rows of process_versions a step can change, and how.              *)
LEMMA PublishedRowsKept ==
  ASSUME IInv, [Next]_vars, NEW n \in Number, Published(n)
  PROVE  version'[n] = version[n]
<1>1. ASSUME NEW c \in Client, RecordHash(c) PROVE version'[n] = version[n]
  BY <1>1 DEF RecordHash, IInv, TypeOK, Sound, IsDraft, Published
<1>2. ASSUME NEW c \in Client, InsertVersion(c) PROVE version'[n] = version[n]
  BY <1>2 DEF InsertVersion, IInv, TypeOK, Exists, Published
<1>3. ASSUME NEW c \in Client, PointDefinition(c) PROVE version'[n] = version[n]
  BY <1>3 DEF PointDefinition, IInv, TypeOK, VersionRow, Published
<1>4. CASE UNCHANGED version
  BY <1>4
<1> QED
  BY <1>1, <1>2, <1>3, <1>4
  DEF Next, Start, Proceed, vars, StartSave, LookUpDraft, ReplaceDocument,
      LoseSession, OrphanedReplace, StartPublish, MarkPublished, StartSubmit,
      AllocateReference, PersistSubmission, Conflict, RollBack, BreakDeadlock

(* What is recorded of a published version is never recorded anew.         *)
THEOREM PublishedRowsStay == Spec => PublishedRowsAreFixed
<1>1. IInv /\ [Next]_vars =>
        [\A n \in Number : Published(n) => version'[n] = version[n]]_vars
  BY PublishedRowsKept
<1> QED
  BY <1>1, DefinitionInvariance, PTL DEF Spec, PublishedRowsAreFixed

-----------------------------------------------------------------------------
(* Refinement of PublicationLog.                                           *)

(* Unless a row is published, the log stays as it is.                      *)
LEMMA LogKept ==
  ASSUME \A n \in Number : Published(n)' <=> Published(n),
         \A n \in Number : Published(n) => version'[n] = version[n]
  PROVE  PublishedLog' = PublishedLog
  BY DEF PublishedLog

LEMMA InitImplementsLog == Init => Log!Init
<1> SUFFICES ASSUME Init PROVE Log!Init
  OBVIOUS
<1>1. \A n \in Number : ~Published(n)
  BY DEF Init, Published
<1> QED
  BY <1>1 DEF Init, Log!Init, PublishedLog

(* A publication is one of the log, or repeats one.                        *)
LEMMA PublicationImplementsLog ==
  ASSUME IInv, NEW c \in Client, PointDefinition(c)
  PROVE  Log!Next \/ UNCHANGED <<PublishedLog, counter, pinned>>
<1> DEFINE n == request[c].number
<1>1. n \in Number /\ Exists(n) /\ version[n].hash \in Content
  BY DEF PointDefinition, IInv, TypeOK, Grounded, Sound, VersionRow
<1>2. \A m \in Number :
        /\ version'[m].hash = version[m].hash
        /\ Published(m)' <=> Published(m) \/ m = n
  BY <1>1 DEF PointDefinition, IInv, TypeOK, VersionRow, Published
<1>3. CASE Published(n)
  <2>1. PublishedLog' = PublishedLog
    BY <1>2, <1>3 DEF PublishedLog
  <2> QED
    BY <2>1 DEF PointDefinition
<1>4. CASE ~Published(n)
  <2>1. PublishedLog' = [PublishedLog EXCEPT ![n] = version[n].hash]
    BY <1>1, <1>2 DEF PublishedLog
  <2>2. \A m \in Number : Published(m) => PublishedLog[m] # NotPublished
    BY DefinitionAssumption DEF PublishedLog, IInv, TypeOK, VersionRow
  <2>3. \A m \in Number : m < n => Published(m)
    BY <1>1 DEF IInv, PublishedInOrder
  <2>4. Log!Publish(n, version[n].hash)
    BY <1>1, <1>4, <2>1, <2>2, <2>3 DEF PointDefinition, Log!Publish, PublishedLog
  <2> QED
    BY <1>1, <2>4 DEF Log!Next
<1> QED
  BY <1>3, <1>4

(* A submission is one of the log: what it read is still there.            *)
LEMMA SubmissionImplementsLog ==
  ASSUME IInv, NEW c \in Client, PersistSubmission(c)
  PROVE  Log!Next
<1> DEFINE n == request[c].number
           k == request[c].case
<1>1. n \in Number /\ k \in Case
  BY DEF PersistSubmission, IInv, TypeOK, Grounded
<1>2. Published(n) /\ version[n].hash = request[c].content
  BY DEF PersistSubmission, IInv, Sound
<1>3. PublishedLog[n] = request[c].content /\ PublishedLog[n] # NotPublished
  BY <1>1, <1>2, DefinitionAssumption DEF PublishedLog, IInv, TypeOK, VersionRow
<1>4. pinned[k] = NotPinned
  BY <1>1 DEF PersistSubmission, Persistable, Pinned
<1>5. counter' = request[c].reference /\ counter' > counter
  BY DEF PersistSubmission, IInv, TypeOK, Sound
<1>6. PublishedLog' = PublishedLog
  BY DEF PersistSubmission, PublishedLog, Published
<1>7. Log!Submit(k, n)
  BY <1>3, <1>4, <1>5, <1>6 DEF PersistSubmission, Log!Submit
<1> QED
  BY <1>1, <1>7 DEF Log!Next

LEMMA StepImplementsLog ==
  ASSUME IInv, [Next]_vars
  PROVE  Log!Next \/ UNCHANGED <<PublishedLog, counter, pinned>>
<1>1. ASSUME NEW c \in Client, RecordHash(c) \/ InsertVersion(c)
      PROVE  UNCHANGED <<PublishedLog, counter, pinned>>
  <2>1. \A n \in Number : Published(n) => version'[n] = version[n]
    BY <1>1, PublishedRowsKept DEF Next, Proceed
  <2>2. request[c].number \in Number /\ ~Published(request[c].number)
    BY <1>1 DEF RecordHash, InsertVersion, IInv, TypeOK, Grounded, Sound,
                Exists, IsDraft, Published
  <2>3. \A n \in Number : Published(n)' <=> Published(n)
    BY <1>1, <2>2 DEF RecordHash, InsertVersion, IInv, TypeOK, VersionRow, Published
  <2> QED
    BY <1>1, <2>1, <2>3, LogKept DEF RecordHash, InsertVersion
<1>2. CASE UNCHANGED <<version, counter, pinned>>
  BY <1>2 DEF PublishedLog, Published
<1> QED
  BY <1>1, <1>2, PublicationImplementsLog, SubmissionImplementsLog
  DEF Next, Start, Proceed, vars, StartSave, LookUpDraft, ReplaceDocument,
      LoseSession, OrphanedReplace, StartPublish, MarkPublished, StartSubmit,
      AllocateReference, Conflict, RollBack, BreakDeadlock

(* The definition implements the publication log, also when sessions are   *)
(* lost: every step is one of the log, or cannot be seen.                  *)
THEOREM DefinitionImplementsLog == Spec => ImplementsLog
<1>1. IInv /\ [Next]_vars => [Log!Next]_<<PublishedLog, counter, pinned>>
  BY StepImplementsLog
<1> QED
  BY <1>1, InitImplementsLog, DefinitionInvariance, PTL
  DEF Spec, ImplementsLog, Log!Spec

-----------------------------------------------------------------------------
(* The documents, when no session is lost.                                 *)

(* What a submission has read, and what a case was submitted with, is what *)
(* the document of its version holds.                                      *)
DocumentsStay ==
  /\ \A c \in Client : request[c].pc # "orphaned"
  /\ \A c \in Client : request[c].pc \in {"allocate", "persist"} =>
       document[request[c].number] = request[c].content
  /\ \A k \in Case : Pinned(k) =>
       /\ pinned[k].number \in Number
       /\ Published(pinned[k].number)
       /\ document[pinned[k].number] = pinned[k].content
       /\ version[pinned[k].number].hash = pinned[k].content

(* A step writes the document of no published version.                     *)
LEMMA PublishedDocumentsKept ==
  ASSUME IInv, DocumentsStay, [Next]_vars, NEW n \in Number, Published(n)
  PROVE  document'[n] = document[n]
<1>1. ASSUME NEW c \in Client, ReplaceDocument(c) PROVE document'[n] = document[n]
  BY <1>1 DEF ReplaceDocument, IInv, TypeOK, Sound, IsDraft, Published
<1>2. ASSUME NEW c \in Client, InsertVersion(c) PROVE document'[n] = document[n]
  BY <1>2 DEF InsertVersion, IInv, TypeOK, Exists, Published
<1>3. ASSUME NEW c \in Client PROVE ~OrphanedReplace(c)
  BY DEF DocumentsStay, OrphanedReplace
<1>4. CASE UNCHANGED document
  BY <1>4
<1> QED
  BY <1>1, <1>2, <1>3, <1>4
  DEF Next, Start, Proceed, vars, StartSave, LookUpDraft, RecordHash,
      LoseSession, StartPublish, MarkPublished, PointDefinition, StartSubmit,
      AllocateReference, PersistSubmission, Conflict, RollBack, BreakDeadlock

LEMMA InitHasNoDocuments == Init => DocumentsStay
  BY IdleIsTyped DEF Init, DocumentsStay, Pinned

(* Where the entries come from that DocumentsStay speaks about.            *)
LEMMA EntriesOfSubmissions ==
  ASSUME Fragile = {}, IInv, [Next]_vars, NEW d \in Client
  PROVE  \/ request'[d] = request[d]
         \/ request'[d].pc \notin {"orphaned", "allocate", "persist"}
         \/ /\ request'[d].pc = "allocate"
            /\ current # 0
            /\ request'[d].number = current
            /\ request'[d].content = document[current]
         \/ /\ request[d].pc = "allocate"
            /\ request'[d].pc = "persist"
            /\ request'[d].number = request[d].number
            /\ request'[d].content = request[d].content
<1>1. request \in [Client -> Request]
  BY DEF IInv, TypeOK
<1>2. CASE UNCHANGED vars
  BY <1>2 DEF vars
<1>3. ASSUME NEW c \in Client, Finish(c)
      PROVE  request'[d] = request[d] \/ request'[d].pc = "idle"
  BY <1>1, <1>3, IdleIsTyped DEF Finish
<1>4. CASE BreakDeadlock
  BY <1>3, <1>4 DEF BreakDeadlock
<1>5. ASSUME NEW c \in Client,
             \/ RecordHash(c) \/ InsertVersion(c) \/ OrphanedReplace(c)
             \/ PointDefinition(c) \/ PersistSubmission(c) \/ Conflict(c) \/ RollBack(c)
      PROVE  request'[d] = request[d] \/ request'[d].pc = "idle"
  BY <1>3, <1>5 DEF RecordHash, InsertVersion, OrphanedReplace, PointDefinition,
                    PersistSubmission, Conflict, RollBack
<1>6. ASSUME NEW c \in Client, StartSave(c) \/ StartPublish(c)
      PROVE  request'[d] = request[d] \/ request'[d].pc \in {"lookup", "mark"}
  <2>1. ASSUME StartSave(c)
        PROVE  request'[d] = request[d] \/ request'[d].pc = "lookup"
    BY <1>1, <2>1, IdleIsTyped DEF StartSave, Begin, Request
  <2>2. ASSUME StartPublish(c)
        PROVE  request'[d] = request[d] \/ request'[d].pc = "mark"
    BY <1>1, <2>2, IdleIsTyped DEF StartPublish, Begin, Request
  <2> QED
    BY <1>6, <2>1, <2>2
<1>7. ASSUME NEW c \in Client, LookUpDraft(c) \/ ReplaceDocument(c) \/ MarkPublished(c)
      PROVE  \/ request'[d] = request[d]
             \/ request'[d].pc \in {"replace", "insert", "record", "point"}
  BY <1>1, <1>7 DEF LookUpDraft, ReplaceDocument, MarkPublished, Go, Request
<1>8. ASSUME NEW c \in Client, StartSubmit(c)
      PROVE  \/ request'[d] = request[d]
             \/ /\ request'[d].pc = "allocate"
                /\ current # 0
                /\ request'[d].number = current
                /\ request'[d].content = document[current]
  BY <1>1, <1>8, IdleIsTyped DEF StartSubmit, Begin, Request
<1>9. ASSUME NEW c \in Client, AllocateReference(c)
      PROVE  \/ request'[d] = request[d]
             \/ /\ request[d].pc = "allocate"
                /\ request'[d].pc = "persist"
                /\ request'[d].number = request[d].number
                /\ request'[d].content = request[d].content
  BY <1>1, <1>9 DEF AllocateReference, Request
<1>10. ASSUME NEW c \in Client PROVE ~LoseSession(c)
  BY DEF LoseSession
<1> QED
  BY <1>2, <1>4, <1>5, <1>6, <1>7, <1>8, <1>9, <1>10 DEF Next, Start, Proceed

LEMMA NextKeepsDocuments ==
  ASSUME Fragile = {}, IInv, DocumentsStay, [Next]_vars
  PROVE  DocumentsStay'
<1>1. \A n \in Number : Published(n) => version'[n] = version[n] /\ Published(n)'
  BY PublishedRowsKept DEF Published
<1>2. \A n \in Number : Published(n) => document'[n] = document[n]
  BY PublishedDocumentsKept
<1>3. ASSUME NEW d \in Client
      PROVE  /\ request'[d].pc # "orphaned"
             /\ request'[d].pc \in {"allocate", "persist"} =>
                  document'[request'[d].number] = request'[d].content
  <2>1. request[d].pc # "orphaned"
    BY DEF DocumentsStay
  <2>2. request[d].pc \in {"allocate", "persist"} =>
          document'[request[d].number] = request[d].content
    BY <1>2 DEF DocumentsStay, IInv, TypeOK, Grounded, Sound
  <2>3. current # 0 => document'[current] = document[current]
    BY <1>2, DefinitionAssumption DEF IInv, TypeOK, CurrentIsPublished, Number
  <2> QED
    BY <2>1, <2>2, <2>3, EntriesOfSubmissions
<1>4. ASSUME NEW k \in Case, Pinned(k)'
      PROVE  (/\ pinned[k].number \in Number
              /\ Published(pinned[k].number)
              /\ document[pinned[k].number] = pinned[k].content
              /\ version[pinned[k].number].hash = pinned[k].content)'
  <2>1. CASE pinned'[k] = pinned[k]
    <3>1. Pinned(k)
      BY <1>4, <2>1 DEF Pinned
    <3> QED
      BY <1>1, <1>2, <2>1, <3>1 DEF DocumentsStay, Published
  <2>2. CASE pinned'[k] # pinned[k]
    <3>1. PICK c \in Client : PersistSubmission(c) /\ request[c].case = k
      <4>1. ASSUME NEW c \in Client, PersistSubmission(c) PROVE request[c].case = k
        BY <2>2, <4>1 DEF PersistSubmission, IInv, TypeOK
      <4>2. \E c \in Client : PersistSubmission(c)
        BY <2>2 DEF Next, Start, Proceed, vars, StartSave, LookUpDraft,
                    ReplaceDocument, RecordHash, InsertVersion, LoseSession,
                    OrphanedReplace, StartPublish, MarkPublished, PointDefinition,
                    StartSubmit, AllocateReference, Conflict, RollBack, BreakDeadlock
      <4> QED
        BY <4>1, <4>2
    <3>2. /\ request[c].number \in Number
          /\ Published(request[c].number)
          /\ version[request[c].number].hash = request[c].content
          /\ document[request[c].number] = request[c].content
      BY <3>1 DEF PersistSubmission, IInv, TypeOK, Grounded, Sound, DocumentsStay
    <3>3. /\ pinned'[k].number = request[c].number
          /\ pinned'[k].content = request[c].content
      BY <3>1 DEF PersistSubmission, IInv, TypeOK
    <3> QED
      BY <1>1, <1>2, <3>2, <3>3 DEF Published
  <2> QED
    BY <2>1, <2>2
<1> QED
  BY <1>3, <1>4 DEF DocumentsStay

(* If no session is lost, the document a case is pinned to is what the     *)
(* case was submitted with, and passes its integrity check, forever.       *)
THEOREM PinnedDocumentsStay ==
  ASSUME Fragile = {} PROVE Spec => []PinnedDocumentsVerify
<1>1. DocumentsStay => PinnedDocumentsVerify
  BY DEF DocumentsStay, PinnedDocumentsVerify
<1>2. IInv /\ DocumentsStay /\ [Next]_vars => DocumentsStay'
  BY NextKeepsDocuments
<1> QED
  BY <1>1, <1>2, InitHasNoDocuments, DefinitionInvariance, PTL DEF Spec

-----------------------------------------------------------------------------
(* The shipped definitions.                                                *)

(* How far along a step of a shipped process is.                           *)
Rank(k) ==
  IF k \in {"managerApproval", "riskOwnerApproval", "hrSetup"} THEN 1
  ELSE IF k \in {"directorApproval", "securityApproval", "securityAcceptance", "itSetup"} THEN 2
  ELSE IF k \in {"financeApproval", "facilitiesSetup"} THEN 3 ELSE 4

(* The decisions that the simulator's buttons get through with.            *)
Proceeds(step) == step.allowedDecisions \ step.requireCommentOn

(* Whatever is decided at k, a run comes to x next, if it is not there.    *)
Inevitable(doc, k, x) ==
  \/ k = x
  \/ \A d \in Proceeds(doc.steps[k]) :
       \A i \in DOMAIN doc.steps[k].transitions[d] : doc.steps[k].transitions[d][i].to = x

(* The rules end with a default, and each leads further up or to an end.   *)
RulesClimb(doc, k, rules) ==
  /\ rules # <<>> /\ rules[Len(rules)].when = Always
  /\ \A i \in DOMAIN rules :
       \/ rules[i].to \in TerminalKey
       \/ rules[i].to \in DOMAIN doc.steps /\ Rank(k) < Rank(rules[i].to)

(* A threshold leads to a step, and whichever rule is before it leads to a *)
(* step from which there is no other way.                                  *)
RulesAgree(doc, rules) ==
  \A i \in DOMAIN rules :
    rules[i].when # Always =>
      /\ rules[i].to \in DOMAIN doc.steps
      /\ \A j \in 1 .. (i - 1) : /\ rules[j].to \in DOMAIN doc.steps
                                 /\ Inevitable(doc, rules[j].to, rules[i].to)

(* A step for people the engine finds, with a button that needs no comment *)
(* and, of these, approving as the only one if there are thresholds.       *)
IsRung(doc, k) ==
  LET step == doc.steps[k] IN
  /\ step.type \in {"approval", "action"} /\ step.assignment # "lineManagerOfAssignee"
  /\ Proceeds(step) # {} /\ Proceeds(step) \subseteq Decision
  /\ \A d \in Proceeds(step) : RulesClimb(doc, k, step.transitions[d])
  /\ IF "approve" \in Proceeds(step)
     THEN Proceeds(step) = {"approve"} /\ RulesAgree(doc, step.transitions["approve"])
     ELSE step.transitions["approve"] = <<>>

(* Whoever tries out such a document climbs from its start to an end.      *)
IsLadder(doc) ==
  doc.start \in DOMAIN doc.steps /\ \A k \in DOMAIN doc.steps : IsRung(doc, k)

(* What the documents build their steps from.                              *)
LEMMA ApprovalAsBuilt ==
  ASSUME NEW a, NEW rules
  PROVE  LET step == ApprovalStep(a, rules) IN
         /\ DOMAIN step = {"type", "assignment", "allowSelfApproval", "allowedDecisions",
                           "requireCommentOn", "transitions", "due", "reminder", "escalation"}
         /\ step.type = "approval" /\ step.assignment = a /\ Proceeds(step) = {"approve"}
         /\ step.transitions["approve"] = rules
<1>1. Leads([approve |-> rules, reject |-> <<To("$rejected")>>])["approve"] = rules
  BY DEF Leads, Decision
<1> QED
  BY <1>1 DEF ApprovalStep, Proceeds

LEMMA ActionAsBuilt ==
  ASSUME NEW a, NEW to
  PROVE  LET step == ActionStep(a, to) IN
         /\ DOMAIN step = {"type", "assignment", "allowSelfApproval", "allowedDecisions",
                           "requireCommentOn", "transitions", "due", "reminder", "escalation"}
         /\ step.type = "action" /\ step.assignment = a /\ Proceeds(step) = {"complete"}
         /\ step.transitions["approve"] = <<>>
         /\ step.transitions["complete"] = <<To(to)>>
<1>1. /\ Leads([complete |-> <<To(to)>>])["approve"] = <<>>
      /\ Leads([complete |-> <<To(to)>>])["complete"] = <<To(to)>>
  BY DEF Leads, Decision
<1> QED
  BY <1>1 DEF ActionStep, Proceeds

LEMMA TimedAsBuilt ==
  ASSUME NEW step, NEW reminder, NEW escalation
  PROVE  LET timed == Sla(step, reminder, escalation) IN
         /\ DOMAIN timed = DOMAIN step
         /\ "type" \in DOMAIN step => timed.type = step.type
         /\ "assignment" \in DOMAIN step => timed.assignment = step.assignment
         /\ "transitions" \in DOMAIN step => timed.transitions = step.transitions
         /\ {"allowedDecisions", "requireCommentOn"} \subseteq DOMAIN step
              => Proceeds(timed) = Proceeds(step)
<1> DEFINE one == [step EXCEPT !.due = TRUE]
           two == [one EXCEPT !.reminder = reminder]
           all == [two EXCEPT !.escalation = escalation]
<1>1. Sla(step, reminder, escalation) = all
  BY DEF Sla
<1>2. DOMAIN one = DOMAIN step /\ \A f \in DOMAIN step \ {"due"} : one[f] = step[f]
  OBVIOUS
<1>3. DOMAIN two = DOMAIN one /\ \A f \in DOMAIN one \ {"reminder"} : two[f] = one[f]
  OBVIOUS
<1>4. DOMAIN all = DOMAIN two /\ \A f \in DOMAIN two \ {"escalation"} : all[f] = two[f]
  OBVIOUS
<1> HIDE DEF one, two, all
<1>5. DOMAIN all = DOMAIN step
  BY <1>2, <1>3, <1>4
<1>6. \A f \in DOMAIN step \ {"due", "reminder", "escalation"} : all[f] = step[f]
  BY <1>2, <1>3, <1>4
<1> QED
  BY <1>1, <1>5, <1>6 DEF Proceeds

(* Steps whose rules climb are rungs.                                      *)
LEMMA ApprovalIsRung ==
  ASSUME NEW doc, NEW k, NEW a, NEW rules, NEW reminder, NEW escalation,
         \/ doc.steps[k] = ApprovalStep(a, rules)
         \/ doc.steps[k] = Sla(ApprovalStep(a, rules), reminder, escalation),
         a # "lineManagerOfAssignee",
         RulesClimb(doc, k, rules), RulesAgree(doc, rules)
  PROVE  IsRung(doc, k)
<1>1. /\ doc.steps[k].type = "approval" /\ doc.steps[k].assignment = a
      /\ Proceeds(doc.steps[k]) = {"approve"}
      /\ doc.steps[k].transitions["approve"] = rules
  BY ApprovalAsBuilt, TimedAsBuilt
<1> QED
  BY <1>1 DEF IsRung, Decision

LEMMA ActionIsRung ==
  ASSUME NEW doc, NEW k, NEW a, NEW to, NEW reminder, NEW escalation,
         \/ doc.steps[k] = ActionStep(a, to)
         \/ doc.steps[k] = Sla(ActionStep(a, to), reminder, escalation),
         a # "lineManagerOfAssignee",
         RulesClimb(doc, k, <<To(to)>>)
  PROVE  IsRung(doc, k)
<1>1. /\ doc.steps[k].type = "action" /\ doc.steps[k].assignment = a
      /\ Proceeds(doc.steps[k]) = {"complete"}
      /\ doc.steps[k].transitions["approve"] = <<>>
      /\ doc.steps[k].transitions["complete"] = <<To(to)>>
  BY ActionAsBuilt, TimedAsBuilt
<1> QED
  BY <1>1 DEF IsRung, Decision

LEMMA OneRule ==
  ASSUME NEW doc, NEW k, NEW x,
         x \in TerminalKey \/ (x \in DOMAIN doc.steps /\ Rank(k) < Rank(x))
  PROVE  RulesClimb(doc, k, <<To(x)>>) /\ RulesAgree(doc, <<To(x)>>)
<1>1. /\ <<To(x)>> # <<>> /\ DOMAIN <<To(x)>> = {1} /\ Len(<<To(x)>>) = 1
      /\ <<To(x)>>[1].when = Always /\ <<To(x)>>[1].to = x
  BY DEF To
<1> QED
  BY <1>1 DEF RulesClimb, RulesAgree

LEMMA TwoRules ==
  ASSUME NEW doc, NEW k, NEW condition, NEW x \in DOMAIN doc.steps, NEW y, NEW rules,
         rules = <<When(condition, x), To(y)>>,
         Rank(k) < Rank(x),
         y \in TerminalKey \/ (y \in DOMAIN doc.steps /\ Rank(k) < Rank(y))
  PROVE  RulesClimb(doc, k, rules) /\ RulesAgree(doc, rules)
<1>1. /\ rules # <<>> /\ DOMAIN rules = {1, 2} /\ Len(rules) = 2
      /\ rules[1].to = x /\ rules[2].when = Always /\ rules[2].to = y
  BY DEF To, When
<1>2. \A j \in 1 .. (1 - 1) : FALSE
  OBVIOUS
<1>3. RulesClimb(doc, k, rules)
  BY <1>1 DEF RulesClimb
<1>4. RulesAgree(doc, rules)
  BY <1>1, <1>2 DEF RulesAgree
<1> QED
  BY <1>3, <1>4

LEMMA Ranks ==
  /\ \A k \in {"managerApproval", "riskOwnerApproval", "hrSetup"} : Rank(k) = 1
  /\ \A k \in {"directorApproval", "securityApproval", "securityAcceptance", "itSetup"} :
       Rank(k) = 2
  /\ \A k \in {"financeApproval", "facilitiesSetup"} : Rank(k) = 3
  /\ Rank("itFulfilment") = 4 /\ Rank("payrollSetup") = 4
  BY DEF Rank

(* The shipped documents, one by one.                                      *)
LEMMA EquipmentIsLadder == IsLadder(EquipmentRequest)
<1> DEFINE doc == EquipmentRequest
           thousand == Exceeds("cost", 1000)
           thresholds == <<When(thousand, "financeApproval"), To("$completed")>>
<1>1. doc.start = "managerApproval" /\ DOMAIN doc.steps = {"managerApproval", "financeApproval"}
  BY DEF EquipmentRequest
<1>2. /\ doc.steps["managerApproval"] = ApprovalStep("lineManager", thresholds)
      /\ doc.steps["financeApproval"] = ApprovalStep("role approver", <<To("$completed")>>)
  BY DEF EquipmentRequest
<1> HIDE DEF doc
<1>3. RulesClimb(doc, "managerApproval", thresholds) /\ RulesAgree(doc, thresholds)
  <2>1. Rank("managerApproval") < Rank("financeApproval") /\ "$completed" \in TerminalKey
    BY Ranks DEF TerminalKey
  <2>2. "financeApproval" \in DOMAIN doc.steps
    BY <1>1
  <2> HIDE DEF thousand
  <2>3. thresholds = <<When(thousand, "financeApproval"), To("$completed")>>
    OBVIOUS
  <2> HIDE DEF thresholds
  <2> QED
    BY <2>1, <2>2, <2>3, TwoRules
<1>4. /\ RulesClimb(doc, "financeApproval", <<To("$completed")>>)
      /\ RulesAgree(doc, <<To("$completed")>>)
  BY <1>1, Ranks, OneRule DEF TerminalKey
<1> HIDE DEF thresholds
<1>5. IsRung(doc, "managerApproval")
  BY <1>2, <1>3, ApprovalIsRung
<1>6. IsRung(doc, "financeApproval")
  BY <1>2, <1>4, ApprovalIsRung
<1>7. IsLadder(doc)
  BY <1>1, <1>5, <1>6 DEF IsLadder
<1> QED
  BY <1>7 DEF doc

LEMMA AccessIsLadder == IsLadder(AccessRequest)
<1> DEFINE doc == AccessRequest
<1>1. doc.start = "managerApproval" /\ DOMAIN doc.steps = {"managerApproval", "securityApproval"}
  BY DEF AccessRequest
<1>2. /\ doc.steps["managerApproval"] = ApprovalStep("lineManager", <<To("securityApproval")>>)
      /\ doc.steps["securityApproval"] = ApprovalStep("group security", <<To("$completed")>>)
  BY DEF AccessRequest
<1> HIDE DEF doc
<1>3. /\ RulesClimb(doc, "managerApproval", <<To("securityApproval")>>)
      /\ RulesAgree(doc, <<To("securityApproval")>>)
  BY <1>1, Ranks, OneRule DEF TerminalKey
<1>4. /\ RulesClimb(doc, "securityApproval", <<To("$completed")>>)
      /\ RulesAgree(doc, <<To("$completed")>>)
  BY <1>1, Ranks, OneRule DEF TerminalKey
<1>5. IsRung(doc, "managerApproval")
  BY <1>2, <1>3, ApprovalIsRung
<1>6. IsRung(doc, "securityApproval")
  BY <1>2, <1>4, ApprovalIsRung
<1>7. IsLadder(doc)
  BY <1>1, <1>5, <1>6 DEF IsLadder
<1> QED
  BY <1>7 DEF doc

LEMMA OnboardingIsLadder == IsLadder(Onboarding)
<1> DEFINE doc == Onboarding
<1>1. /\ doc.start = "hrSetup"
      /\ DOMAIN doc.steps = {"hrSetup", "itSetup", "facilitiesSetup", "payrollSetup"}
  BY DEF Onboarding
<1>2. /\ doc.steps["hrSetup"] = ActionStep("group hr", "itSetup")
      /\ doc.steps["itSetup"] = ActionStep("group itSupport", "facilitiesSetup")
      /\ doc.steps["facilitiesSetup"] = ActionStep("group facilities", "payrollSetup")
      /\ doc.steps["payrollSetup"] = ActionStep("group payroll", "$completed")
  BY DEF Onboarding
<1> HIDE DEF doc
<1>3. RulesClimb(doc, "hrSetup", <<To("itSetup")>>) /\ RulesAgree(doc, <<To("itSetup")>>)
  BY <1>1, Ranks, OneRule DEF TerminalKey
<1>4. /\ RulesClimb(doc, "itSetup", <<To("facilitiesSetup")>>)
      /\ RulesAgree(doc, <<To("facilitiesSetup")>>)
  BY <1>1, Ranks, OneRule DEF TerminalKey
<1>5. /\ RulesClimb(doc, "facilitiesSetup", <<To("payrollSetup")>>)
      /\ RulesAgree(doc, <<To("payrollSetup")>>)
  BY <1>1, Ranks, OneRule DEF TerminalKey
<1>6. RulesClimb(doc, "payrollSetup", <<To("$completed")>>) /\ RulesAgree(doc, <<To("$completed")>>)
  BY <1>1, Ranks, OneRule DEF TerminalKey
<1>7. IsRung(doc, "hrSetup")
  BY <1>2, <1>3, ActionIsRung
<1>8. IsRung(doc, "itSetup")
  BY <1>2, <1>4, ActionIsRung
<1>9. IsRung(doc, "facilitiesSetup")
  BY <1>2, <1>5, ActionIsRung
<1>10. IsRung(doc, "payrollSetup")
  BY <1>2, <1>6, ActionIsRung
<1>11. IsLadder(doc)
  BY <1>1, <1>7, <1>8, <1>9, <1>10 DEF IsLadder
<1> QED
  BY <1>11 DEF doc

LEMMA LeaveIsLadder == IsLadder(AnnualLeave)
<1> DEFINE doc == AnnualLeave
<1>1. doc.start = "managerApproval" /\ DOMAIN doc.steps = {"managerApproval"}
  BY DEF AnnualLeave
<1>2. /\ doc.steps["managerApproval"] =
           Sla(ApprovalStep("lineManager", <<To("$completed")>>), TRUE, <<>>)
  BY DEF AnnualLeave
<1> HIDE DEF doc
<1>3. /\ RulesClimb(doc, "managerApproval", <<To("$completed")>>)
      /\ RulesAgree(doc, <<To("$completed")>>)
  BY <1>1, Ranks, OneRule DEF TerminalKey
<1>4. IsRung(doc, "managerApproval")
  BY <1>2, <1>3, ApprovalIsRung
<1>5. IsLadder(doc)
  BY <1>1, <1>4 DEF IsLadder
<1> QED
  BY <1>5 DEF doc

LEMMA ExceptionIsLadder == IsLadder(PolicyException)
<1> DEFINE doc == PolicyException
<1>1. /\ doc.start = "riskOwnerApproval"
      /\ DOMAIN doc.steps = {"riskOwnerApproval", "securityAcceptance"}
  BY DEF PolicyException
<1>2. /\ doc.steps["riskOwnerApproval"] =
           Sla(ApprovalStep("lineManager", <<To("securityAcceptance")>>), TRUE,
               <<"lineManagerOfAssignee", "role admin">>)
      /\ doc.steps["securityAcceptance"] =
           Sla(ApprovalStep("group security", <<To("$completed")>>), FALSE, <<>>)
  BY DEF PolicyException
<1> HIDE DEF doc
<1>3. /\ RulesClimb(doc, "riskOwnerApproval", <<To("securityAcceptance")>>)
      /\ RulesAgree(doc, <<To("securityAcceptance")>>)
  BY <1>1, Ranks, OneRule DEF TerminalKey
<1>4. /\ RulesClimb(doc, "securityAcceptance", <<To("$completed")>>)
      /\ RulesAgree(doc, <<To("$completed")>>)
  BY <1>1, Ranks, OneRule DEF TerminalKey
<1>5. IsRung(doc, "riskOwnerApproval")
  BY <1>2, <1>3, ApprovalIsRung
<1>6. IsRung(doc, "securityAcceptance")
  BY <1>2, <1>4, ApprovalIsRung
<1>7. IsLadder(doc)
  BY <1>1, <1>5, <1>6 DEF IsLadder
<1> QED
  BY <1>7 DEF doc

LEMMA ExpenseIsLadder == IsLadder(ExpenseClaim)
<1> DEFINE doc == ExpenseClaim
<1>1. /\ doc.start = "managerApproval"
      /\ DOMAIN doc.steps = {"managerApproval", "financeApproval", "directorApproval"}
  BY DEF ExpenseClaim
<1>2. /\ doc.steps["managerApproval"] = ApprovalStep("lineManager", ExpenseRules)
      /\ doc.steps["financeApproval"] = ApprovalStep("role approver", <<To("$completed")>>)
      /\ doc.steps["directorApproval"] = ApprovalStep("role admin", <<To("financeApproval")>>)
  BY DEF ExpenseClaim
<1> HIDE DEF doc
<1>3. /\ ExpenseRules # <<>> /\ DOMAIN ExpenseRules = {1, 2, 3} /\ Len(ExpenseRules) = 3
      /\ ExpenseRules[1].to = "directorApproval" /\ ExpenseRules[2].to = "financeApproval"
      /\ ExpenseRules[3].to = "$completed" /\ ExpenseRules[3].when = Always
  BY DEF ExpenseRules, When, To
<1>4. RulesClimb(doc, "managerApproval", ExpenseRules)
  BY <1>1, <1>3, Ranks DEF RulesClimb, TerminalKey
<1>5. Inevitable(doc, "directorApproval", "financeApproval")
  <2> DEFINE rules == <<To("financeApproval")>>
  <2>2. DOMAIN rules = {1} /\ rules[1].to = "financeApproval"
    BY DEF To
  <2>3. doc.steps["directorApproval"] = ApprovalStep("role admin", rules)
    BY <1>2
  <2> HIDE DEF rules
  <2>1. /\ Proceeds(doc.steps["directorApproval"]) = {"approve"}
        /\ doc.steps["directorApproval"].transitions["approve"] = rules
    <3>1. ASSUME NEW a PROVE /\ Proceeds(ApprovalStep(a, rules)) = {"approve"}
                             /\ ApprovalStep(a, rules).transitions["approve"] = rules
      BY ApprovalAsBuilt
    <3> QED
      BY <2>3, <3>1
  <2> QED
    BY <2>1, <2>2 DEF Inevitable
<1>6. RulesAgree(doc, ExpenseRules)
  <2>1. (\A j \in 1 .. (1 - 1) : FALSE) /\ (\A j \in 1 .. (2 - 1) : j = 1)
    OBVIOUS
  <2> QED
    BY <1>1, <1>3, <1>5, <2>1 DEF RulesAgree
<1>7. /\ RulesClimb(doc, "financeApproval", <<To("$completed")>>)
      /\ RulesAgree(doc, <<To("$completed")>>)
  BY <1>1, Ranks, OneRule DEF TerminalKey
<1>8. /\ RulesClimb(doc, "directorApproval", <<To("financeApproval")>>)
      /\ RulesAgree(doc, <<To("financeApproval")>>)
  BY <1>1, Ranks, OneRule DEF TerminalKey
<1>9. IsRung(doc, "managerApproval")
  BY <1>2, <1>4, <1>6, ApprovalIsRung
<1>10. IsRung(doc, "financeApproval")
  BY <1>2, <1>7, ApprovalIsRung
<1>11. IsRung(doc, "directorApproval")
  BY <1>2, <1>8, ApprovalIsRung
<1>12. IsLadder(doc)
  BY <1>1, <1>9, <1>10, <1>11 DEF IsLadder
<1> QED
  BY <1>12 DEF doc

LEMMA LaptopIsLadder == IsLadder(LaptopRequest)
<1> DEFINE doc == LaptopRequest
           thresholds ==
             <<When(Exceeds("estimatedCost", 1000), "financeApproval"), To("itFulfilment")>>
           decisions == [approve |-> thresholds, reject |-> <<To("$rejected")>>,
                         return |-> <<To("$returnedToRequester")>>]
<1>1. /\ doc.start = "managerApproval"
      /\ DOMAIN doc.steps = {"managerApproval", "financeApproval", "itFulfilment"}
  BY DEF LaptopRequest
<1>2. /\ doc.steps["managerApproval"].type = "approval"
      /\ doc.steps["managerApproval"].assignment = "lineManager"
      /\ Proceeds(doc.steps["managerApproval"]) = {"approve"}
      /\ doc.steps["managerApproval"].transitions = Leads(decisions)
  BY DEF LaptopRequest, Proceeds
<1>3. /\ doc.steps["financeApproval"] =
           Sla(ApprovalStep("role approver", <<To("itFulfilment")>>), FALSE, <<>>)
      /\ doc.steps["itFulfilment"] = Sla(ActionStep("group itSupport", "$completed"), FALSE, <<>>)
  BY DEF LaptopRequest
<1>4. Leads(decisions)["approve"] = thresholds
  BY DEF Leads, Decision
<1>5. thresholds = <<When(Exceeds("estimatedCost", 1000), "financeApproval"), To("itFulfilment")>>
  OBVIOUS
<1> HIDE DEF doc, decisions, thresholds
<1>6. RulesClimb(doc, "managerApproval", thresholds) /\ RulesAgree(doc, thresholds)
  <2>1. /\ {"financeApproval", "itFulfilment"} \subseteq DOMAIN doc.steps
        /\ Rank("managerApproval") < Rank("financeApproval")
        /\ Rank("managerApproval") < Rank("itFulfilment")
    BY <1>1, Ranks
  <2>2. \A x \in DOMAIN doc.steps, y \in DOMAIN doc.steps :
          Rank("managerApproval") < Rank(x) /\ Rank("managerApproval") < Rank(y) =>
            \A condition : thresholds = <<When(condition, x), To(y)>> =>
              RulesClimb(doc, "managerApproval", thresholds) /\ RulesAgree(doc, thresholds)
    BY TwoRules
  <2> QED
    BY <1>5, <2>1, <2>2
<1>7. /\ RulesClimb(doc, "financeApproval", <<To("itFulfilment")>>)
      /\ RulesAgree(doc, <<To("itFulfilment")>>)
  BY <1>1, Ranks, OneRule
<1>8. RulesClimb(doc, "itFulfilment", <<To("$completed")>>)
  BY <1>1, OneRule DEF TerminalKey
<1>9. IsRung(doc, "managerApproval")
  BY <1>2, <1>4, <1>6 DEF IsRung, Decision
<1>10. IsRung(doc, "financeApproval")
  BY <1>3, <1>7, ApprovalIsRung
<1>11. IsRung(doc, "itFulfilment")
  BY <1>3, <1>8, ActionIsRung
<1>12. IsLadder(doc)
  BY <1>1, <1>9, <1>10, <1>11 DEF IsLadder
<1> QED
  BY <1>12 DEF doc

(* Cloning replaces assignments, and nobody by the manager of an assignee. *)
LEMMA CloneIsLadder ==
  ASSUME NEW doc, IsLadder(doc), "steps" \in DOMAIN doc, "start" \in DOMAIN doc,
         \A k \in DOMAIN doc.steps :
           {"type", "assignment", "allowedDecisions", "requireCommentOn", "transitions"}
             \subseteq DOMAIN doc.steps[k]
  PROVE  IsLadder(AsCloned(doc))
<1> DEFINE clone == AsCloned(doc)
<1>1. clone.start = doc.start /\ DOMAIN clone.steps = DOMAIN doc.steps
  BY DEF AsCloned
<1>2. \A k \in DOMAIN doc.steps : clone.steps[k] = ClonedStep(doc.steps[k])
  BY DEF AsCloned
<1> HIDE DEF clone
<1>3. ASSUME NEW k \in DOMAIN doc.steps
      PROVE  /\ clone.steps[k].type = doc.steps[k].type
             /\ clone.steps[k].assignment = ResetGroup(doc.steps[k].assignment)
             /\ Proceeds(clone.steps[k]) = Proceeds(doc.steps[k])
             /\ clone.steps[k].transitions = doc.steps[k].transitions
  <2>1. \A f \in DOMAIN doc.steps[k] \ {"assignment"} :
          ClonedStep(doc.steps[k])[f] = doc.steps[k][f]
    BY DEF ClonedStep
  <2>2. ClonedStep(doc.steps[k]).assignment = ResetGroup(doc.steps[k].assignment)
    BY DEF ClonedStep
  <2> QED
    BY <1>2, <2>1, <2>2 DEF Proceeds
<1>4. \A k, x : k \in DOMAIN doc.steps /\ Inevitable(doc, k, x) => Inevitable(clone, k, x)
  BY <1>3 DEF Inevitable
<1>5. \A k, rules : RulesClimb(doc, k, rules) => RulesClimb(clone, k, rules)
  BY <1>1 DEF RulesClimb
<1>6. \A rules : RulesAgree(doc, rules) => RulesAgree(clone, rules)
  BY <1>1, <1>4 DEF RulesAgree
<1>7. ASSUME NEW k \in DOMAIN doc.steps PROVE IsRung(clone, k)
  <2>1. IsRung(doc, k)
    BY DEF IsLadder
  <2>2. ResetGroup(doc.steps[k].assignment) # "lineManagerOfAssignee"
    BY <2>1 DEF IsRung, ResetGroup
  <2> QED
    BY <1>3, <1>5, <1>6, <2>1, <2>2 DEF IsRung
<1>8. IsLadder(clone)
  BY <1>1, <1>7 DEF IsLadder
<1> QED
  BY <1>8 DEF clone

(* Whatever the simulator is opened on is a ladder.                        *)
LEMMA DocumentsAreLadders ==
  ASSUME SimulationAssumption, NEW doc \in Documents
  PROVE  IsLadder(doc)
<1>1. \A t \in SystemTemplates : IsLadder(t)
  BY EquipmentIsLadder, AccessIsLadder, ExpenseIsLadder, OnboardingIsLadder, LeaveIsLadder,
     ExceptionIsLadder DEF SystemTemplates
<1>2. \A t \in SystemTemplates : "steps" \in DOMAIN t /\ "start" \in DOMAIN t
  BY DEF SystemTemplates, EquipmentRequest, AccessRequest, ExpenseClaim, Onboarding, AnnualLeave,
         PolicyException
<1>3. \A t \in SystemTemplates : \A k \in DOMAIN t.steps : t.steps[k] \in Step
  BY DEF SimulationAssumption, Documents, IsDocument
<1>4. \A t \in SystemTemplates : IsLadder(AsCloned(t))
  BY <1>1, <1>2, <1>3, CloneIsLadder DEF Step
<1> QED
  BY <1>1, <1>4, LaptopIsLadder DEF Documents

----------------------------------------------------------------------------
(* What the engine answers.                                                *)

LEMMA SmallestNumber ==
  ASSUME NEW S, S \subseteq Nat, S # {}
  PROVE  \E n \in S : \A m \in S : n <= m
<1>1. PICK n \in S : \A m \in S : <<m, n>> \notin OpToRel(<, Nat)
  BY WFMin, NatLessThanWellFounded
<1>2. ASSUME NEW m \in S PROVE n <= m
  <2>1. n \in Nat /\ m \in Nat /\ <<m, n>> \in Nat \X Nat
    BY <1>1
  <2>2. ~(m < n)
    BY <1>1, <2>1 DEF OpToRel
  <2> QED
    BY <2>1, <2>2
<1> QED
  BY <1>1, <1>2

(* Of rules that hold, one comes first.                                    *)
LEMMA FirstIsOne ==
  ASSUME NEW S, S \subseteq Nat, S # {}
  PROVE  \E n \in S : First(S) = {n} /\ \A m \in S : n <= m
<1>1. PICK n \in S : \A m \in S : n <= m
  BY SmallestNumber
<1>3. ASSUME NEW m \in First(S) PROVE m = n
  <2>1. m \in S /\ m <= n /\ n <= m
    BY <1>1 DEF First
  <2>2. m \in Nat /\ n \in Nat
    BY <1>1, <2>1
  <2> QED
    BY <2>1, <2>2
<1>4. n \in First(S)
  BY <1>1 DEF First
<1> QED
  BY <1>1, <1>3, <1>4

(* No shipped step is automatic, so a run goes no further than the key it  *)
(* is sent to.                                                             *)
LEMMA RunIsArrival ==
  ASSUME NEW ctx, NEW k \in Key, ~IsAutomatic(ctx, k)
  PROVE  RunFromStepKey(ctx, k) = Arrive(ctx, k)
<1> DEFINE N == 0 .. MaxAutomaticSteps
           Passes(f) == f = [n \in N |-> IF n = 0 THEN {k}
                                         ELSE UNION {PassAutomatic(ctx, j) : j \in f[n - 1]}]
           still == [n \in N |-> {k}]
<1>1. MaxAutomaticSteps \in Nat \ {0}
  BY BoundsAssumption
<1>2. PassAutomatic(ctx, k) = {k}
  BY DEF PassAutomatic
<1>3. UNION {PassAutomatic(ctx, j) : j \in {k}} = {k}
  <2>1. {PassAutomatic(ctx, j) : j \in {k}} = {{k}}
    BY <1>2
  <2> QED
    BY <2>1
<1>4. Passes(still)
  <2>1. \A n \in N : n # 0 => n - 1 \in N
    BY <1>1
  <2>2. \A n \in N :
          still[n] = IF n = 0 THEN {k} ELSE UNION {PassAutomatic(ctx, j) : j \in still[n - 1]}
    BY <1>3, <2>1
  <2> QED
    BY <2>2
<1>5. ASSUME NEW f, Passes(f) PROVE f[MaxAutomaticSteps - 1] = {k}
  <2> DEFINE other == {n \in N : f[n] # {k}}
  <2>1. \A n \in N : f[n] = IF n = 0 THEN {k} ELSE UNION {PassAutomatic(ctx, j) : j \in f[n - 1]}
    BY <1>5
  <2>2. other = {}
    <3>1. SUFFICES ASSUME other # {} PROVE FALSE
      OBVIOUS
    <3>2. PICK n \in other : \A m \in other : n <= m
      <4>1. other \subseteq Nat
        BY <1>1
      <4> HIDE DEF other
      <4> QED
        BY <3>1, <4>1, SmallestNumber
    <3>3. n \in N /\ n # 0
      BY <2>1, <3>2
    <3>4. n - 1 \in N /\ n - 1 \notin other
      BY <1>1, <3>2, <3>3
    <3>5. f[n - 1] = {k}
      BY <3>4
    <3> QED
      BY <1>3, <2>1, <3>2, <3>3, <3>5
  <2> QED
    BY <1>1, <2>2
<1> DEFINE reached == CHOOSE f : Passes(f)
<1>6. Passes(reached)
  <2> HIDE DEF Passes, still
  <2> QED
    BY <1>4
<1>7. reached[MaxAutomaticSteps - 1] = {k}
  <2> HIDE DEF Passes, reached
  <2> QED
    BY <1>5, <1>6
<1>8. RunFromStepKey(ctx, k)
        = UNION {Arrive(ctx, j) : j \in Key \cap reached[MaxAutomaticSteps - 1]}
  BY DEF RunFromStepKey
<1>9. {Arrive(ctx, j) : j \in Key \cap {k}} = {Arrive(ctx, k)}
  OBVIOUS
<1> HIDE DEF reached
<1> QED
  BY <1>7, <1>8, <1>9

(* Whom a step of a shipped process is for: somebody else than the         *)
(* requester, if there is a line manager.                                  *)
LEMMA SomebodyElse ==
  ASSUME SimulationAssumption, hasLineManager \in BOOLEAN,
         NEW s \in Strategy, s # "lineManagerOfAssignee"
  PROVE  /\ BuildContext.who[s] # Submitter
         /\ BuildContext.who[s] = Nobody => ~hasLineManager
<1>1. BuildContext.who[s] =
        IF s = "lineManager" THEN (IF hasLineManager THEN Manager ELSE Nobody) ELSE s
  <2>1. CASE s = "lineManager"
    BY <2>1 DEF BuildContext
  <2>2. CASE s # "lineManager"
    BY <2>2 DEF BuildContext
  <2> QED
    BY <2>1, <2>2
<1>2. s # "lineManager" => s \in Pool
  BY DEF SimulationAssumption
<1> QED
  BY <1>1, <1>2, PeopleAssumption DEF SimulationAssumption

(* The context is that of the document.                                    *)
LEMMA ContextOfDocument ==
  BuildContext.doc = definition /\ BuildContext.facts \subseteq Condition
  BY DEF BuildContext

(* Where a run lands: at an end, at the step with its task, or, for want   *)
(* of a line manager, with nobody.                                         *)
Lands(o, k) ==
  /\ o.moves
  /\ \/ /\ k \in TerminalKey /\ o.status \in TerminalStatus /\ o.step = NoStep /\ o.tasks = {}
     \/ /\ k \in DOMAIN definition.steps /\ o.status = "unassigned" /\ o.tasks = {}
        /\ ~hasLineManager
     \/ /\ k \in DOMAIN definition.steps /\ o.status = "active" /\ o.step = k
        /\ \E t : o.tasks = {t} /\ t.step = k

LEMMA ArrivalLands ==
  ASSUME SimulationAssumption, definition \in Documents, hasLineManager \in BOOLEAN,
         NEW k \in TerminalKey \cup DOMAIN definition.steps
  PROVE  \E o : RunFromStepKey(BuildContext, k) = {o} /\ Lands(o, k)
<1> DEFINE ctx == BuildContext
           step == ctx.doc.steps[k]
<1>1. /\ ctx.doc = definition /\ IsDocument(definition) /\ IsLadder(definition)
      /\ DOMAIN definition.steps \subseteq StepKey
  BY ContextOfDocument, DocumentsAreLadders DEF SimulationAssumption, IsDocument
<1>2. k \in Key /\ ReturnedKey \notin TerminalKey \cup StepKey /\ TerminalKey \cap StepKey = {}
  BY <1>1, KeysAssumption DEF Key, TerminalKey, ReturnedKey
<1>3. ~IsAutomatic(ctx, k)
  BY <1>1 DEF IsAutomatic, IsLadder, IsRung
<1>4. RunFromStepKey(ctx, k) = Arrive(ctx, k)
  BY <1>2, <1>3, RunIsArrival
<1>5. CASE k \in TerminalKey
  <2>1. k # ReturnedKey /\ k \notin StepKey /\ k \notin DOMAIN ctx.doc.steps
    BY <1>1, <1>2, <1>5
  <2>2. Arrive(ctx, k) = {EnterTerminal(k)}
    BY <1>3, <1>5, <2>1 DEF Arrive
  <2>3. Lands(EnterTerminal(k), k)
    BY <1>5 DEF Lands, EnterTerminal, TerminalKey, TerminalOutcome, TerminalStatus
  <2> QED
    BY <1>4, <2>2, <2>3
<1>6. CASE k \in DOMAIN definition.steps
  <2>1. Arrive(ctx, k) = EnterStep(ctx, k)
    BY <1>1, <1>2, <1>3, <1>6 DEF Arrive
  <2>2. step \in Step /\ step.assignment \in Strategy /\ step.assignment # "lineManagerOfAssignee"
    BY <1>1, <1>6 DEF IsDocument, IsLadder, IsRung, Step
  <2>3. /\ ctx.who[step.assignment] # Submitter
        /\ ctx.who[step.assignment] = Nobody => ~hasLineManager
    BY <2>2, SomebodyElse
  <2> DEFINE who == ctx.who[step.assignment]
             task == [step |-> k, assignee |-> who, level |-> 0, timers |-> ComputeTimerSpecs(step)]
             entered == [moves |-> TRUE, status |-> "active", step |-> k, tasks |-> {task},
                         event |-> "task.created"]
  <2>4. EntryAssignments(ctx, step) = {[assignee |-> a, level |-> 0] : a \in {who} \ {Nobody}}
    BY <2>3 DEF EntryAssignments, SelfApproval
  <2>5. CASE who = Nobody
    <3>1. EntryAssignments(ctx, step) = {}
      BY <2>4, <2>5
    <3>2. EnterStep(ctx, k) = {EnterUnassigned(k)}
      BY <3>1 DEF EnterStep
    <3>3. Lands(EnterUnassigned(k), k)
      BY <1>6, <2>3, <2>5 DEF Lands, EnterUnassigned
    <3> QED
      BY <1>4, <2>1, <3>2, <3>3
  <2>6. CASE who # Nobody
    <3> DEFINE entry == [assignee |-> who, level |-> 0]
    <3>1. EntryAssignments(ctx, step) = {entry} /\ {entry} # {}
      BY <2>4, <2>6
    <3>2. entry.assignee = who /\ entry.level = 0
      OBVIOUS
    <3> DEFINE Entered(e) == [moves |-> TRUE, status |-> "active", step |-> k,
                              tasks |-> {[step |-> k, assignee |-> e.assignee, level |-> e.level,
                                          timers |-> ComputeTimerSpecs(step)]},
                              event |-> "task.created"]
    <3>5. EnterStep(ctx, k) = {Entered(e) : e \in EntryAssignments(ctx, step)}
      BY <3>1 DEF EnterStep
    <3>6. Entered(entry) = entered
      BY <3>2
    <3>3. EnterStep(ctx, k) = {entered}
      <4> HIDE DEF entry, who, entered, Entered
      <4> QED
        BY <3>1, <3>5, <3>6
    <3>4. Lands(entered, k)
      <4>1. /\ entered.moves /\ entered.status = "active" /\ entered.step = k
            /\ entered.tasks = {task} /\ task.step = k
        OBVIOUS
      <4> HIDE DEF entered, task
      <4> QED
        BY <1>6, <4>1 DEF Lands
    <3> QED
      BY <1>4, <2>1, <3>3, <3>4
  <2> QED
    BY <2>5, <2>6
<1> QED
  BY <1>5, <1>6

(* The rule a decision without a comment selects, of those that hold the   *)
(* first.                                                                  *)
LEMMA DecisionSelects ==
  ASSUME SimulationAssumption, definition \in Documents,
         NEW k \in DOMAIN definition.steps, NEW d \in Proceeds(definition.steps[k])
  PROVE  LET rules == definition.steps[k].transitions[d] IN
         \E i \in DOMAIN rules :
           /\ SelectNextStepKey(BuildContext, definition.steps[k], d) = {rules[i].to}
           /\ \A j \in DOMAIN rules : rules[j].when \in BuildContext.facts => i <= j
<1> DEFINE step == definition.steps[k]
           rules == step.transitions[d]
           matching == {i \in DOMAIN rules : rules[i].when \in BuildContext.facts \cup {Always}}
<1>1. IsLadder(definition) /\ step \in Step /\ d \in Decision
  BY DocumentsAreLadders DEF SimulationAssumption, IsDocument, Proceeds, Step
<1>2. rules \in Seq(Rule) /\ RulesClimb(definition, k, rules)
  BY <1>1 DEF Step, IsLadder, IsRung
<1>3. Len(rules) \in DOMAIN rules /\ DOMAIN rules \subseteq Nat /\ rules[Len(rules)].when = Always
  BY <1>2 DEF RulesClimb
<1>4. matching # {} /\ matching \subseteq Nat
  BY <1>3
<1>5. PICK i \in matching : First(matching) = {i} /\ \A j \in matching : i <= j
  <2> HIDE DEF matching
  <2> QED
    BY <1>4, FirstIsOne
<1>6. SelectNextStepKey(BuildContext, step, d) = {rules[j].to : j \in First(matching)}
  BY DEF SelectNextStepKey
<1>7. SelectNextStepKey(BuildContext, step, d) = {rules[i].to}
  <2> HIDE DEF matching, rules
  <2> QED
    BY <1>5, <1>6
<1>8. i \in DOMAIN rules /\ \A j \in DOMAIN rules : rules[j].when \in BuildContext.facts => i <= j
  BY <1>5
<1> QED
  BY <1>7, <1>8
----------------------------------------------------------------------------
(* The inductive invariant of a run.                                       *)

(* Where the rules of k that hold for the answers lead to.                 *)
AskedBy(k) ==
  LET rules == definition.steps[k].transitions["approve"] IN
  {rules[i].to : i \in {j \in DOMAIN rules : rules[j].when \in BuildContext.facts}}

TraceEntry ==
  [at : DOMAIN definition.steps \cup {NoStep}, decision : Decision \cup {"submit"},
   accepted : BOOLEAN]

(* The page has one task to offer as long as nothing was refused.          *)
RunInOrder ==
  /\ run = [status |-> run.status, step |-> run.step, open |-> run.open]
  /\ trace = <<>> => run = DraftCase
  /\ trace # <<>> => run.status # "draft"
  /\ run.status = "active" => run.step \in DOMAIN definition.steps
  /\ run.status = "active" /\ ~Refused => \E t : run.open = {t} /\ t.step = run.step
  /\ run.status # "active" \/ Refused => run.open = {}
  /\ run.status = "unassigned" => ~hasLineManager

(* Runs only climb.                                                        *)
TraceInOrder ==
  \A i \in DOMAIN trace :
    trace[i].accepted =>
      /\ trace[i].at = NoStep => i = 1
      /\ trace[i].at # NoStep /\ run.status = "active" => Rank(trace[i].at) < Rank(run.step)

(* What was asked for on the way has been visited or lies ahead.           *)
ApprovalsLieAhead ==
  run.status = "active" /\ ~Refused =>
    \A k \in Visited : \A x \in AskedBy(k) : x \in Visited \/ Inevitable(definition, run.step, x)

SimulationIInv ==
  /\ definition \in Documents /\ hasLineManager \in BOOLEAN /\ trace \in Seq(TraceEntry)
  /\ RunInOrder /\ TraceInOrder /\ ApprovalsLieAhead /\ StepsComeOnce /\ ThresholdsAreMet


(* A decision without a comment takes a run where one rule leads.          *)
LEMMA DecisionMoves ==
  ASSUME SimulationAssumption, definition \in Documents, hasLineManager \in BOOLEAN,
         run.status = "active", run.step \in DOMAIN definition.steps,
         NEW d \in Proceeds(definition.steps[run.step])
  PROVE  LET rules == definition.steps[run.step].transitions[d] IN
         \E i \in DOMAIN rules : \E o :
           /\ TaskDecided(BuildContext, run, d, FALSE) = {o} /\ Lands(o, rules[i].to)
           /\ \A j \in DOMAIN rules : rules[j].when \in BuildContext.facts => i <= j
<1> DEFINE step == definition.steps[run.step]
           rules == step.transitions[d]
<1>1. PICK i \in DOMAIN rules :
        /\ SelectNextStepKey(BuildContext, step, d) = {rules[i].to}
        /\ \A j \in DOMAIN rules : rules[j].when \in BuildContext.facts => i <= j
  BY DecisionSelects
<1>2. rules[i].to \in TerminalKey \cup DOMAIN definition.steps
  BY DocumentsAreLadders DEF IsLadder, IsRung, RulesClimb
<1>3. PICK o : RunFromStepKey(BuildContext, rules[i].to) = {o} /\ Lands(o, rules[i].to)
  BY <1>2, ArrivalLands
<1>4. DecisionAccepted(BuildContext, run, d, FALSE)
  BY ContextOfDocument DEF DecisionAccepted, Proceeds, TerminalStatus
<1> DEFINE x == rules[i].to
<1>5. SelectNextStepKey(BuildContext, BuildContext.doc.steps[run.step], d) = {x}
  BY <1>1, ContextOfDocument
<1>6. TaskDecided(BuildContext, run, d, FALSE) = UNION {RunFromStepKey(BuildContext, k) : k \in {x}}
  <2> HIDE DEF x
  <2> QED
    BY <1>4, <1>5 DEF TaskDecided
<1>7. TaskDecided(BuildContext, run, d, FALSE) = RunFromStepKey(BuildContext, x)
  <2> HIDE DEF x
  <2> QED
    BY <1>6
<1> QED
  BY <1>1, <1>3, <1>7

(* Thresholds lead to steps, never to an end.                              *)
LEMMA AskedAreSteps ==
  ASSUME SimulationAssumption, definition \in Documents, NEW k \in DOMAIN definition.steps
  PROVE  AskedBy(k) \subseteq DOMAIN definition.steps
<1> DEFINE rules == definition.steps[k].transitions["approve"]
<1>1. ASSUME NEW i \in DOMAIN rules, rules[i].when \in BuildContext.facts
      PROVE  rules[i].to \in DOMAIN definition.steps
  <2>1. rules[i].when # Always
    BY <1>1, ContextOfDocument DEF SimulationAssumption
  <2>2. IsRung(definition, k)
    BY DocumentsAreLadders DEF IsLadder
  <2>3. rules # <<>>
    BY <1>1
  <2>4. RulesAgree(definition, rules)
    BY <2>2, <2>3 DEF IsRung
  <2> QED
    BY <1>1, <2>1, <2>4 DEF RulesAgree
<1> QED
  BY <1>1 DEF AskedBy

LEMMA RanksAreNumbers == \A k : Rank(k) \in Nat
  BY DEF Rank

(* Before a run everything is in order.                                    *)
LEMMA NothingRunYet ==
  ASSUME definition \in Documents, hasLineManager \in BOOLEAN, run = DraftCase, trace = <<>>
  PROVE  SimulationIInv
<1>1. trace \in Seq(TraceEntry) /\ DOMAIN trace = {}
  OBVIOUS
<1>2. ~Refused /\ Visited = {}
  BY <1>1 DEF Refused, Visited
<1>3. /\ run.status = "draft" /\ run.open = {}
      /\ run = [status |-> run.status, step |-> run.step, open |-> run.open]
  BY DEF DraftCase
<1>4. RunInOrder
  BY <1>3 DEF RunInOrder
<1>5. TraceInOrder /\ ApprovalsLieAhead /\ StepsComeOnce /\ ThresholdsAreMet
  BY <1>1, <1>2, <1>3 DEF TraceInOrder, ApprovalsLieAhead, StepsComeOnce, ThresholdsAreMet
<1> QED
  BY <1>1, <1>4, <1>5 DEF SimulationIInv

LEMMA NothingRunAgain ==
  ASSUME definition' \in Documents, hasLineManager' \in BOOLEAN, run' = DraftCase, trace' = <<>>
  PROVE  SimulationIInv'
<1>1. trace' \in Seq(TraceEntry') /\ DOMAIN trace' = {}
  OBVIOUS
<1>2. ~Refused' /\ Visited' = {}
  BY <1>1 DEF Refused, Visited
<1>3. /\ run'.status = "draft" /\ run'.open = {}
      /\ run' = [status |-> run'.status, step |-> run'.step, open |-> run'.open]
  BY DEF DraftCase
<1>4. RunInOrder'
  BY <1>3 DEF RunInOrder
<1>5. TraceInOrder' /\ ApprovalsLieAhead' /\ StepsComeOnce' /\ ThresholdsAreMet'
  BY <1>1, <1>2, <1>3 DEF TraceInOrder, ApprovalsLieAhead, StepsComeOnce, ThresholdsAreMet
<1> QED
  BY <1>1, <1>4, <1>5 DEF SimulationIInv

(* The context, and what is asked for, depend on what stays during a run.  *)
LEMMA ContextStays ==
  ASSUME UNCHANGED <<definition, answer, hasLineManager>>
  PROVE  /\ BuildContext' = BuildContext /\ TraceEntry' = TraceEntry
         /\ \A k : AskedBy(k)' = AskedBy(k)
<1>1. BuildContext' = BuildContext
  BY DEF BuildContext, Holds
<1> QED
  BY <1>1 DEF AskedBy, TraceEntry

(* What a run is after an answer of the engine.                            *)
LEMMA AnswerIsInOrder ==
  ASSUME UNCHANGED <<definition, answer, hasLineManager>>, trace' # <<>>, ~Refused',
         NEW o, NEW x, Lands(o, x),
         run' = [status |-> o.status, step |-> o.step, open |-> o.tasks]
  PROVE  /\ RunInOrder'
         /\ run'.status = "active" => run'.step = x /\ x \in DOMAIN definition.steps
         /\ run'.status = "completed" => x \in TerminalKey
<1>1. run'.status = o.status /\ run'.step = o.step /\ run'.open = o.tasks
  OBVIOUS
<1>2. o.status # "draft"
  BY DEF Lands, TerminalStatus
<1>3. run' = [status |-> run'.status, step |-> run'.step, open |-> run'.open]
  BY <1>1
<1> QED
  BY <1>1, <1>2, <1>3 DEF RunInOrder, Lands, TerminalStatus

(* The first answer of the engine.                                         *)
LEMMA StartIsInOrder ==
  ASSUME SimulationAssumption, SimulationIInv, StartSimulation
  PROVE  SimulationIInv'
<1> DEFINE x == definition.start
           entry == [at |-> NoStep, decision |-> "submit", accepted |-> TRUE]
<1>1. /\ UNCHANGED <<definition, answer, hasLineManager>> /\ trace' = <<entry>>
      /\ run' = ApplyOutput(CaseSubmitted(BuildContext, DraftCase), {})
      /\ run = DraftCase /\ definition \in Documents /\ hasLineManager \in BOOLEAN
  BY DEF StartSimulation, SimulationIInv, RunInOrder
<1>2. x \in DOMAIN definition.steps /\ DOMAIN definition.steps \subseteq StepKey
  BY <1>1, DocumentsAreLadders DEF IsLadder, SimulationAssumption, IsDocument
<1>3. PICK o : RunFromStepKey(BuildContext, x) = {o} /\ Lands(o, x)
  BY <1>1, <1>2, ArrivalLands
<1>4. CaseSubmitted(BuildContext, DraftCase) = {o}
  BY <1>3, ContextOfDocument DEF CaseSubmitted, DraftCase
<1>5. run' = [status |-> o.status, step |-> o.step, open |-> o.tasks]
  <2>1. (CHOOSE out \in {o} : TRUE) = o /\ {o} # {}
    OBVIOUS
  <2>2. o.moves /\ (run.open \ {}) \cup o.tasks = o.tasks
    BY <1>1, <1>3 DEF DraftCase, Lands
  <2> QED
    BY <1>1, <1>4, <2>1, <2>2 DEF ApplyOutput
<1>6. /\ trace' \in Seq(TraceEntry) /\ DOMAIN trace' = {1} /\ trace'[1] = entry /\ trace' # <<>>
  <2>1. entry \in TraceEntry
    BY DEF TraceEntry
  <2> HIDE DEF entry
  <2> QED
    BY <1>1, <2>1
<1>7. entry.accepted /\ entry.at = NoStep
  OBVIOUS
<1> HIDE DEF entry
<1>8. ~Refused' /\ Visited' = {}
  <2>1. NoStep \notin DOMAIN definition.steps
    BY <1>2, KeysAssumption DEF Key
  <2>2. ~Refused'
    BY <1>6, <1>7 DEF Refused
  <2>3. {trace'[i].at : i \in DOMAIN trace'} = {NoStep}
    BY <1>6, <1>7
  <2> QED
    BY <1>1, <2>1, <2>2, <2>3 DEF Visited
<1>9. RunInOrder'
  BY <1>1, <1>3, <1>5, <1>6, <1>8, AnswerIsInOrder
<1>10. TraceInOrder' /\ ApprovalsLieAhead' /\ ThresholdsAreMet'
  BY <1>6, <1>7, <1>8 DEF TraceInOrder, ApprovalsLieAhead, ThresholdsAreMet
<1>11. StepsComeOnce'
  BY <1>6, <1>9 DEF StepsComeOnce, RunInOrder
<1> QED
  BY <1>1, <1>6, <1>9, <1>10, <1>11, ContextStays DEF SimulationIInv

(* While a run is under way and nothing was refused, its task is the one   *)
(* of the step it is at.                                                   *)
LEMMA TaskIsOfTheStep ==
  ASSUME SimulationAssumption, SimulationIInv, NEW task \in run.open
  PROVE  /\ run.status = "active" /\ ~Refused /\ run.open = {task} /\ task.step = run.step
         /\ run.step \in DOMAIN definition.steps /\ run.step # ReturnedKey /\ run.step # NoStep
         /\ Buttons(task) = definition.steps[run.step].allowedDecisions
<1>1. run.status = "active" /\ ~Refused
  BY DEF SimulationIInv, RunInOrder
<1>2. run.open = {task} /\ task.step = run.step /\ run.step \in DOMAIN definition.steps
  BY <1>1 DEF SimulationIInv, RunInOrder
<1>3. run.step \in StepKey
  BY <1>2 DEF SimulationIInv, SimulationAssumption, IsDocument
<1>4. run.step # ReturnedKey /\ run.step # NoStep
  BY <1>3, KeysAssumption DEF Key
<1> QED
  BY <1>1, <1>2, <1>4 DEF Buttons

(* One entry more.                                                         *)
LEMMA TraceGrows ==
  ASSUME trace \in Seq(TraceEntry), NEW e \in TraceEntry, trace' = Append(trace, e),
         UNCHANGED definition
  PROVE  /\ trace' \in Seq(TraceEntry') /\ trace' # <<>>
         /\ Len(trace) \in Nat /\ DOMAIN trace = 1 .. Len(trace)
         /\ DOMAIN trace' = 1 .. (Len(trace) + 1)
         /\ \A i \in DOMAIN trace : i \in DOMAIN trace' /\ trace'[i] = trace[i]
         /\ trace'[Len(trace) + 1] = e
         /\ Refused' = (Refused \/ ~e.accepted)
         /\ Visited' = Visited \cup ({e.at} \cap DOMAIN definition.steps)
<1>1. /\ trace' \in Seq(TraceEntry') /\ trace' # <<>>
      /\ Len(trace) \in Nat /\ DOMAIN trace = 1 .. Len(trace)
      /\ DOMAIN trace' = 1 .. (Len(trace) + 1)
      /\ \A i \in DOMAIN trace : i \in DOMAIN trace' /\ trace'[i] = trace[i]
      /\ trace'[Len(trace) + 1] = e
  <2>1. TraceEntry' = TraceEntry
    BY DEF TraceEntry
  <2> QED
    BY <2>1
<1>2. \A i \in DOMAIN trace' : i \in DOMAIN trace \/ i = Len(trace) + 1
  BY <1>1
<1>3. Len(trace) + 1 \in DOMAIN trace'
  BY <1>1
<1>4. {trace'[i].at : i \in DOMAIN trace'} = {trace[i].at : i \in DOMAIN trace} \cup {e.at}
  BY <1>1, <1>2, <1>3
<1>5. (\E i \in DOMAIN trace' : ~trace'[i].accepted)
        <=> ((\E i \in DOMAIN trace : ~trace[i].accepted) \/ ~e.accepted)
  BY <1>1, <1>2, <1>3
<1>6. Refused' = (Refused \/ ~e.accepted)
  BY <1>5 DEF Refused
<1>7. Visited' = Visited \cup ({e.at} \cap DOMAIN definition.steps)
  BY <1>4 DEF Visited
<1> QED
  BY <1>1, <1>6, <1>7

(* A decision that lacks its comment is refused, and ends the run's tasks. *)
LEMMA RefusalIsInOrder ==
  ASSUME SimulationAssumption, SimulationIInv, NEW task \in run.open, NEW d \in Decision,
         Decide(task, d), d \in definition.steps[run.step].requireCommentOn
  PROVE  SimulationIInv'
<1> DEFINE entry == [at |-> run.step, decision |-> d, accepted |-> FALSE]
<1>1. /\ run.status = "active" /\ ~Refused /\ run.open = {task}
      /\ run.step \in DOMAIN definition.steps
  BY TaskIsOfTheStep
<1>2. TaskDecided(BuildContext, run, d, FALSE) = {}
  BY ContextOfDocument DEF TaskDecided, DecisionAccepted
<1>3. /\ run' = [run EXCEPT !.open = @ \ {task}]
      /\ trace' = Append(trace, [at |-> run.step, decision |-> d, accepted |-> {} # {}])
      /\ UNCHANGED <<definition, answer, hasLineManager>>
  BY <1>2 DEF Decide, ApplyOutput
<1>4. trace' = Append(trace, entry) /\ entry \in TraceEntry /\ ~entry.accepted
  BY <1>1, <1>3 DEF TraceEntry
<1>5. run'.status = run.status /\ run'.step = run.step /\ run'.open = {}
      /\ run' = [status |-> run'.status, step |-> run'.step, open |-> run'.open]
  <2>1. run = [status |-> run.status, step |-> run.step, open |-> run.open]
    BY DEF SimulationIInv, RunInOrder
  <2> QED
    BY <1>1, <1>3, <2>1
<1> HIDE DEF entry
<1>6. /\ trace' \in Seq(TraceEntry') /\ trace' # <<>>
      /\ Len(trace) \in Nat /\ DOMAIN trace = 1 .. Len(trace)
      /\ DOMAIN trace' = 1 .. (Len(trace) + 1)
      /\ \A i \in DOMAIN trace : trace'[i] = trace[i]
      /\ trace'[Len(trace) + 1] = entry
      /\ Refused'
  BY <1>3, <1>4, TraceGrows DEF SimulationIInv
<1>7. \A i \in DOMAIN trace' : trace'[i].accepted => i \in DOMAIN trace /\ trace'[i] = trace[i]
  BY <1>4, <1>6
<1>8. RunInOrder' /\ ApprovalsLieAhead' /\ ThresholdsAreMet'
  BY <1>1, <1>3, <1>5, <1>6 DEF RunInOrder, ApprovalsLieAhead, ThresholdsAreMet
<1>9. TraceInOrder'
  BY <1>5, <1>7 DEF SimulationIInv, TraceInOrder
<1>10. StepsComeOnce'
  BY <1>1, <1>5, <1>7 DEF SimulationIInv, StepsComeOnce
<1> QED
  BY <1>3, <1>6, <1>8, <1>9, <1>10 DEF SimulationIInv

(* An accepted one takes the run up, or to its end.                        *)
LEMMA AcceptedIsInOrder ==
  ASSUME SimulationAssumption, SimulationIInv, NEW task \in run.open, NEW d \in Decision,
         Decide(task, d), d \notin definition.steps[run.step].requireCommentOn
  PROVE  SimulationIInv'
<1> DEFINE s == run.step
           rules == definition.steps[s].transitions[d]
           entry == [at |-> s, decision |-> d, accepted |-> TRUE]
<1>1. /\ run.status = "active" /\ ~Refused /\ run.open = {task} /\ s # NoStep
      /\ s \in DOMAIN definition.steps /\ Buttons(task) = definition.steps[s].allowedDecisions
      /\ definition \in Documents /\ hasLineManager \in BOOLEAN
  BY TaskIsOfTheStep DEF SimulationIInv
<1>2. d \in Proceeds(definition.steps[s])
  BY <1>1 DEF Decide, Proceeds
<1>3. PICK i \in DOMAIN rules : \E o :
         /\ TaskDecided(BuildContext, run, d, FALSE) = {o} /\ Lands(o, rules[i].to)
         /\ \A j \in DOMAIN rules : rules[j].when \in BuildContext.facts => i <= j
  BY <1>1, <1>2, DecisionMoves
<1>4. PICK o :
        /\ TaskDecided(BuildContext, run, d, FALSE) = {o} /\ Lands(o, rules[i].to)
        /\ \A j \in DOMAIN rules : rules[j].when \in BuildContext.facts => i <= j
  BY <1>3
<1> DEFINE x == rules[i].to
<1>5. /\ run' = [status |-> o.status, step |-> o.step, open |-> o.tasks]
      /\ trace' = Append(trace, entry)
      /\ UNCHANGED <<definition, answer, hasLineManager>>
  <2>1. (CHOOSE out \in {o} : TRUE) = o /\ {o} # {}
    OBVIOUS
  <2>2. o.moves /\ (run.open \ {task}) \cup o.tasks = o.tasks
    BY <1>1, <1>4 DEF Lands
  <2>3. run' = ApplyOutput({o}, {task})
    BY <1>4 DEF Decide
  <2>4. run' = [status |-> o.status, step |-> o.step, open |-> o.tasks]
    BY <2>1, <2>2, <2>3 DEF ApplyOutput
  <2>5. /\ trace' = Append(trace, [at |-> s, decision |-> d, accepted |-> {o} # {}])
        /\ UNCHANGED <<definition, answer, hasLineManager>>
    BY <1>4 DEF Decide
  <2>6. ({o} # {}) = TRUE
    OBVIOUS
  <2> QED
    BY <2>4, <2>5, <2>6
<1>6. entry \in TraceEntry /\ entry.accepted /\ entry.at = s
  BY <1>1 DEF TraceEntry
<1> HIDE DEF entry
<1>7. /\ trace' \in Seq(TraceEntry') /\ trace' # <<>>
      /\ Len(trace) \in Nat /\ DOMAIN trace = 1 .. Len(trace)
      /\ DOMAIN trace' = 1 .. (Len(trace) + 1)
      /\ \A n \in DOMAIN trace : trace'[n] = trace[n]
      /\ trace'[Len(trace) + 1] = entry
      /\ ~Refused' /\ Visited' = Visited \cup {s}
  BY <1>1, <1>5, <1>6, TraceGrows DEF SimulationIInv
<1>8. /\ RunInOrder'
      /\ run'.status = "active" => run'.step = x /\ x \in DOMAIN definition.steps
      /\ run'.status = "completed" => x \in TerminalKey
  BY <1>4, <1>5, <1>7, AnswerIsInOrder
<1>9. /\ IsLadder(definition) /\ RulesClimb(definition, s, rules)
      /\ x \in TerminalKey \/ (x \in DOMAIN definition.steps /\ Rank(s) < Rank(x))
      /\ TerminalKey \cap DOMAIN definition.steps = {}
  <2>1. IsLadder(definition) /\ IsRung(definition, s)
    BY <1>1, DocumentsAreLadders DEF IsLadder
  <2>2. RulesClimb(definition, s, rules)
    BY <1>2, <2>1 DEF IsRung
  <2>3. TerminalKey \cap DOMAIN definition.steps = {}
    BY <1>1, KeysAssumption DEF SimulationAssumption, IsDocument
  <2> QED
    BY <1>4, <2>1, <2>2, <2>3 DEF RulesClimb
<1>10. \A n \in DOMAIN trace' : \/ n \in DOMAIN trace /\ trace'[n] = trace[n]
                                \/ n = Len(trace) + 1 /\ trace'[n] = entry
  BY <1>7
<1>11. TraceInOrder'
  <2>1. SUFFICES ASSUME NEW n \in DOMAIN trace', trace'[n].accepted
                 PROVE  /\ trace'[n].at = NoStep => n = 1
                        /\ trace'[n].at # NoStep /\ run'.status = "active"
                             => Rank(trace'[n].at) < Rank(run'.step)
    BY DEF TraceInOrder
  <2>2. run'.status = "active" => Rank(s) < Rank(run'.step)
    BY <1>8, <1>9
  <2>3. CASE n \in DOMAIN trace /\ trace'[n] = trace[n]
    <3>1. /\ trace[n].at = NoStep => n = 1
          /\ trace[n].at # NoStep => Rank(trace[n].at) < Rank(s)
      BY <1>1, <2>1, <2>3 DEF SimulationIInv, TraceInOrder
    <3> QED
      BY <2>2, <2>3, <3>1, RanksAreNumbers
  <2>4. CASE trace'[n] = entry
    BY <1>1, <1>6, <2>2, <2>4
  <2> QED
    BY <1>10, <2>3, <2>4
<1>12. StepsComeOnce'
  <2>1. run'.status = "unassigned" => ~hasLineManager'
    BY <1>8 DEF RunInOrder
  <2>2. \A n \in DOMAIN trace : trace[n].accepted => trace[n].at # s
    <3>1. SUFFICES ASSUME NEW n \in DOMAIN trace, trace[n].accepted, trace[n].at = s PROVE FALSE
      OBVIOUS
    <3>2. Rank(s) < Rank(s)
      BY <1>1, <3>1 DEF SimulationIInv, TraceInOrder
    <3> QED
      BY <3>2, RanksAreNumbers
  <2>3. \A m, n \in DOMAIN trace :
          trace[m].accepted /\ trace[n].accepted /\ trace[m].at = trace[n].at => m = n
    BY DEF SimulationIInv, StepsComeOnce
  <2>4. \A m, n \in DOMAIN trace' :
          trace'[m].accepted /\ trace'[n].accepted /\ trace'[m].at = trace'[n].at => m = n
    BY <1>6, <1>10, <2>2, <2>3
  <2> QED
    BY <2>1, <2>4 DEF StepsComeOnce
(* What is asked for has been visited by now, or lies ahead.               *)
<1>13. ASSUME NEW k \in Visited', NEW t \in AskedBy(k)
       PROVE  t \in Visited' \/ (x \in DOMAIN definition.steps /\ Inevitable(definition, x, t))
  <2>1. t \in DOMAIN definition.steps
    <3>1. k \in DOMAIN definition.steps
      BY <1>1, <1>7, <1>13 DEF Visited
    <3> QED
      BY <1>1, <1>13, <3>1, AskedAreSteps
  <2>2. CASE k \in Visited
    <3>1. t \in Visited \/ Inevitable(definition, s, t)
      BY <1>1, <1>13, <2>2 DEF SimulationIInv, ApprovalsLieAhead
    <3>2. CASE t \in Visited \/ t = s
      BY <1>7, <3>2
    <3>3. CASE t # s /\ Inevitable(definition, s, t)
      <4>1. x = t
        BY <1>2, <1>4, <3>3 DEF Inevitable
      <4> QED
        BY <2>1, <4>1 DEF Inevitable
    <3> QED
      BY <3>1, <3>2, <3>3
  <2>3. CASE k = s
    <3> DEFINE approve == definition.steps[s].transitions["approve"]
    <3>1. PICK j \in DOMAIN approve : approve[j].when \in BuildContext.facts /\ t = approve[j].to
      BY <1>13, <2>3 DEF AskedBy
    <3>2. IsRung(definition, s) /\ approve # <<>>
      BY <1>1, <1>9, <3>1 DEF IsLadder
    <3>3. Proceeds(definition.steps[s]) = {"approve"} /\ RulesAgree(definition, approve)
      BY <3>2 DEF IsRung
    <3>4. d = "approve"
      BY <1>2, <3>3
    <3>5. approve[j].when # Always
      BY <3>1, ContextOfDocument DEF SimulationAssumption
    <3>6. i <= j /\ i \in DOMAIN approve
      BY <1>4, <3>1, <3>4
    <3>7. CASE i = j
      BY <2>1, <3>1, <3>4, <3>7 DEF Inevitable
    <3>8. CASE i # j
      <4>1. DOMAIN approve \subseteq Nat \ {0}
        <5>1. definition.steps[s] \in Step
          BY <1>1 DEF SimulationAssumption, IsDocument
        <5>2. approve \in Seq(Rule)
          BY <5>1 DEF Step, Decision
        <5> HIDE DEF approve
        <5>3. DOMAIN approve = 1 .. Len(approve) /\ Len(approve) \in Nat
          BY <5>2
        <5> QED
          BY <5>3
      <4>2. i \in 1 .. (j - 1)
        BY <3>6, <3>8, <4>1
      <4>3. /\ approve[i].to \in DOMAIN definition.steps
            /\ Inevitable(definition, approve[i].to, approve[j].to)
        BY <3>1, <3>3, <3>5, <4>2 DEF RulesAgree
      <4>4. x = approve[i].to /\ t = approve[j].to
        BY <3>1, <3>4
      <4>5. x \in DOMAIN definition.steps /\ Inevitable(definition, x, t)
        <5> HIDE DEF x, approve
        <5> QED
          BY <4>3, <4>4
      <4> QED
        BY <4>5
    <3> QED
      BY <3>7, <3>8
  <2> QED
    BY <1>7, <2>2, <2>3
<1>14. ApprovalsLieAhead'
  <2>1. \A k : AskedBy(k)' = AskedBy(k)
    BY <1>5, ContextStays
  <2>2. run'.status = "active" => \A k \in Visited' : \A t \in AskedBy(k) :
          t \in Visited' \/ Inevitable(definition, run'.step, t)
    BY <1>8, <1>13
  <2>3. \A k, t : Inevitable(definition, k, t) => Inevitable(definition', k, t)
    BY <1>5
  <2> QED
    BY <1>5, <2>1, <2>2, <2>3 DEF ApprovalsLieAhead
<1>15. ThresholdsAreMet'
  <2>1. ASSUME run'.status = "completed", NEW k \in Visited', NEW t \in AskedBy(k)
        PROVE  t \in Visited'
    BY <1>8, <1>9, <1>13, <2>1
  <2>2. \A k : AskedBy(k)' = AskedBy(k)
    BY <1>5, ContextStays
  <2>3. ASSUME run'.status = "completed", NEW k \in Visited'
        PROVE  \A t \in AskedBy(k)' : t \in Visited'
    BY <2>1, <2>2, <2>3
  <2> QED
    BY <2>3 DEF ThresholdsAreMet, AskedBy
<1> QED
  BY <1>5, <1>7, <1>8, <1>11, <1>12, <1>14, <1>15 DEF SimulationIInv

LEMMA SimulationStartsInOrder == SimulationInit => SimulationIInv
  BY NothingRunYet DEF SimulationInit

LEMMA SimulationStaysInOrder ==
  ASSUME SimulationAssumption, SimulationIInv, [SimulationNext]_simulationVars
  PROVE  SimulationIInv'
<1>1. CASE StartSimulation
  BY <1>1, StartIsInOrder
<1>2. CASE Reset
  BY <1>2, NothingRunAgain DEF Reset, SimulationIInv
<1>3. CASE EditInputs
  <2>1. run = DraftCase
    BY <1>3 DEF EditInputs, SimulationIInv, RunInOrder
  <2> QED
    BY <1>3, <2>1, NothingRunAgain DEF EditInputs, SimulationIInv
<1>4. ASSUME NEW task \in run.open, NEW d \in Decision, Decide(task, d) PROVE SimulationIInv'
  BY <1>4, RefusalIsInOrder, AcceptedIsInOrder
<1>5. CASE UNCHANGED simulationVars
  <2>1. UNCHANGED <<definition, answer, hasLineManager, run, trace>>
    BY <1>5 DEF simulationVars
  <2>2. BuildContext' = BuildContext /\ TraceEntry' = TraceEntry /\ \A k : AskedBy(k)' = AskedBy(k)
    BY <2>1, ContextStays
  <2>3. Refused' = Refused /\ Visited' = Visited
    BY <2>1 DEF Refused, Visited
  <2>4. RunInOrder' /\ TraceInOrder' /\ StepsComeOnce'
    BY <2>1, <2>3 DEF SimulationIInv, RunInOrder, TraceInOrder, StepsComeOnce
  <2>5. ApprovalsLieAhead'
    BY <2>1, <2>2, <2>3 DEF SimulationIInv, ApprovalsLieAhead
  <2>6. ThresholdsAreMet'
    BY <2>1, <2>2, <2>3 DEF SimulationIInv, ThresholdsAreMet
  <2> QED
    BY <2>1, <2>2, <2>4, <2>5, <2>6 DEF SimulationIInv
<1> QED
  BY <1>1, <1>2, <1>3, <1>4, <1>5 DEF SimulationNext

(* A step with somebody to decide it has a decision that goes through.     *)
LEMMA RunsAreAwaited ==
  ASSUME SimulationAssumption, SimulationIInv
  PROVE  WaitsOnOneTask
<1>1. SUFFICES ASSUME run.status = "active", ~Refused PROVE
        /\ Cardinality(run.open) = 1
        /\ \A task \in run.open :
             /\ task.step = run.step
             /\ \E d \in Buttons(task) : TaskDecided(BuildContext, run, d, FALSE) # {}
  BY DEF WaitsOnOneTask
<1>2. PICK t : run.open = {t}
  BY <1>1 DEF SimulationIInv, RunInOrder
<1>3. Cardinality(run.open) = 1
  BY <1>2, FS_Singleton
<1>4. ASSUME NEW task \in run.open
      PROVE  /\ task.step = run.step
             /\ \E d \in Buttons(task) : TaskDecided(BuildContext, run, d, FALSE) # {}
  <2>1. /\ task.step = run.step /\ run.step \in DOMAIN definition.steps
        /\ Buttons(task) = definition.steps[run.step].allowedDecisions
    BY TaskIsOfTheStep
  <2>2. PICK d \in Proceeds(definition.steps[run.step]) : TRUE
    BY <2>1, DocumentsAreLadders DEF SimulationIInv, IsLadder, IsRung
  <2>3. TaskDecided(BuildContext, run, d, FALSE) # {}
    <3>1. \E i, o : TaskDecided(BuildContext, run, d, FALSE) = {o}
      BY <1>1, <2>1, DecisionMoves DEF SimulationIInv
    <3> QED
      BY <3>1
  <2>4. d \in Buttons(task)
    BY <2>1 DEF Proceeds
  <2> QED
    BY <2>1, <2>3, <2>4
<1> QED
  BY <1>3, <1>4

(* The inductive invariant of the simulator's runs.                        *)
THEOREM SimulationInvariance ==
  ASSUME SimulationAssumption
  PROVE  SimulationSpec => []SimulationIInv
<1>1. SimulationInit => SimulationIInv
  BY SimulationStartsInOrder
<1>2. SimulationIInv /\ [SimulationNext]_simulationVars => SimulationIInv'
  BY SimulationStaysInOrder
<1> QED
  BY <1>1, <1>2, PTL DEF SimulationSpec

(* Whatever amount is entered and whoever asks, a run of a shipped process *)
(* or of a clone of it waits for one person at a time, comes to no step    *)
(* twice, and completes only through every approval its amount asks for.   *)
THEOREM ShippedProcessesRun ==
  ASSUME SimulationAssumption
  PROVE  SimulationSpec => []SimulationsRunTheTemplates
<1>1. SimulationIInv => SimulationsRunTheTemplates
  BY RunsAreAwaited DEF SimulationIInv, SimulationsRunTheTemplates
<1> QED
  BY <1>1, SimulationInvariance, PTL
=============================================================================
