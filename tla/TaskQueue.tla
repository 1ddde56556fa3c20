------------------------------- MODULE TaskQueue -------------------------------
(***************************************************************************)
(* The approvals screen: the two queues a person works from, "assigned to  *)
(* you" and "available to claim", read page by page, and the decision page *)
(* behind each row, with what a person may see and may do there.  Tasks    *)
(* come, move and go under the reader.  What a decision does to its case,  *)
(* and requests racing for one task, are the business of CaseRequests.     *)
(* Sources: packages/db/src/repositories/case-tasks.ts,                    *)
(* apps/api/src/routes/tasks.ts, apps/api/src/cases/permissions.ts,        *)
(* apps/web/src/lib/pagination.ts and apps/web/src/features/approvals.     *)
(***************************************************************************)
EXTENDS Naturals, SequencesExt

CONSTANTS
  User,       \* members of the organisation
  Pool,       \* the roles and the groups tasks are assigned to
  Governing,  \* of these, the roles admin and owner; and, here, the
              \* process owner who created the definition
  Case,       \* cases, each with who submitted it
  Submitter,
  DueDate,    \* when a task may be due: instants, the last one 'infinity'
  PageSize,   \* rows on a page
  MaxTasks,   \* bound: tasks ever opened
  MaxMoves,   \* bound: changes of who is in which role or group
  Nobody

ASSUME QueueAssumption ==
  /\ Governing \subseteq Pool /\ Nobody \notin User \cup Pool
  /\ Submitter \in [Case -> User]
  /\ DueDate \subseteq Nat
  /\ PageSize \in Nat \ {0} /\ MaxTasks \in Nat /\ MaxMoves \in Nat

VARIABLES
  entry,   \* case_tasks: in the order of their UUIDv7 keys
  within,  \* the roles and groups of each user
  moves,
  url,     \* which page of which list each user looks at
  steady,  \* history: the rows of that list ever since its first page was read
  seen     \* history: the rows on the pages of this reading

queueVars == <<entry, within, moves, url, steady, seen>>

Queue == {"mine", "available"}

NoCursor == <<0, 0>>   \* no cursor

NoUrl == [list |-> "none", cursor |-> NoCursor, back |-> <<>>, next |-> NoCursor]

QueueInit ==
  /\ entry = <<>>
  /\ within \in [User -> SUBSET (Pool \ Governing)]
  /\ moves = 0
  /\ url = [u \in User |-> NoUrl]
  /\ steady = [u \in User |-> {}] /\ seen = [u \in User |-> {}]

TaskId == DOMAIN entry

Open(t) == entry[t].status \in {"pending", "claimed"}

----------------------------------------------------------------------------
(* What each list holds, and its pages.                                    *)

Mine(u) == {t \in TaskId : entry[t].assignee = u /\ Open(t)}

Available(u) ==
  {t \in TaskId : /\ entry[t].status = "pending" /\ entry[t].assignee = Nobody
                  /\ entry[t].pool \in within[u]}

Listed(u, list) == IF list = "mine" THEN Mine(u) ELSE Available(u)

(* ORDER BY COALESCE(due_at, 'infinity'), task_id.                         *)
Before(s, t) ==
  entry[s].due < entry[t].due \/ (entry[s].due = entry[t].due /\ s < t)

(* What a cursor keeps of a row, and which rows a page may show after it.  *)
Key(t) == <<entry[t].due, t>>

AfterByDate(k, l) == k[1] > l[1]

After(k, l) == k[1] > l[1] \/ (k[1] = l[1] /\ k[2] > l[2])

(* LIMIT: the first rows of those there are.                               *)
Page(rows) == {t \in rows : Cardinality({s \in rows : Before(s, t)}) < PageSize}

LastOf(rows) == CHOOSE t \in rows : \A s \in rows \ {t} : Before(s, t)

(* One row more than a page is read, to know whether there is a next page. *)
(* Reading without a cursor begins a reading of the list.                  *)
Read(u, list, cursor, back) ==
  LET rows == {t \in Listed(u, list) : After(Key(t), cursor)}
      page == Page(rows)
  IN  /\ url' = [url EXCEPT ![u] =
                   [list |-> list, cursor |-> cursor, back |-> back,
                    next |-> IF page # rows THEN Key(LastOf(page)) ELSE NoCursor]]
      /\ seen' = [seen EXCEPT ![u] = IF cursor = NoCursor THEN page ELSE @ \cup page]
      /\ steady' = [steady EXCEPT ![u] = IF cursor = NoCursor THEN Listed(u, list) ELSE @]
      /\ UNCHANGED <<entry, within, moves>>

FirstPage(u, list) == Read(u, list, NoCursor, <<>>)

(* The address of a page carries the cursors of the pages before it.       *)
NextPage(u) ==
  /\ url[u].next # NoCursor
  /\ Read(u, url[u].list, url[u].next, Append(url[u].back, url[u].cursor))

PreviousPage(u) ==
  /\ url[u].back # <<>>
  /\ Read(u, url[u].list, Last(url[u].back), Front(url[u].back))

----------------------------------------------------------------------------
(* The page behind a row.                                                  *)

(* The submitter, who governs the organisation (or wrote the process), and *)
(* whoever held a task of the case.                                        *)
CanViewCase(u, c) ==
  \/ Submitter[c] = u
  \/ within[u] \cap Governing # {}
  \/ \E t \in TaskId :
       entry[t].case = c /\ u \in {entry[t].assignee, entry[t].claimedBy, entry[t].completedBy}

CanActOnTask(u, t) ==
  IF entry[t].assignee # Nobody THEN entry[t].assignee = u ELSE entry[t].pool \in within[u]

(* What GET /tasks/:taskId lets the decision page show: nothing at all, a  *)
(* Claim button, the decisions, or that the task is somebody else's.       *)
Shown(u, t) ==
  CASE ~CanViewCase(u, entry[t].case) -> "not found"
    [] ~CanActOnTask(u, t)           -> "not yours"
    [] entry[t].assignee = Nobody     -> "claim"
    [] OTHER                         -> "decide"

(* POST /tasks/:taskId/claim asks whether the task can be acted on, not    *)
(* whether it can be seen; so does a decision.                             *)
Claim(u, t) ==
  /\ entry[t].assignee = Nobody /\ entry[t].status = "pending" /\ CanActOnTask(u, t)
  /\ entry' = [entry EXCEPT ![t].status = "claimed", ![t].assignee = u, ![t].claimedBy = u]
  /\ UNCHANGED <<within, moves, url, seen>>

(* The decision as far as the task itself.                                 *)
Decide(u, t) ==
  /\ Open(t) /\ CanActOnTask(u, t)
  /\ entry' = [entry EXCEPT ![t].status = "completed", ![t].completedBy = u]
  /\ UNCHANGED <<within, moves, url, seen>>

----------------------------------------------------------------------------
(* What happens elsewhere.                                                 *)

(* The engine opens a task for a person or for a pool: a step is entered,  *)
(* or one is escalated.                                                    *)
CreateCaseTask(c, assignee, pool, due) ==
  /\ Len(entry) < MaxTasks
  /\ (assignee = Nobody) # (pool = Nobody)
  /\ entry' = Append(entry, [case |-> c, status |-> "pending", assignee |-> assignee,
                           pool |-> pool, due |-> due,
                           claimedBy |-> Nobody, completedBy |-> Nobody])
  /\ UNCHANGED <<within, moves, url, seen>>

(* The end of a case closes what is open of it.                            *)
CancelOpenTasksForCase(c) ==
  /\ \E t \in TaskId : entry[t].case = c /\ Open(t)
  /\ entry' = [t \in TaskId |-> IF entry[t].case = c /\ Open(t)
                                 THEN [entry[t] EXCEPT !.status = "cancelled"] ELSE entry[t]]
  /\ UNCHANGED <<within, moves, url, seen>>

(* A role or a group gains or loses a member.                              *)
MembershipMoves(u, pool) ==
  /\ moves < MaxMoves /\ moves' = moves + 1
  /\ within' = [within EXCEPT ![u] = IF pool \in @ THEN @ \ {pool} ELSE @ \cup {pool}]
  /\ UNCHANGED <<entry, url, seen>>

----------------------------------------------------------------------------

Reading ==
  \E u \in User :
    \/ \E list \in Queue : FirstPage(u, list)
    \/ NextPage(u) \/ PreviousPage(u)

Working ==
  \/ \E u \in User : \E t \in TaskId : Claim(u, t) \/ Decide(u, t)
  \/ \E c \in Case, due \in DueDate :
       \E assignee \in User \cup {Nobody}, pool \in Pool \cup {Nobody} :
         CreateCaseTask(c, assignee, pool, due)
  \/ \E c \in Case : CancelOpenTasksForCase(c)
  \/ \E u \in User, pool \in Pool : MembershipMoves(u, pool)

QueueNext ==
  \/ Reading
  \/ Working /\ steady' = [u \in User |-> steady[u] \cap Listed(u, url[u].list)']

QueueSpec == QueueInit /\ [][QueueNext]_queueVars

----------------------------------------------------------------------------

QueueTypeOK ==
  /\ \A t \in TaskId : entry[t].status \in {"pending", "claimed", "completed", "cancelled"}
  /\ within \in [User -> SUBSET Pool]
  /\ \A u \in User : seen[u] \subseteq TaskId /\ steady[u] \subseteq TaskId

(* Whoever reads a list to its last page has seen every row that was in it *)
(* all along, however the list changed meanwhile and whether or not they   *)
(* turned back on the way; and going on never shows an earlier row again.  *)
(* (The composite cursor of case-tasks.ts and pagination.ts.)              *)
ReadingsAreWhole ==
  \A u \in User : url[u].list # "none" =>
    /\ url[u].next = NoCursor => steady[u] \subseteq seen[u]
    /\ \A k \in 1 .. Len(url[u].back) :
         After(Append(url[u].back, url[u].cursor)[k + 1], url[u].back[k])

QueueInv == QueueTypeOK /\ ReadingsAreWhole

(* A row of the available list leads to a page where it can be claimed:    *)
(* "the screen asks for it" (decision-form.tsx), the only place that does. *)
OfferedTasksCanBeOpened ==
  \A u \in User : \A t \in Available(u) : Shown(u, t) = "claim"
=============================================================================
