----------------------------- MODULE MCCaseSystem -----------------------------
(***************************************************************************)
(* Small instances of CaseSystem for TLC: two versions of one definition,  *)
(* three people and a pool, and the directories assignment may find.       *)
(***************************************************************************)
EXTENDS CaseSystem, TLC

MCUser        == {"ann", "bob", "cat"}
MCPoolMembers == [team |-> {"bob", "cat"}]
MCFactsOf     == [small |-> {}, large |-> {"over"}]
SweepFactsOf  == [small |-> {}]

(* Whom the strategies find: everybody; the requester herself as her        *)
(* manager; no boss; herself and nobody else.                              *)
Staffed      == [manager |-> "bob", group |-> "team", boss |-> "cat", head |-> "bob"]
OwnManager   == [Staffed EXCEPT !.manager = Submitter]
NoBoss       == [Staffed EXCEPT !.boss = Nobody]
Abandoned    == [OwnManager EXCEPT !.boss = Nobody, !.head = Nobody]

RequestDirectories == {Staffed, OwnManager, Abandoned}
SweepDirectories   == {Staffed, NoBoss, Abandoned}

NoRules == [d \in Decision |-> <<>>]

(* sla is one of NoSla, Escalating and Reminding.                          *)
NoSla      == [due |-> FALSE, reminder |-> FALSE]
Escalating == [due |-> TRUE, reminder |-> FALSE]
Reminding  == [due |-> TRUE, reminder |-> TRUE]

HumanStep(type, strategy, decisions, rules, sla, escalation) ==
  [type |-> type, assignment |-> strategy, allowSelfApproval |-> FALSE,
   allowedDecisions |-> decisions,
   requireCommentOn |-> decisions \cap {"reject"}, transitions |-> rules,
   due |-> sla.due, reminder |-> sla.reminder, escalation |-> escalation]

AutomaticStep(rules) ==
  HumanStep("automatic", "group", {}, [NoRules EXCEPT !["complete"] = rules],
            NoSla, <<>>)

Otherwise(to) == [when |-> Always, to |-> to]
WhenOver(to)  == [when |-> "over", to |-> to]

Review(approved, sla, escalation) ==
  HumanStep("approval", "manager", {"approve", "reject", "return"},
            [NoRules EXCEPT !["approve"] = approved,
                            !["reject"]  = <<Otherwise("$rejected")>>,
                            !["return"]  = <<Otherwise("$returnedToRequester")>>],
            sla, escalation)

(* Version 1: review, then for large amounts a pool, whose only rule no    *)
(* longer matches if it records a small amount, then an automatic step.    *)
Purchase(sla, escalation) ==
  [start |-> "review",
   steps |-> [review  |-> Review(<<WhenOver("finance"), Otherwise("$completed")>>,
                                 sla, escalation),
              finance |-> HumanStep("action", "group", {"complete"},
                            [NoRules EXCEPT !["complete"] = <<WhenOver("route")>>],
                            NoSla, <<>>),
              route   |-> AutomaticStep(<<Otherwise("$completed")>>)]]

(* Version 2: starts with automatic steps, which loop for large amounts;   *)
(* approval leads to a step the document does not have.                    *)
Reworked ==
  [start |-> "gate",
   steps |-> [gate   |-> AutomaticStep(<<WhenOver("loop"), Otherwise("review")>>),
              loop   |-> AutomaticStep(<<Otherwise("gate")>>),
              review |-> Review(<<Otherwise("missing")>>, NoSla, <<>>)]]

RequestDefinition  == <<Purchase(NoSla, <<"boss">>), Reworked>>
OverlapDefinition  == <<Purchase(Escalating, <<"boss", "head">>)>>
SweepDefinition    == <<Purchase(Reminding, <<"boss", "head">>)>>

Send(decision, comment, put) ==
  [decision |-> decision, comment |-> comment, put |-> put]

(* Every decision, with and without output values; "reject" also without   *)
(* the comment the review requires, which the engine refuses.              *)
RequestBodies ==
  {Send("approve", FALSE, NoValues), Send("approve", FALSE, "large"),
   Send("reject", TRUE, NoValues), Send("reject", FALSE, "small"),
   Send("return", FALSE, NoValues), Send("complete", FALSE, NoValues),
   Send("complete", FALSE, "small")}

ReturnBodies ==
  {Send("approve", FALSE, NoValues), Send("return", FALSE, NoValues)}

SweeperSymmetry == Permutations(Sweeper)
ClientSymmetry  == Permutations(Client)
=============================================================================
