-------------------------- MODULE MCNotifications --------------------------
EXTENDS DecisionLinks

MCPayloads ==
  {[type |-> "task.created",     to |-> "ann"],
   [type |-> "task.escalated",   to |-> "ann"],
   [type |-> "task.reminderDue", to |-> "ann"],
   [type |-> "case.commented",   to |-> "ben"],
   [type |-> "case.unassigned",  to |-> "pool"]}
=============================================================================
