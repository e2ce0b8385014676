----------------------------- MODULE TodoReadModel -----------------------------
(***************************************************************************)
(* What the write path promises to whoever reads table todos, with no       *)
(* workers, deliveries or faults in it: a change is accepted only for a row *)
(* that is there, in the group it names, from somebody who may make it; the *)
(* effect of every accepted command reaches the rows as a whole, in any     *)
(* order and any number of times, but at least once; and nothing else ever  *)
(* writes a row.                                                            *)
(***************************************************************************)
EXTENDS Integers, Sequences

CONSTANTS Users, Groups, Todos, Requests, NoRow, Changes, Supported

VARIABLES
    accepted,   \* the commands, in the order they were published
    projected,  \* the commands whose effect has been applied
    rows        \* table todos

rmVars == <<accepted, projected, rows>>

Init ==
    /\ accepted = <<>>
    /\ projected = {}
    /\ rows = [t \in Todos |-> NoRow]

\* The row is there for good once it was read: Accept need not find it live,
\* for a delete may have been projected since.
Accept(r) ==
    /\ r.action \in Changes =>
         /\ rows[r.todo] # NoRow
         /\ rows[r.todo].group = r.group
         /\ r.moderator \/ rows[r.todo].creator = r.actor
    /\ accepted' = Append(accepted, r)
    /\ UNCHANGED <<projected, rows>>

\* The first create of a todo makes its row; another one has no effect.
Create(c, cmd) ==
    /\ cmd.action = "create-todo"
    /\ \/ /\ rows[cmd.todo] = NoRow
          /\ rows' = [rows EXCEPT ![cmd.todo] =
                        [group |-> cmd.group, creator |-> cmd.actor,
                         title |-> c, updated_by |-> c, deleted |-> FALSE]]
       \/ rows[cmd.todo] # NoRow /\ UNCHANGED rows

Update(c, cmd) ==
    /\ cmd.action = "update-todo"
    /\ rows' = [rows EXCEPT ![cmd.todo].title = c, ![cmd.todo].updated_by = c]

\* The deleted row keeps its title.
Delete(c, cmd) ==
    /\ cmd.action = "delete-todo"
    /\ rows' = [rows EXCEPT ![cmd.todo].updated_by = c, ![cmd.todo].deleted = TRUE]

\* An update or a delete finds its row, and has no effect only if the todo is
\* deleted already.
Change(c, cmd) ==
    /\ cmd.action \in Changes
    /\ rows[cmd.todo] # NoRow
    /\ rows[cmd.todo].group = cmd.group
    /\ \/ ~ rows[cmd.todo].deleted /\ (Update(c, cmd) \/ Delete(c, cmd))
       \/ rows[cmd.todo].deleted /\ UNCHANGED rows

Project(c) ==
    /\ Create(c, accepted[c]) \/ Change(c, accepted[c])
    /\ projected' = projected \cup {c}
    /\ UNCHANGED accepted

Next ==
    \/ \E r \in Requests : Accept(r)
    \/ \E c \in 1 .. Len(accepted) : Project(c)

Spec == Init /\ [][Next]_rmVars

================================================================================
