---------------------------- MODULE MCPrimaryStore ----------------------------
EXTENDS PrimaryStore

Symmetry == Permutations(Messages) \cup Permutations(Spaces)

Budget(faults, crashes, changes, messages, spaces, projects) ==
    [faults |-> faults, crashes |-> crashes, changes |-> changes,
     messages |-> messages, spaces |-> spaces, projects |-> projects]

(* Each budget is a scenario; all together are too many states. *)
MCBudgets ==
    {Budget(1, 1, 0, 1, 2, 0),   \* a fault and a restart
     Budget(1, 0, 1, 0, 1, 0),   \* a fault while a title changes, here or elsewhere
     Budget(0, 0, 1, 1, 1, 0),   \* a change or a deletion beside a new message
     Budget(0, 1, 1, 0, 2, 0),   \* a restart and a change
     Budget(0, 0, 2, 0, 1, 0),   \* two changes: a deletion and a title, here or elsewhere
     Budget(1, 0, 0, 2, 1, 0),   \* a thread of two messages
     Budget(1, 1, 0, 0, 1, 1)}   \* the project exists already

MCLiveBudgets ==
    {Budget(0, 0, 0, 2, 1, 0),
     Budget(1, 0, 0, 1, 1, 0),
     Budget(0, 1, 0, 1, 1, 0)}

MCStrandedBudgets == {Budget(1, 1, 0, 1, 1, 0)}
=============================================================================
