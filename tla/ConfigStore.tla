---------------------------- MODULE ConfigStore -----------------------------
(***************************************************************************)
(* What the REST handlers rely on when they call a method of the sing-box  *)
(* client (the CRUD methods of sync.SingBoxClient): a document that a      *)
(* request changes at once, as an edit of the document that is there, and  *)
(* that a failed reload may take back to a document it has been before.    *)
(* snapshots are the earlier documents somebody still holds a copy of.     *)
(***************************************************************************)
CONSTANTS
    Config,           \* the well-formed documents
    Installed,        \* the documents the agent may find when it starts
    Op,               \* what a request may ask for
    ClientEdit(_, _)  \* the document an operation makes of a document

VARIABLES doc, snapshots

StoreInit == doc \in Installed /\ snapshots = {}

\* One request, read and write in one step.
Change(op) ==
    /\ ClientEdit(doc, op) \in Config
    /\ doc' = ClientEdit(doc, op)
    /\ snapshots' \subseteq snapshots \cup {doc}

\* A rollback after a failed reload.
Revert ==
    /\ doc' \in snapshots
    /\ snapshots' \subseteq snapshots

\* Copies are dropped when nobody needs them any more.
Forget ==
    /\ snapshots' \subseteq snapshots
    /\ UNCHANGED doc

StoreNext == (\E op \in Op : Change(op)) \/ Revert \/ Forget

StoreSpec == StoreInit /\ [][StoreNext]_<<doc, snapshots>>
=============================================================================
