------------------------------ MODULE SessionStore ------------------------------
(***************************************************************************)
(* SessionStore: the file a session is saved in.  It is cut to nothing and *)
(* then written, and whoever finds it in between, or only partly written,  *)
(* finds no session.                                                       *)
(***************************************************************************)
EXTENDS Sequences

VARIABLES
    file,   \* what is in the file: <<>> if there is none or it cannot be read
    saving  \* the snapshot save() is about to write: a sequence of at most one

storeVars == <<file, saving>>

StoreInit == /\ file = <<>>
             /\ saving = <<>>

\* save() opens the file, which cuts it.
Truncate(snapshot) == /\ saving' = <<snapshot>>
                      /\ file' = <<>>

\* It cannot be opened: save() throws, and the file is as it was.
CannotSave == UNCHANGED storeVars

\* The rest of save(): whether all of it could be written is not looked at.
WriteFile == /\ saving # <<>>
             /\ file' \in {saving, <<>>}
             /\ saving' = <<>>
=============================================================================
