------------------------- MODULE NoteIndexContract --------------------------
(***************************************************************************)
(* What the port core.NoteIndex promises (internal/core/note_index.go): a  *)
(* map from paths to notes, changed one whole operation at a time, and     *)
(* made permanent one whole transaction at a time.                         *)
(***************************************************************************)
CONSTANTS
  Path,      \* paths of notes
  Content,   \* what a note consists of
  Absent     \* no note

VARIABLES
  committed,   \* the notes that every reader sees
  working      \* the notes as the running transaction sees them

Init == committed = [p \in Path |-> Absent] /\ working = committed

Add(p, c) ==
  /\ working[p] = Absent
  /\ working' = [working EXCEPT ![p] = c]
  /\ UNCHANGED committed

Update(p, c) ==
  /\ working[p] # Absent
  /\ working' = [working EXCEPT ![p] = c]
  /\ UNCHANGED committed

Remove(p) ==
  /\ working[p] # Absent
  /\ working' = [working EXCEPT ![p] = Absent]
  /\ UNCHANGED committed

Commit == committed' = working /\ UNCHANGED working

Rollback == working' = committed /\ UNCHANGED committed

Next ==
  \/ \E p \in Path :
       \/ \E c \in Content : Add(p, c) \/ Update(p, c)
       \/ Remove(p)
  \/ Commit \/ Rollback

Spec == Init /\ [][Next]_<<committed, working>>
=============================================================================
