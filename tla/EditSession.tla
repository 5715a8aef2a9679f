----------------------------- MODULE EditSession -----------------------------
(***************************************************************************)
(* What the row editor promises its grid, without the overlay, the poll,  *)
(* the buttons or the column layout: at most one edit session, on a record *)
(* of the store; a snapshot of that record taken when the session opens;   *)
(* a draft the user changes; a session that is not replaced while its      *)
(* draft differs from its snapshot; and a session that ends either by      *)
(* writing valid draft values into its own record or by leaving the store  *)
(* untouched.                                                              *)
(*                                                                         *)
(* A view refresh ends the session as a commit or a cancellation: the      *)
(* spec (section 4.1) says it cancels, the code commits, and the run      *)
(* roweditor_refresh_commits shows that difference on its own.            *)
(***************************************************************************)
EXTENDS Sequences, SequencesExt

CONSTANTS
    Recs, Cols, Texts, NoRec,
    InitRows, InitData,
    Pre(_),     \* the value a field is loaded with, from a stored value
    Post(_),    \* the value written back, from a field's value
    Valid(_)    \* whether a draft may be committed

VARIABLES rows, data, session, snapshot, draft

vars == <<rows, data, session, snapshot, draft>>

\* The draft differs from the snapshot taken at opening.
Dirty == snapshot # draft

Init ==
    /\ rows = InitRows
    /\ data = InitData
    /\ session = NoRec
    /\ snapshot \in [Cols -> Texts]
    /\ draft \in [Cols -> Texts]

\* A session opens on a record of the store, replacing a clean session.
\* Field editors may normalise what they are loaded with, so the draft
\* starts as any value.
Open(r) ==
    /\ r \in ToSet(rows)
    /\ session = NoRec \/ ~Dirty
    /\ session' = r
    /\ snapshot' = [c \in Cols |-> Pre(data[r][c])]
    /\ draft' \in [Cols -> Texts]
    /\ UNCHANGED <<rows, data>>

Type ==
    /\ session # NoRec
    /\ draft' \in [Cols -> Texts]
    /\ UNCHANGED <<rows, data, session, snapshot>>

Ended == session' = NoRec /\ UNCHANGED <<snapshot, draft>>

\* A valid draft is written, some of its columns, into the session's own
\* record, which is still in the store.
WriteBack ==
    /\ session # NoRec
    /\ session \in ToSet(rows)
    /\ Valid(draft)
    /\ \E S \in SUBSET Cols :
         data' = [data EXCEPT ![session] =
                    [c \in Cols |-> IF c \in S THEN Post(draft[c]) ELSE @[c]]]

\* What the end of the current session (if any) leaves of the data.
EndsWith == UNCHANGED data \/ WriteBack

\* The order of the store a session's end leaves: the same, or, after a
\* write, any order of the same records (a listener may sort the store).
Resorted(p) == p = rows \/ (WriteBack /\ p \in SetToSeqs(ToSet(rows)))

Written == WriteBack /\ Ended

Discarded == session # NoRec /\ UNCHANGED data /\ Ended

Commit == Written /\ UNCHANGED rows

Cancel == Discarded /\ UNCHANGED rows

\* A record leaves the store; any session ends, and it ends before the
\* removal when the session is written.
RemoveRec(r) ==
    /\ r \in ToSet(rows)
    /\ session' = NoRec
    /\ UNCHANGED <<snapshot, draft>>
    /\ EndsWith
    /\ \E p \in {rows} \cup SetToSeqs(ToSet(rows)) :
         Resorted(p) /\ rows' = Remove(p, r)

\* A new record joins the end of the store and a session opens on it,
\* whether or not the session before was dirty: that one ends first.
AddRec(r) ==
    /\ r \notin ToSet(rows)
    /\ session' = r
    /\ snapshot' = [c \in Cols |-> Pre(data[r][c])]
    /\ draft' \in [Cols -> Texts]
    /\ EndsWith
    /\ \E p \in {rows} \cup SetToSeqs(ToSet(rows)) :
         Resorted(p) /\ rows' = Append(p, r)

\* The store is reordered; a session ends.
Reorder ==
    /\ rows' \in SetToSeqs(ToSet(rows))
    /\ \/ session = NoRec /\ UNCHANGED <<data, session, snapshot, draft>>
       \/ Written
       \/ Discarded

Next ==
    \/ \E r \in Recs : Open(r) \/ RemoveRec(r) \/ AddRec(r)
    \/ Type \/ Commit \/ Cancel \/ Reorder

Spec == Init /\ [][Next]_vars

=============================================================================
