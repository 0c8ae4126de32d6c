---------------------------- MODULE MCRecordingFiles ----------------------------
(* RecordingFiles for TLC.  Beside it TrashPage, the screen recordings are      *)
(* destroyed from, and Chunking, what is made of a recording too long to send:  *)
(* each is explored by itself.                                                  *)
EXTENDS RecordingFiles, Chunking, TLC

CONSTANTS Shelf, MaxChanges, MaxCalls    \* the screen's one library, and its bounds

ASSUME ScreenAssumption == Shelf \notin Recordings /\ MaxChanges \in Nat /\ MaxCalls \in Nat

VARIABLES
    scene,    \* which of the three is explored
    where, stamp, now, libraries, recordings, changed, ticked, purging, summary, calls, asked

onTrash == <<where, stamp, now, libraries, recordings, changed, ticked, purging, summary, calls,
             asked>>
all == <<scene, vars, onTrash, cvars>>

T == INSTANCE TrashPage WITH Libraries <- {Shelf}, Home <- [r \in Recordings |-> Shelf]

-----------------------------------------------------------------------------
\* Recordings that are sent whole, in two parts and in three or four, in thousandths of the
\* real overlap and of the least length of a part.
Lengths == {8, 9, 17, 20}
Between(a, b) == [from |-> a, to |-> b]
PauseSets == {{}, {Between(5, 7)}, {Between(2, 2), Between(7, 8), Between(12, 14)}}

\* One voice says something somewhere, and another has the last word.
Tales(l) ==
    {{[from |-> a, to |-> b, voice |-> "ana"],
      [from |-> l - 1, to |-> l, voice |-> "bo"]} : a \in 0..l, b \in 0..l}

Heard ==
    {r \in [length : Lengths, pauses : PauseSets,
            talk : UNION {Tales(l) : l \in Lengths}] :
        /\ \A u \in r.talk : u.from <= u.to /\ u.to <= r.length
        /\ \E u \in r.talk : u.to = r.length}

-----------------------------------------------------------------------------
Whichever == CHOOSE r \in Originals : TRUE

MCInit ==
    /\ scene \in {"files", "trash", "parts"}
    /\ Init /\ T!Init
    /\ scene # "trash" => where = [x \in T!Things |-> "live"]
    /\ \/ scene # "parts" /\ recording = Whichever /\ ChunkInit
       \/ scene = "parts" /\ ChunkInit

Filed  == scene = "files" /\ Next /\ UNCHANGED <<scene, onTrash, cvars>>
Sorted == scene = "trash" /\ T!Next /\ UNCHANGED <<scene, vars, cvars>>
Parted == scene = "parts" /\ ChunkNext /\ UNCHANGED <<scene, vars, onTrash>>

MCSpec == MCInit /\ [][Filed \/ Sorted \/ Parted]_all

\* Once the process has died, fsck looks on while nobody encodes; and on the screen, one call
\* among the changes, or two calls and no change.
AFew == /\ crashes > 0 /\ fsck.step # "idle" => \A t \in Threads : at[t].step = "none"
        /\ asked <= 1 \/ now = 1

Symmetric == Permutations(Recordings) \cup Permutations(Threads)

\* TrashPage's: what is destroyed was counted (BulkPurgeDialog.tsx:46).
DestroysWhatWasAgreed == T!DestroysWhatWasAgreed
=============================================================================
