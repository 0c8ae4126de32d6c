------------------------------ MODULE Chunking ------------------------------
(***************************************************************************)
(* A long recording is cut into parts, each part is sent to the engine,    *)
(* and what comes back is put on one timeline again (chunking.py, and the  *)
(* loop of handle_transcribe that submits the parts).                      *)
(*                                                                         *)
(* Instants are whole milliseconds from the start of the recording.  A     *)
(* cut is placed at the last pause that is not too near the cut before it, *)
(* and at the ceiling where there is none.  Every part but the first       *)
(* begins `Overlap' before its cut; the middle of what two parts share is  *)
(* their seam, and a segment is kept by the part on whose side of the      *)
(* seams its own middle lies.                                              *)
(*                                                                         *)
(* The engine is external.  It returns what is said entirely within the    *)
(* part it was sent, timed from the start of that part; of what is cut off *)
(* by the part's edges it may return the piece it heard.  It names the     *)
(* voices anew in every request.                                           *)
(*                                                                         *)
(* The transcript is the set of its segments: the order they are listed    *)
(* in, by start and end, follows from them.                                *)
(***************************************************************************)
EXTENDS Integers, Sequences, FiniteSets

CONSTANTS
    Originals,     \* the recordings there can be, by what is heard in them
    Voices,
    Unnamed,       \* the speaker of a segment that names none
    Ceiling,       \* submission_ceiling: what a request may hold
    Overlap,       \* transcription_overlap_seconds, in milliseconds
    MinPart        \* MIN_PART_MS

VARIABLES
    recording,     \* the recording that is transcribed
    stage,         \* what the handler is doing
    cuts,          \* the boundaries placed so far
    heard,         \* what the engine answered, part by part
    transcript     \* what is kept of it

cvars == <<recording, stage, cuts, heard, transcript>>

\* A stretch with nothing in it, and a stretch in which something is said.
Silence == [from : Nat, to : Nat]
Utterance == {u \in [from : Nat, to : Nat, voice : Voices] : u.from <= u.to}

ChunkingAssumption ==
    /\ Ceiling \in Nat \ {0}
    /\ Overlap \in Nat
    /\ MinPart \in Nat \ {0}
    /\ Unnamed \notin Voices
    /\ \A r \in Originals :
          /\ r.length \in Nat
          /\ r.pauses \in SUBSET Silence
          /\ r.talk \in SUBSET Utterance
          /\ \A u \in r.talk : u.to <= r.length
ASSUME ChunkingAssumption

-----------------------------------------------------------------------------
(* The plan *)

Middle(s) == (s.from + s.to) \div 2

\* Where the last cut is, and so where the part being planned begins.
Position == IF cuts = <<>> THEN 0 ELSE cuts[Len(cuts)]

Remaining == recording.length - Position

UsableVariant ==   \* the nearest pause, on either side of the ceiling
    LET middles == {Middle(p) : p \in recording.pauses} IN
    {m \in middles : Position + MinPart <= m}

\* The instants a cut may be placed at for the sake of a pause.
Usable ==
    LET middles == {Middle(p) : p \in recording.pauses} IN
    {m \in middles : Position + MinPart <= m /\ m <= Position + Ceiling}

\* _cut_near: the usable pause nearest the ceiling, which is the last of them.
CutNear ==
    IF Usable = {} THEN Position + Ceiling
                   ELSE CHOOSE m \in Usable : \A n \in Usable : n <= m

Parts == Len(cuts) + 1

Single == Parts = 1

\* Where the audio of the k-th part begins, and where it ends.
StartOf(k) ==
    IF k = 1 \/ cuts[k - 1] <= Overlap THEN 0 ELSE cuts[k - 1] - Overlap

EndOf(k) == IF k < Parts THEN cuts[k] ELSE recording.length

\* What divides the k-th part from the next.
Seam(k) == (StartOf(k + 1) + EndOf(k)) \div 2

\* Whether an instant is on the k-th part's side of its seams.
Spans(k, t) ==
    /\ t >= IF k = 1 THEN 0 ELSE Seam(k - 1)
    /\ k < Parts => t < Seam(k)

-----------------------------------------------------------------------------
(* The engine *)

\* What is said within the k-th part, and what is cut off by its edges.
Whole(k) == {u \in recording.talk : StartOf(k) <= u.from /\ u.to <= EndOf(k)}
Torn(k) ==
    {u \in recording.talk \ Whole(k) : u.from < EndOf(k) /\ StartOf(k) < u.to}

\* How one request names the voices it hears.
Namings ==
    {f \in [Voices -> Voices] : \A v, w \in Voices : f[v] = f[w] => v = w}

\* An utterance as the engine times it: from the start of what it was sent.
Piece(u, k, name) ==
    [part |-> k, says |-> u, speaker |-> name[u.voice],
     from |-> (IF u.from < StartOf(k) THEN StartOf(k) ELSE u.from) - StartOf(k),
     to   |-> (IF u.to > EndOf(k) THEN EndOf(k) ELSE u.to) - StartOf(k)]

-----------------------------------------------------------------------------
(* The handler *)

ChunkInit ==
    /\ recording \in Originals
    /\ stage = "plan"
    /\ cuts = <<>>
    /\ heard = <<>>
    /\ transcript = {}

\* One turn of plan_parts' loop.  Its last resort, a cut that has not moved
\* on, cannot arise: the cuts it chooses from lie at least MinPart ahead.
PlaceCut ==
    /\ stage = "plan"
    /\ Remaining > Ceiling
    /\ cuts' = Append(cuts, CutNear)
    /\ UNCHANGED <<recording, stage, heard, transcript>>

PlanDone ==
    /\ stage = "plan"
    /\ Remaining <= Ceiling
    /\ stage' = "submit"
    /\ UNCHANGED <<recording, cuts, heard, transcript>>

SubmitPart ==
    LET k == Len(heard) + 1 IN
    /\ stage = "submit"
    /\ k <= Parts
    /\ \E torn \in SUBSET Torn(k), name \in Namings :
          heard' = Append(heard, {Piece(u, k, name) : u \in Whole(k) \cup torn})
    /\ UNCHANGED <<recording, stage, cuts, transcript>>

ShiftedVariant(s) == s   \* the offset of the part is forgotten

\* The same speech in the recording's own time.
Shifted(s) ==
    [s EXCEPT !.from = @ + StartOf(s.part), !.to = @ + StartOf(s.part)]

Kept(k) == {s \in {Shifted(p) : p \in heard[k]} : Spans(k, Middle(s))}

\* A recording sent whole keeps the names it came back with.
Relabelled(s) == IF Single THEN s ELSE [s EXCEPT !.speaker = Unnamed]

Stitch ==
    /\ stage = "submit"
    /\ Len(heard) = Parts
    /\ stage' = "done"
    /\ transcript' = UNION {{Relabelled(s) : s \in Kept(k)} : k \in 1..Parts}
    /\ UNCHANGED <<recording, cuts, heard>>

ChunkNext == PlaceCut \/ PlanDone \/ SubmitPart \/ Stitch

ChunkSpec == ChunkInit /\ [][ChunkNext]_cvars

-----------------------------------------------------------------------------
(* What it promises *)

LinesOf(u) == {s \in transcript : s.says = u}

\* "Every moment of audio is inside exactly one part's span" (chunking.py:19),
\* and that part was sent the audio of it; and no part is longer than the
\* ceiling and the overlap together.
PlanCovers ==
    stage # "plan" =>
        /\ \A t \in 0..(recording.length - 1) :
              \E k \in 1..Parts :
                 /\ StartOf(k) <= t /\ t < EndOf(k)
                 /\ {j \in 1..Parts : Spans(j, t)} = {k}
        /\ \A k \in 1..Parts : EndOf(k) - StartOf(k) <= Ceiling + Overlap

\* What is said in less time than two parts overlap is in the transcript
\* once, whole, and where it was said, whichever cuts it lies across and
\* whatever the engine makes of the pieces of it: a word across a cut is
\* neither lost nor repeated, and a click on it seeks to where it is.
WordsComeBackOnce ==
    stage = "done" =>
        \A u \in recording.talk :
            (Single \/ u.to - u.from < Overlap) =>
                \E s \in transcript :
                    /\ LinesOf(u) = {s}
                    /\ s.from = u.from /\ s.to = u.to

\* Where the engine returned every piece it heard of an utterance, however
\* long, some part keeps its piece: nothing falls down the gap.
NothingIsLost ==
    stage = "done" =>
        \A u \in recording.talk :
            (\A k \in 1..Parts :
                u \in Whole(k) \cup Torn(k) => \E p \in heard[k] : p.says = u)
            => LinesOf(u) # {}

\* Two segments that name the same speaker are one voice: names that two
\* requests chose are never put side by side (TRX-13).
OneVoicePerName ==
    \A s, t \in transcript :
        (s.speaker # Unnamed /\ s.speaker = t.speaker)
            => s.says.voice = t.says.voice

\* What a plan and a transcript made from it hold together.
ChunkInv == PlanCovers /\ NothingIsLost /\ OneVoicePerName
=============================================================================
