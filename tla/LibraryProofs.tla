---------------------------- MODULE LibraryProofs ----------------------------
(***************************************************************************)
(* Proofs about Library, for every number of recordings, tags, filters,    *)
(* runs, rows a page and mishaps: a cached row is as the instance has it   *)
(* until a run is answered, and what a run has changed stays untold only   *)
(* until the whole cache is told; so a run that was alone, over rows read  *)
(* since, sends for every recording the tags it has and one more.          *)
(***************************************************************************)
EXTENDS Library, TLAPS

-----------------------------------------------------------------------------
(* The invariant *)

Kinds  == {"tag", "move", "trash", "restore"}
Copies == UNION {[S -> SUBSET Tags] : S \in SUBSET Recordings}
RunSet ==
    [id : Nat, kind : Kinds, tag : Tags \cup {Nothing}, copy : Copies,
     flying : SUBSET Recordings, todo : SUBSET Recordings,
     ok : SUBSET Recordings, bad : SUBSET Recordings,
     awaiting : Filters \cup {Nothing}, sound : BOOLEAN]
Undos   == [kind : {"undo"}, of : SUBSET Recordings]
Retries == [kind : {"retry"}, of : Kinds, tag : Tags \cup {Nothing}, copy : Copies]

TypeOK ==
    /\ place \in [Recordings -> {"here", "away", "trash"}]
    /\ tags \in [Recordings -> SUBSET Tags]
    /\ filter \in Filters /\ pages \in [Filters -> Nat]
    /\ rows \in [Filters -> Copies \cup {NotRead}]
    /\ stale \in SUBSET Filters /\ behind \in SUBSET (Filters \cup {"everything", "kept"})
    /\ kept \in [query : Filters \cup {Nothing}, items : Copies]
    /\ everything \in [query : {Nothing}] \cup [query : Filters, items : Copies]
    /\ selected \in SUBSET Recordings
    /\ runs \in SUBSET RunSet
    /\ bar \in Kinds \cup {Nothing}
    /\ toast \in {NoToast} \cup Undos \cup Retries
    /\ started \in Nat /\ mishaps \in Nat

\* A run works through what it was handed, one recording once, and only a run of tags has a tag.
WellMade(run) ==
    /\ run.flying \cup run.todo \cup run.ok \cup run.bad \subseteq DOMAIN run.copy
    /\ run.flying \cap run.todo = {}
    /\ run.awaiting # Nothing => run.flying = {}
    /\ run.kind = "tag" => run.tag \in Tags

RunsWellMade ==
    /\ \A run \in runs : WellMade(run)
    /\ toast.kind = "retry" /\ toast.of = "tag" => toast.tag \in Tags

\* What a run has changed and not told the cache of yet.
Untold(rs, r) == \E run \in rs : run.awaiting = Nothing /\ r \in run.ok

RowsTold ==
    \A q \in Filters \ (stale \cup behind) : Read(q) =>
        \A r \in DOMAIN rows[q] :
            (place[r] = "here" /\ rows[q][r] = tags[r]) \/ Untold(runs, r)

EverythingTold ==
    everything.query # Nothing /\ "everything" \notin behind =>
        \A r \in DOMAIN everything.items : everything.items[r] = tags[r] \/ Untold(runs, r)

KeptTold ==
    "kept" \notin behind =>
        \A r \in DOMAIN kept.items : kept.items[r] = tags[r] \/ Untold(runs, r)

\* A sound run is alone, and what it has still to send was read as it is.
SoundRuns ==
    \A run \in runs : run.sound =>
        /\ runs = {run}
        /\ run.kind = "tag" => \A r \in run.flying \cup run.todo : run.copy[r] = tags[r]

IInv == TypeOK /\ RunsWellMade /\ RowsTold /\ EverythingTold /\ KeptTold /\ SoundRuns

-----------------------------------------------------------------------------
(* What is read, and what a run is *)

LEMMA FirstWithin ==
  ASSUME NEW n, NEW S
  PROVE  First(n, S) \subseteq S
BY DEF First

\* A page read holds recordings of the query that are here, and their tags as they are.
LEMMA Reading ==
  ASSUME LibraryAssumption, TypeOK, NEW q \in Filters, NEW offset, NEW size
  PROVE  LET w == Window(q, offset, size)
         IN  /\ w \in Copies
             /\ \A r \in DOMAIN w : r \in Recordings /\ place[r] = "here" /\ w[r] = tags[r]
<1> DEFINE D == First(offset + size, Listed(q)) \ First(offset, Listed(q))
<1>1. D \subseteq Listed(q)
  BY DEF First
<1>2. Listed(q) \subseteq Recordings /\ \A r \in Listed(q) : place[r] = "here"
  BY DEF Listed, LibraryAssumption
<1>3. Window(q, offset, size) = [r \in D |-> tags[r]]
  BY DEF Window
<1> HIDE DEF D
<1>4. [r \in D |-> tags[r]] \in [D -> SUBSET Tags] /\ D \in SUBSET Recordings
  BY <1>1, <1>2 DEF TypeOK
<1> QED
  BY <1>1, <1>2, <1>3, <1>4 DEF Copies

LEMMA CopyFacts ==
  ASSUME NEW f \in Copies
  PROVE  /\ DOMAIN f \in SUBSET Recordings
         /\ f \in [DOMAIN f -> SUBSET Tags]
         /\ \A r \in DOMAIN f : f[r] \in SUBSET Tags
BY DEF Copies

LEMMA NoneKeptFacts ==
  /\ NoneKept \in [query : Filters \cup {Nothing}, items : Copies]
  /\ DOMAIN NoneKept.items = {}
<1> DEFINE none == [r \in {} |-> {}]
<1>1. none \in [{} -> SUBSET Tags] /\ DOMAIN none = {}
  OBVIOUS
<1>2. none \in Copies
  BY <1>1 DEF Copies
<1>3. NoneKept = [query |-> Nothing, items |-> none]
  BY DEF NoneKept
<1> QED
  BY <1>1, <1>2, <1>3

LEMMA NewRun ==
  ASSUME TypeOK, NEW kind \in Kinds, NEW tag \in Tags \cup {Nothing}, NEW copy \in Copies, NEW source,
         kind = "tag" => tag \in Tags
  PROVE  LET run == Run(kind, tag, copy, source)
         IN  /\ run \in RunSet /\ WellMade(run) /\ run.kind = kind /\ run.copy = copy
             /\ run.sound = (source \notin stale \cup behind \cup {"toast"} /\ runs = {})
             /\ run.flying \cup run.todo \subseteq DOMAIN copy
<1> DEFINE run == Run(kind, tag, copy, source)
           F == First(Concurrency, DOMAIN copy)
           s == source \notin stale \cup behind \cup {"toast"} /\ runs = {}
<1>1. F \subseteq DOMAIN copy /\ DOMAIN copy \in SUBSET Recordings
  BY FirstWithin, CopyFacts
<1>2. run = [id |-> started, kind |-> kind, tag |-> tag, copy |-> copy, flying |-> F,
             todo |-> DOMAIN copy \ F, ok |-> {}, bad |-> {}, awaiting |-> Nothing, sound |-> s]
  BY DEF Run
<1>3. s \in BOOLEAN /\ started \in Nat
  BY DEF TypeOK
<1> HIDE DEF F, s
<1>4. run \in RunSet
  BY <1>1, <1>2, <1>3 DEF RunSet
<1>5. WellMade(run)
  BY <1>1, <1>2 DEF WellMade
<1>6. /\ run.kind = kind /\ run.copy = copy /\ run.sound = s
      /\ run.flying \cup run.todo \subseteq DOMAIN copy
  BY <1>1, <1>2
<1> QED
  BY <1>4, <1>5, <1>6 DEF s

LEMMA DisturbedFacts ==
  ASSUME NEW rs \in SUBSET RunSet, \A run \in rs : WellMade(run)
  PROVE  /\ Disturbed(rs) \in SUBSET RunSet
         /\ \A run \in Disturbed(rs) : WellMade(run) /\ ~run.sound
         /\ \A r : Untold(rs, r) => Untold(Disturbed(rs), r)
<1>1. ASSUME NEW run \in rs
      PROVE  LET d == [run EXCEPT !.sound = FALSE]
             IN  /\ d \in RunSet /\ ~d.sound /\ d.awaiting = run.awaiting /\ d.ok = run.ok
                 /\ WellMade(d)
  <2> DEFINE d == [run EXCEPT !.sound = FALSE]
  <2>1. run \in RunSet /\ WellMade(run)
    OBVIOUS
  <2>2. /\ d \in RunSet /\ ~d.sound /\ d.awaiting = run.awaiting /\ d.ok = run.ok
        /\ d.flying = run.flying /\ d.todo = run.todo /\ d.bad = run.bad /\ d.copy = run.copy
        /\ d.kind = run.kind /\ d.tag = run.tag
    BY <2>1 DEF RunSet
  <2> QED
    BY <2>1, <2>2 DEF WellMade
<1>2. \A d \in Disturbed(rs) : \E run \in rs : d = [run EXCEPT !.sound = FALSE]
  BY DEF Disturbed
<1>3. \A run \in rs : [run EXCEPT !.sound = FALSE] \in Disturbed(rs)
  BY DEF Disturbed
<1>4. Disturbed(rs) \in SUBSET RunSet
  BY <1>1, <1>2
<1>5. \A run \in Disturbed(rs) : WellMade(run) /\ ~run.sound
  BY <1>1, <1>2
<1>6. ASSUME NEW r, Untold(rs, r)
      PROVE  Untold(Disturbed(rs), r)
  BY <1>1, <1>3, <1>6 DEF Untold
<1> QED
  BY <1>4, <1>5, <1>6

-----------------------------------------------------------------------------
(* What stays true *)

LEMMA ToldStays ==
  ASSUME RowsTold, EverythingTold, KeptTold, UNCHANGED <<place, tags, rows, everything, kept>>,
         stale \subseteq stale', behind \subseteq behind',
         \A r : Untold(runs, r) => Untold(runs', r)
  PROVE  RowsTold' /\ EverythingTold' /\ KeptTold'
BY DEF RowsTold, EverythingTold, KeptTold, Read

LEMMA RunsStay ==
  ASSUME RunsWellMade, SoundRuns, UNCHANGED <<runs, tags>>,
         UNCHANGED toast \/ toast'.kind # "retry"
  PROVE  RunsWellMade' /\ SoundRuns'
<1>1. RunsWellMade'
  BY DEF RunsWellMade, WellMade
<1>2. SoundRuns'
  BY DEF SoundRuns
<1> QED
  BY <1>1, <1>2

\* A run that starts disturbs the others, and is sound only if it is alone.
LEMMA Starting ==
  ASSUME LibraryAssumption, IInv, NEW run \in RunSet, WellMade(run),
         run.sound => runs = {} /\ (run.kind = "tag" => \A r \in run.flying \cup run.todo : run.copy[r] = tags[r]),
         runs' = Disturbed(runs) \cup {run}, UNCHANGED <<place, tags, rows, kept, everything, stale, behind>>
  PROVE  /\ runs' \in SUBSET RunSet /\ \A x \in runs' : WellMade(x)
         /\ RowsTold' /\ EverythingTold' /\ KeptTold' /\ SoundRuns'
<1>1. /\ Disturbed(runs) \in SUBSET RunSet
      /\ \A x \in Disturbed(runs) : WellMade(x) /\ ~x.sound
      /\ \A r : Untold(runs, r) => Untold(Disturbed(runs), r)
  BY DisturbedFacts DEF IInv, TypeOK, RunsWellMade
<1>2. \A r : Untold(runs, r) => Untold(runs', r)
  BY <1>1 DEF Untold
<1>3. RowsTold' /\ EverythingTold' /\ KeptTold'
  BY <1>2, ToldStays DEF IInv
<1>4. runs = {} => Disturbed(runs) = {}
  BY DEF Disturbed
<1>5. SoundRuns'
  BY <1>1, <1>4 DEF SoundRuns
<1> QED
  BY <1>1, <1>3, <1>5

-----------------------------------------------------------------------------
(* What a run's answers do *)

LEMMA Reporting ==
  ASSUME TypeOK, NEW run \in RunSet, WellMade(run), Report(run)
  PROVE  /\ bar' \in Kinds \cup {Nothing} /\ selected' \in SUBSET Recordings
         /\ toast' \in {NoToast} \cup Undos \cup Retries
         /\ toast'.kind = "retry" /\ toast'.of = "tag" => toast'.tag \in Tags
<1>1. bar' = Nothing /\ selected' = selected \cap run.bad /\ toast' = Said(run)
  BY DEF Report
<1>2. selected' \in SUBSET Recordings
  BY <1>1 DEF TypeOK
<1>3. /\ run.copy \in Copies /\ run.bad \subseteq DOMAIN run.copy /\ run.kind \in Kinds
      /\ run.tag \in Tags \cup {Nothing} /\ run.ok \in SUBSET Recordings
      /\ run.kind = "tag" => run.tag \in Tags
  BY DEF RunSet, WellMade
<1>4. Restrict(run.copy, run.bad) \in Copies
  <2>1. run.copy \in [DOMAIN run.copy -> SUBSET Tags] /\ run.bad \in SUBSET Recordings
    BY <1>3, CopyFacts
  <2>2. Restrict(run.copy, run.bad) \in [run.bad -> SUBSET Tags]
    BY <1>3, <2>1 DEF Restrict
  <2> QED
    BY <2>1, <2>2 DEF Copies
<1>5. CASE run.bad # {}
  <2>1. toast' = [kind |-> "retry", of |-> run.kind, tag |-> run.tag,
                  copy |-> Restrict(run.copy, run.bad)]
    BY <1>1, <1>5 DEF Said
  <2>2. toast' \in Retries /\ toast'.of = run.kind /\ toast'.tag = run.tag
    BY <1>3, <1>4, <2>1 DEF Retries
  <2> QED
    BY <1>1, <1>2, <1>3, <2>2
<1>6. CASE run.bad = {}
  <2>1. toast' = [kind |-> "undo", of |-> run.ok] \/ toast' = NoToast
    BY <1>1, <1>6 DEF Said
  <2>2. [kind |-> "undo", of |-> run.ok] \in Undos
    BY <1>3 DEF Undos
  <2>3. toast'.kind # "retry"
    BY <2>1 DEF NoToast
  <2> QED
    BY <1>1, <1>2, <2>1, <2>2, <2>3
<1> QED
  BY <1>5, <1>6

\* What landed stays untold until the whole cache is told of it; the run is still the one it was,
\* with no more to send than before.
LEMMA Landing ==
  ASSUME TypeOK, RunsWellMade, NEW others \in SUBSET RunSet, \A x \in others : WellMade(x),
         NEW run \in RunSet, WellMade(run), run.awaiting = Nothing,
         NEW missed \in SUBSET (Filters \cup {"everything", "kept"}), Landed(others, run, missed)
  PROVE  /\ runs' \in SUBSET RunSet /\ \A x \in runs' : WellMade(x)
         /\ stale' \in SUBSET Filters /\ behind' \in SUBSET (Filters \cup {"everything", "kept"})
         /\ bar' \in Kinds \cup {Nothing} /\ selected' \in SUBSET Recordings
         /\ toast' \in {NoToast} \cup Undos \cup Retries
         /\ toast'.kind = "retry" /\ toast'.of = "tag" => toast'.tag \in Tags
         /\ stale \subseteq stale' /\ behind \cup missed \subseteq behind'
         /\ \/ stale' = Filters /\ {"everything", "kept"} \subseteq behind'
            \/ \A r : Untold(others \cup {run}, r) => Untold(runs', r)
         /\ \E x : /\ runs' \subseteq others \cup {x}
                   /\ x.sound = run.sound /\ x.kind = run.kind /\ x.copy = run.copy
                   /\ x.flying \cup x.todo \subseteq run.flying \cup run.todo
<1> DEFINE next == First(1, run.todo)
           went == [run EXCEPT !.todo = @ \ next, !.flying = @ \cup next]
           told == [run EXCEPT !.awaiting = filter]
<1>1. next \subseteq run.todo
  BY FirstWithin
<1>2. \/ /\ went.flying # {} /\ runs' = others \cup {went} /\ behind' = behind \cup missed
         /\ UNCHANGED <<stale, bar, selected, toast>>
      \/ /\ went.flying = {} /\ run.ok # {}
         /\ runs' = others \cup {told}
         /\ stale' = Filters /\ behind' = behind \cup missed \cup {"everything", "kept"}
         /\ UNCHANGED <<bar, selected, toast>>
      \/ /\ went.flying = {} /\ run.ok = {}
         /\ runs' = others /\ behind' = behind \cup missed /\ Report(run) /\ UNCHANGED stale
  BY DEF Landed
<1> HIDE DEF next
<1>3. /\ went \in RunSet /\ went.sound = run.sound /\ went.kind = run.kind /\ went.copy = run.copy
      /\ went.flying = run.flying \cup next /\ went.todo = run.todo \ next /\ went.ok = run.ok
      /\ went.bad = run.bad /\ went.awaiting = run.awaiting /\ went.tag = run.tag
  BY <1>1 DEF RunSet
<1>4. WellMade(went)
  BY <1>1, <1>3 DEF WellMade
<1>5. /\ told \in RunSet /\ told.sound = run.sound /\ told.kind = run.kind /\ told.copy = run.copy
      /\ told.flying = run.flying /\ told.todo = run.todo /\ told.ok = run.ok
      /\ told.bad = run.bad /\ told.tag = run.tag
  BY DEF RunSet, TypeOK
<1> HIDE DEF told
<1>6. CASE /\ went.flying # {} /\ runs' = others \cup {went} /\ behind' = behind \cup missed
           /\ UNCHANGED <<stale, bar, selected, toast>>
  <2> HIDE DEF went
  <2>1. \A r : Untold(others \cup {run}, r) => Untold(runs', r)
    BY <1>3, <1>6 DEF Untold
  <2>2. went.flying \cup went.todo \subseteq run.flying \cup run.todo
    BY <1>1, <1>3
  <2> QED
    BY <1>3, <1>4, <1>6, <2>1, <2>2 DEF TypeOK, RunsWellMade
<1>7. CASE /\ went.flying = {} /\ run.ok # {}
           /\ runs' = others \cup {told}
           /\ stale' = Filters /\ behind' = behind \cup missed \cup {"everything", "kept"}
           /\ UNCHANGED <<bar, selected, toast>>
  <2>1. run.flying = {}
    BY <1>3, <1>7
  <2>2. WellMade(told)
    BY <1>5, <2>1 DEF WellMade
  <2> HIDE DEF went
  <2> QED
    BY <1>5, <1>7, <2>2 DEF TypeOK, RunsWellMade
<1>8. CASE /\ went.flying = {} /\ run.ok = {}
           /\ runs' = others /\ behind' = behind \cup missed /\ Report(run) /\ UNCHANGED stale
  <2> HIDE DEF went
  <2>1. \A r : Untold(others \cup {run}, r) => Untold(runs', r)
    BY <1>8 DEF Untold
  <2> QED
    BY <1>8, <2>1, Reporting DEF TypeOK
<1> QED
  BY <1>2, <1>6, <1>7, <1>8

LEMMA CarriedFacts ==
  ASSUME TypeOK, NEW run \in RunSet, WellMade(run), NEW r \in run.flying, Carried(run, r)
  PROVE  /\ place' \in [Recordings -> {"here", "away", "trash"}]
         /\ tags' \in [Recordings -> SUBSET Tags]
         /\ \A s \in Recordings \ {r} : tags'[s] = tags[s] /\ place'[s] = place[s]
         /\ \/ tags' = tags
            \/ run.kind = "tag" /\ tags'[r] = run.copy[r] \cup {run.tag}
<1>1. /\ r \in Recordings /\ r \in DOMAIN run.copy /\ run.copy \in Copies
      /\ run.kind = "tag" => run.tag \in Tags
  BY DEF RunSet, WellMade
<1>2. run.copy[r] \in SUBSET Tags
  BY <1>1, CopyFacts
<1>3. CASE run.kind = "tag"
  <2>1. /\ place' = place
        /\ tags' = [tags EXCEPT ![r] = IF run.tag \in run.copy[r] THEN @ ELSE run.copy[r] \cup {run.tag}]
    BY <1>3 DEF Carried
  <2>2. tags' \in [Recordings -> SUBSET Tags]
    BY <1>1, <1>2, <1>3, <2>1 DEF TypeOK
  <2>3. tags' = tags \/ tags'[r] = run.copy[r] \cup {run.tag}
    BY <1>1, <2>1 DEF TypeOK
  <2> QED
    BY <1>1, <1>3, <2>1, <2>2, <2>3 DEF TypeOK
<1>4. CASE run.kind # "tag"
  <2>1. tags' = tags /\ \E p \in {"here", "away", "trash"} : place' = [place EXCEPT ![r] = p]
    BY <1>4 DEF Carried, RunSet, Kinds
  <2> QED
    BY <1>1, <2>1 DEF TypeOK
<1> QED
  BY <1>3, <1>4

\* An answer, whatever it says and whoever is disturbed by it: what the instance was changed in is
\* among what the run has done, or every copy is known to be behind.
LEMMA Answering ==
  ASSUME LibraryAssumption, IInv, NEW run \in runs, NEW r \in run.flying,
         NEW after \in {Succeeded(run, r), Failed(run, r)},
         NEW others \in {runs \ {run}, Disturbed(runs \ {run})},
         NEW missed \in {{}, Filters \cup {"everything", "kept"}},
         Landed(others, after, missed), UNCHANGED <<rows, view, everything>>,
         started' \in Nat, mishaps' \in Nat,
         place' \in [Recordings -> {"here", "away", "trash"}],
         tags' \in [Recordings -> SUBSET Tags],
         \A s \in Recordings \ {r} : tags'[s] = tags[s] /\ place'[s] = place[s],
         UNCHANGED server \/ after = Succeeded(run, r) \/ missed # {}
  PROVE  IInv'
<1> USE DEF IInv
<1>1. run \in RunSet /\ WellMade(run) /\ run.awaiting = Nothing /\ r \in Recordings
  BY DEF TypeOK, RunsWellMade, WellMade, RunSet
<1>2. /\ after \in RunSet /\ after.awaiting = Nothing /\ after.sound = run.sound
      /\ after.kind = run.kind /\ after.copy = run.copy /\ after.tag = run.tag
      /\ after.flying = run.flying \ {r} /\ after.todo = run.todo
      /\ run.ok \subseteq after.ok /\ after.ok \cup after.bad \subseteq run.ok \cup run.bad \cup {r}
      /\ after = Succeeded(run, r) => r \in after.ok
  <2>1. CASE after = Succeeded(run, r)
    BY <1>1, <2>1 DEF Succeeded, RunSet
  <2>2. CASE after = Failed(run, r)
    <3>1. after = [run EXCEPT !.flying = @ \ {r}, !.bad = @ \cup {r}]
      BY <2>2 DEF Failed
    <3>2. after.ok = run.ok
      BY <1>1, <3>1 DEF RunSet
    <3>3. after = Succeeded(run, r) => r \in after.ok
      BY <1>1 DEF Succeeded, RunSet
    <3> QED
      BY <1>1, <3>1, <3>2, <3>3 DEF RunSet
  <2> QED
    BY <2>1, <2>2
<1>3. WellMade(after)
  BY <1>1, <1>2 DEF WellMade
<1>4. /\ others \in SUBSET RunSet /\ \A x \in others : WellMade(x) /\ (x.sound => x \in runs \ {run})
      /\ \A x : Untold(runs \ {run}, x) => Untold(others, x)
  <2>1. runs \ {run} \in SUBSET RunSet /\ \A x \in runs \ {run} : WellMade(x)
    BY DEF TypeOK, RunsWellMade
  <2>2. CASE others = runs \ {run}
    BY <2>1, <2>2
  <2>3. CASE others = Disturbed(runs \ {run})
    BY <2>1, <2>3, DisturbedFacts
  <2> QED
    BY <2>2, <2>3
<1>5. \A x : Untold(runs, x) => Untold(others \cup {after}, x)
  BY <1>1, <1>2, <1>4 DEF Untold
<1>6. /\ runs' \in SUBSET RunSet /\ \A x \in runs' : WellMade(x)
      /\ stale' \in SUBSET Filters /\ behind' \in SUBSET (Filters \cup {"everything", "kept"})
      /\ bar' \in Kinds \cup {Nothing} /\ selected' \in SUBSET Recordings
      /\ toast' \in {NoToast} \cup Undos \cup Retries
      /\ toast'.kind = "retry" /\ toast'.of = "tag" => toast'.tag \in Tags
      /\ stale \subseteq stale' /\ behind \cup missed \subseteq behind'
      /\ \/ stale' = Filters /\ {"everything", "kept"} \subseteq behind'
         \/ \A x : Untold(others \cup {after}, x) => Untold(runs', x)
      /\ \E x : /\ runs' \subseteq others \cup {x}
                /\ x.sound = after.sound /\ x.kind = after.kind /\ x.copy = after.copy
                /\ x.flying \cup x.todo \subseteq after.flying \cup after.todo
  <2>1. missed \in SUBSET (Filters \cup {"everything", "kept"})
    OBVIOUS
  <2> QED
    BY <1>2, <1>3, <1>4, <2>1, Landing
<1>7. TypeOK'
  BY <1>6 DEF TypeOK, view
<1>8. RunsWellMade'
  BY <1>6 DEF RunsWellMade, WellMade
<1>9. ASSUME NEW s \in Recordings, ~(stale' = Filters /\ {"everything", "kept"} \subseteq behind'), missed = {}
      PROVE  (UNCHANGED <<tags[s], place[s]>>) \/ Untold(runs', s)
  <2>1. CASE s # r
    BY <2>1
  <2>2. CASE UNCHANGED server
    BY <2>2 DEF server
  <2>3. CASE s = r /\ after = Succeeded(run, r)
    <3>1. Untold(others \cup {after}, s)
      BY <1>2, <2>3 DEF Untold
    <3> QED
      BY <1>6, <1>9, <3>1
  <2> QED
    BY <1>9, <2>1, <2>2, <2>3
<1>10. RowsTold'
  <2> SUFFICES ASSUME NEW q \in Filters \ (stale \cup behind)', Read(q)', NEW s \in DOMAIN (rows')[q]
               PROVE  (place'[s] = "here" /\ (rows')[q][s] = tags'[s]) \/ Untold(runs', s)
    BY DEF RowsTold
  <2>1. /\ q \notin stale \cup behind /\ Read(q) /\ s \in DOMAIN rows[q] /\ missed = {}
        /\ stale' # Filters
    BY <1>6 DEF Read
  <2>2. s \in Recordings
    BY <2>1, CopyFacts DEF TypeOK, Read
  <2>3. (place[s] = "here" /\ rows[q][s] = tags[s]) \/ Untold(runs, s)
    BY <2>1 DEF RowsTold
  <2> QED
    BY <1>5, <1>6, <1>9, <2>1, <2>2, <2>3
<1>11. EverythingTold'
  <2> SUFFICES ASSUME everything.query # Nothing, "everything" \notin behind', NEW s \in DOMAIN everything.items
               PROVE  everything.items[s] = tags'[s] \/ Untold(runs', s)
    BY DEF EverythingTold
  <2>1. "everything" \notin behind /\ missed = {}
    BY <1>6
  <2>2. s \in Recordings
    BY CopyFacts DEF TypeOK
  <2>3. everything.items[s] = tags[s] \/ Untold(runs, s)
    BY <2>1 DEF EverythingTold
  <2> QED
    BY <1>5, <1>6, <1>9, <2>1, <2>2, <2>3
<1>13. KeptTold'
  <2> SUFFICES ASSUME "kept" \notin behind', NEW s \in DOMAIN kept.items
               PROVE  kept.items[s] = tags'[s] \/ Untold(runs', s)
    BY DEF KeptTold, view
  <2>1. "kept" \notin behind /\ missed = {}
    BY <1>6
  <2>2. s \in Recordings
    BY CopyFacts DEF TypeOK
  <2>3. kept.items[s] = tags[s] \/ Untold(runs, s)
    BY <2>1 DEF KeptTold
  <2> QED
    BY <1>5, <1>6, <1>9, <2>1, <2>2, <2>3
<1>12. SoundRuns'
  <2> SUFFICES ASSUME NEW x \in runs', x.sound
               PROVE  /\ runs' = {x}
                      /\ x.kind = "tag" => \A s \in x.flying \cup x.todo : x.copy[s] = tags'[s]
    BY DEF SoundRuns
  <2>1. PICK y : /\ runs' \subseteq others \cup {y}
                 /\ y.sound = after.sound /\ y.kind = after.kind /\ y.copy = after.copy
                 /\ y.flying \cup y.todo \subseteq after.flying \cup after.todo
    BY <1>6
  <2>2. x \notin others
    BY <1>4 DEF SoundRuns
  <2>3. x = y /\ run.sound
    BY <1>2, <2>1, <2>2
  <2>4. runs = {run}
    BY <2>3 DEF SoundRuns
  <2>5. others = {}
    BY <2>4 DEF Disturbed
  <2>6. runs' = {x}
    BY <2>1, <2>3, <2>5
  <2>7. r \notin run.todo /\ run.flying \cup run.todo \subseteq Recordings
    BY <1>1 DEF WellMade, RunSet
  <2>8. ASSUME x.kind = "tag", NEW s \in x.flying \cup x.todo
        PROVE  x.copy[s] = tags'[s]
    <3>1. s \in run.flying \cup run.todo /\ s # r /\ x.copy = run.copy /\ run.kind = "tag"
      BY <1>2, <2>1, <2>3, <2>7, <2>8
    <3>2. run.copy[s] = tags[s]
      BY <2>3, <3>1 DEF SoundRuns
    <3> QED
      BY <2>7, <3>1, <3>2
  <2> QED
    BY <2>6, <2>8
<1> QED
  BY <1>7, <1>8, <1>10, <1>11, <1>12, <1>13

LEMMA RunAnswers ==
  ASSUME LibraryAssumption, IInv, NEW run \in runs, NEW r \in run.flying,
         Answered(run, r) \/ Refused(run, r) \/ Lost(run, r)
  PROVE  IInv'
<1>1. /\ run \in RunSet /\ WellMade(run) /\ started \in Nat /\ mishaps \in Nat
      /\ place \in [Recordings -> {"here", "away", "trash"}] /\ tags \in [Recordings -> SUBSET Tags]
  BY DEF IInv, TypeOK, RunsWellMade
<1>2. CASE Answered(run, r)
  <2>1. /\ Carried(run, r) /\ Landed(runs \ {run}, Succeeded(run, r), {})
        /\ UNCHANGED <<rows, view, everything>> /\ started' = started /\ mishaps' = mishaps
    BY <1>2 DEF Answered, counts
  <2>2. /\ place' \in [Recordings -> {"here", "away", "trash"}]
        /\ tags' \in [Recordings -> SUBSET Tags]
        /\ \A s \in Recordings \ {r} : tags'[s] = tags[s] /\ place'[s] = place[s]
    BY <1>1, <2>1, CarriedFacts DEF IInv
  <2> QED
    BY <1>1, <2>1, <2>2, Answering
<1>3. CASE Refused(run, r)
  <2>1. /\ UNCHANGED server /\ Landed(runs \ {run}, Failed(run, r), {})
        /\ UNCHANGED <<rows, view, everything>> /\ started' = started
        /\ mishaps' \in {mishaps, mishaps + 1}
    BY <1>3 DEF Refused
  <2>2. place' = place /\ tags' = tags
    BY <2>1 DEF server
  <2>3. mishaps' \in Nat /\ started' \in Nat
    BY <1>1, <2>1
  <2> QED
    BY <1>1, <2>1, <2>2, <2>3, Answering
<1>4. CASE Lost(run, r)
  <2>1. /\ Carried(run, r)
        /\ Landed(Disturbed(runs \ {run}), Failed(run, r), Filters \cup {"everything", "kept"})
        /\ UNCHANGED <<rows, view, everything>> /\ started' = started /\ mishaps' = mishaps + 1
    BY <1>4 DEF Lost
  <2>2. /\ place' \in [Recordings -> {"here", "away", "trash"}]
        /\ tags' \in [Recordings -> SUBSET Tags]
        /\ \A s \in Recordings \ {r} : tags'[s] = tags[s] /\ place'[s] = place[s]
    BY <1>1, <2>1, CarriedFacts DEF IInv
  <2>3. mishaps' \in Nat /\ started' \in Nat
    BY <1>1, <2>1
  <2> QED
    BY <2>1, <2>2, <2>3, Answering
<1> QED
  BY <1>2, <1>3, <1>4

-----------------------------------------------------------------------------
(* The other steps *)

\* Rows read again are as the instance has them; the other queries' are what they were.
LEMMA Refetching ==
  ASSUME LibraryAssumption, IInv, NEW q \in Filters, Refetch(q), UNCHANGED <<server, everything>>,
         \A r : Untold(runs, r) => Untold(runs', r)
  PROVE  /\ rows' \in [Filters -> Copies \cup {NotRead}]
         /\ stale' \in SUBSET Filters /\ behind' \in SUBSET (Filters \cup {"everything", "kept"})
         /\ kept' \in [query : Filters \cup {Nothing}, items : Copies]
         /\ RowsTold' /\ EverythingTold' /\ KeptTold'
<1> DEFINE w == Window(q, 0, pages[q] * PageSize)
<1>1. /\ rows' = [rows EXCEPT ![q] = w] /\ stale' = stale \ {q}
      /\ behind' = behind \ (IF q = filter THEN {q, "kept"} ELSE {q})
      /\ kept' = IF q = filter THEN NoneKept ELSE kept
      /\ place' = place /\ tags' = tags /\ everything' = everything
  BY DEF Refetch, server
<1>2. w \in Copies /\ \A r \in DOMAIN w : place[r] = "here" /\ w[r] = tags[r]
  BY Reading DEF IInv
<1> HIDE DEF w
<1>3. rows' \in [Filters -> Copies \cup {NotRead}]
  BY <1>1, <1>2 DEF IInv, TypeOK
<1>4. stale' \in SUBSET Filters /\ behind' \in SUBSET (Filters \cup {"everything", "kept"})
  BY <1>1 DEF IInv, TypeOK
<1>5. RowsTold'
  <2> SUFFICES ASSUME NEW p \in Filters \ (stale \cup behind)', Read(p)', NEW s \in DOMAIN (rows')[p]
               PROVE  (place'[s] = "here" /\ (rows')[p][s] = tags'[s]) \/ Untold(runs', s)
    BY DEF RowsTold
  <2>1. CASE p = q
    BY <1>1, <1>2, <2>1 DEF IInv, TypeOK
  <2>2. CASE p # q
    <3>1. (rows')[p] = rows[p] /\ p \notin stale \cup behind /\ Read(p)
      BY <1>1, <2>2 DEF IInv, TypeOK, Read
    <3> QED
      BY <1>1, <3>1 DEF IInv, RowsTold
  <2> QED
    BY <2>1, <2>2
<1>6. EverythingTold'
  <2>1. "everything" \notin behind' => "everything" \notin behind
    BY <1>1 DEF LibraryAssumption
  <2> QED
    BY <1>1, <2>1 DEF IInv, EverythingTold
<1>7. kept' \in [query : Filters \cup {Nothing}, items : Copies]
  BY <1>1, NoneKeptFacts DEF IInv, TypeOK
<1>8. KeptTold'
  <2>1. CASE q = filter
    BY <1>1, <2>1, NoneKeptFacts DEF KeptTold
  <2>2. CASE q # filter
    <3>1. kept' = kept /\ ("kept" \notin behind' => "kept" \notin behind)
      BY <1>1, <2>2 DEF LibraryAssumption
    <3> QED
      BY <1>1, <3>1 DEF IInv, KeptTold
  <2> QED
    BY <2>1, <2>2
<1> QED
  BY <1>3, <1>4, <1>5, <1>6, <1>7, <1>8

LEMMA Settling ==
  ASSUME LibraryAssumption, IInv, NEW run \in runs, Settle(run) \/ SettleFails(run)
  PROVE  IInv'
<1> USE DEF IInv
<1>1. run \in RunSet /\ WellMade(run) /\ run.awaiting # Nothing
  BY DEF Settle, SettleFails, TypeOK, RunsWellMade
<1>2. run.awaiting \in Filters
  BY <1>1 DEF RunSet
<1>3. /\ runs' = runs \ {run} /\ Report(run)
      /\ UNCHANGED <<server, filter, pages, everything, started>>
      /\ mishaps' \in {mishaps, mishaps + 1}
      /\ Refetch(run.awaiting) \/ UNCHANGED <<cache, kept>>
  BY DEF Settle, SettleFails, counts, view
<1>4. \A r : Untold(runs, r) => Untold(runs', r)
  BY <1>1, <1>3 DEF Untold
<1>5. /\ rows' \in [Filters -> Copies \cup {NotRead}]
      /\ kept' \in [query : Filters \cup {Nothing}, items : Copies]
      /\ stale' \in SUBSET Filters /\ behind' \in SUBSET (Filters \cup {"everything", "kept"})
      /\ RowsTold' /\ EverythingTold' /\ KeptTold'
  <2>1. CASE Refetch(run.awaiting)
    BY <1>2, <1>3, <1>4, <2>1, Refetching
  <2>2. CASE UNCHANGED <<cache, kept>>
    <3>1. UNCHANGED <<place, tags, rows, everything, kept, stale, behind>>
      BY <1>3, <2>2 DEF cache, server
    <3> QED
      BY <1>4, <3>1, ToldStays DEF TypeOK
  <2> QED
    BY <1>3, <2>1, <2>2
<1>6. /\ bar' \in Kinds \cup {Nothing} /\ selected' \in SUBSET Recordings
      /\ toast' \in {NoToast} \cup Undos \cup Retries
      /\ toast'.kind = "retry" /\ toast'.of = "tag" => toast'.tag \in Tags
  BY <1>1, <1>3, Reporting
<1>7. TypeOK'
  BY <1>3, <1>5, <1>6 DEF TypeOK, server, view
<1>8. RunsWellMade'
  BY <1>3, <1>6 DEF RunsWellMade, WellMade
<1>9. SoundRuns'
  <2>1. \A x \in runs' : ~x.sound
    BY <1>3 DEF SoundRuns
  <2> QED
    BY <2>1 DEF SoundRuns
<1> QED
  BY <1>5, <1>7, <1>8, <1>9

\* What is handed to a run is what its source holds.
LEMMA Given ==
  ASSUME LibraryAssumption, IInv, given # {}
  PROVE  /\ pool \in Copies /\ given \in SUBSET Recordings /\ given \subseteq DOMAIN pool
         /\ runs = {} /\ Source \notin stale \cup behind => \A r \in given : pool[r] = tags[r]
<1> USE DEF IInv
<1>1. given \subseteq DOMAIN pool
  BY DEF given
<1>2. CASE everything.query = filter
  <2>1. pool = everything.items /\ Source = "everything" /\ everything.query # Nothing
    BY <1>2 DEF pool, Source, TypeOK, LibraryAssumption, Nothing
  <2>2. pool \in Copies
    BY <2>1 DEF TypeOK
  <2>3. DOMAIN pool \in SUBSET Recordings
    BY <2>2, CopyFacts
  <2>4. runs = {} /\ Source \notin stale \cup behind => \A r \in given : pool[r] = tags[r]
    BY <1>1, <2>1 DEF EverythingTold, Untold
  <2> QED
    BY <1>1, <2>2, <2>3, <2>4
<1>3. CASE everything.query # filter /\ Read(filter)
  <2>1. pool = rows[filter] /\ Source = filter
    BY <1>3 DEF pool, Source, items
  <2>2. pool \in Copies
    BY <1>3, <2>1 DEF Read, TypeOK
  <2>3. DOMAIN pool \in SUBSET Recordings
    BY <2>2, CopyFacts
  <2>4. runs = {} /\ Source \notin stale \cup behind => \A r \in given : pool[r] = tags[r]
    BY <1>1, <1>3, <2>1 DEF RowsTold, Untold, TypeOK
  <2> QED
    BY <1>1, <2>2, <2>3, <2>4
<1>4. CASE everything.query # filter /\ ~Read(filter)
  <2>1. pool = kept.items /\ Source = "kept"
    BY <1>4 DEF pool, Source, items
  <2>2. pool \in Copies
    BY <2>1 DEF TypeOK
  <2>3. DOMAIN pool \in SUBSET Recordings
    BY <2>2, CopyFacts
  <2>4. runs = {} /\ Source \notin stale \cup behind => \A r \in given : pool[r] = tags[r]
    BY <1>1, <2>1 DEF KeptTold, Untold
  <2> QED
    BY <1>1, <2>2, <2>3, <2>4
<1> QED
  BY <1>2, <1>3, <1>4

\* A run begun with what it was given is made well, and everything else keeps.
LEMMA Beginning ==
  ASSUME LibraryAssumption, IInv, NEW run \in RunSet, WellMade(run), Begin(run),
         run.sound => runs = {} /\ (run.kind = "tag" => \A r \in run.flying \cup run.todo : run.copy[r] = tags[r]),
         UNCHANGED <<server, view, cache, everything, selected>>
  PROVE  IInv'
<1>1. /\ runs' = Disturbed(runs) \cup {run} /\ bar' = run.kind /\ started' = started + 1
      /\ toast' \in {NoToast, toast} /\ mishaps' = mishaps
      /\ UNCHANGED <<place, tags, rows, everything, kept, stale, behind, filter, pages, selected>>
  BY DEF Begin, server, view, cache
<1>2. /\ runs' \in SUBSET RunSet /\ \A x \in runs' : WellMade(x)
      /\ RowsTold' /\ EverythingTold' /\ KeptTold' /\ SoundRuns'
  BY <1>1, Starting
<1>3. run.kind \in Kinds
  BY DEF RunSet
<1>4. TypeOK'
  BY <1>1, <1>2, <1>3 DEF IInv, TypeOK
<1>5. RunsWellMade'
  BY <1>1, <1>2 DEF IInv, RunsWellMade, WellMade, NoToast
<1> QED
  BY <1>2, <1>4, <1>5 DEF IInv

LEMMA Pressing ==
  ASSUME LibraryAssumption, IInv, NEW kind \in Kinds, NEW tag \in Tags \cup {Nothing},
         kind = "tag" => tag \in Tags, Press(kind, tag)
  PROVE  IInv'
<1>1. UNCHANGED <<server, view, cache, everything>>
  BY DEF Press
<1>2. CASE given # {}
  <2> DEFINE copy == [r \in given |-> IF kind = "tag" THEN pool[r] ELSE {}]
             run == Run(kind, tag, copy, Source)
  <2>1. Begin(run) /\ UNCHANGED selected
    BY <1>2 DEF Press
  <2>2. /\ pool \in Copies /\ given \in SUBSET Recordings /\ given \subseteq DOMAIN pool
        /\ runs = {} /\ Source \notin stale \cup behind => \A r \in given : pool[r] = tags[r]
    BY <1>2, Given
  <2>3. copy \in Copies /\ DOMAIN copy = given
    <3>1. \A r \in given : pool[r] \in SUBSET Tags
      BY <2>2, CopyFacts
    <3>2. copy \in [given -> SUBSET Tags]
      BY <3>1
    <3> QED
      BY <2>2, <3>2 DEF Copies
  <2>4. kind = "tag" => \A r \in given : copy[r] = pool[r]
    OBVIOUS
  <2> HIDE DEF copy
  <2>5. /\ run \in RunSet /\ WellMade(run) /\ run.kind = kind /\ run.copy = copy
        /\ run.sound = (Source \notin stale \cup behind \cup {"toast"} /\ runs = {})
        /\ run.flying \cup run.todo \subseteq DOMAIN copy
    BY <2>3, NewRun DEF IInv
  <2> HIDE DEF run
  <2>6. run.sound => /\ runs = {}
                     /\ run.kind = "tag" => \A r \in run.flying \cup run.todo : run.copy[r] = tags[r]
    BY <2>2, <2>3, <2>4, <2>5
  <2> QED
    BY <1>1, <2>1, <2>5, <2>6, Beginning
<1>3. CASE given = {}
  <2>1. selected' = {} /\ toast' = NoToast /\ UNCHANGED <<runs, bar, counts>>
    BY <1>3 DEF Press
  <2>2. UNCHANGED <<place, tags, rows, everything, kept, stale, behind, filter, pages, started, mishaps>>
    BY <1>1, <2>1 DEF server, view, cache, counts
  <2>3. TypeOK'
    BY <2>1, <2>2 DEF IInv, TypeOK
  <2>4. RunsWellMade' /\ SoundRuns'
    BY <2>1, <2>2, RunsStay DEF IInv, NoToast
  <2>5. RowsTold' /\ EverythingTold' /\ KeptTold'
    BY <2>1, <2>2, ToldStays DEF IInv, TypeOK
  <2> QED
    BY <2>3, <2>4, <2>5 DEF IInv
<1> QED
  BY <1>2, <1>3

\* An Undo and a Retry are handed what a toast holds, and are never sound.
LEMMA Repeating ==
  ASSUME LibraryAssumption, IInv, Undo \/ Retry
  PROVE  IInv'
<1> USE DEF IInv
<1>1. CASE Undo
  <2> DEFINE copy == [r \in toast.of |-> {}]
             run == Run("restore", Nothing, copy, "toast")
  <2>1. /\ toast.kind = "undo" /\ runs' = Disturbed(runs) \cup {run} /\ bar' = "restore"
        /\ toast' = NoToast /\ started' = started + 1 /\ mishaps' = mishaps
        /\ UNCHANGED <<place, tags, rows, everything, kept, stale, behind, filter, pages, selected>>
    BY <1>1 DEF Undo, server, view, cache
  <2>2. toast.of \in SUBSET Recordings
    BY <2>1 DEF TypeOK, NoToast, Undos, Retries
  <2>3. copy \in [toast.of -> SUBSET Tags]
    OBVIOUS
  <2>4. copy \in Copies
    BY <2>2, <2>3 DEF Copies
  <2> HIDE DEF copy
  <2>5. run \in RunSet /\ WellMade(run) /\ ~run.sound
    BY <2>4, NewRun DEF Kinds
  <2> HIDE DEF run
  <2>6. /\ runs' \in SUBSET RunSet /\ \A x \in runs' : WellMade(x)
        /\ RowsTold' /\ EverythingTold' /\ KeptTold' /\ SoundRuns'
    BY <2>1, <2>5, Starting
  <2>7. TypeOK'
    BY <2>1, <2>6 DEF TypeOK, Kinds
  <2>8. RunsWellMade'
    BY <2>1, <2>6 DEF RunsWellMade, WellMade, NoToast
  <2> QED
    BY <2>6, <2>7, <2>8
<1>2. CASE Retry
  <2> DEFINE run == Run(toast.of, toast.tag, toast.copy, "toast")
  <2>1. toast.kind = "retry" /\ Begin(run) /\ UNCHANGED <<server, view, cache, everything, selected>>
    BY <1>2 DEF Retry
  <2>2. /\ toast.of \in Kinds /\ toast.tag \in Tags \cup {Nothing} /\ toast.copy \in Copies
        /\ toast.of = "tag" => toast.tag \in Tags
    BY <2>1 DEF TypeOK, RunsWellMade, NoToast, Undos, Retries
  <2>3. run \in RunSet /\ WellMade(run) /\ ~run.sound
    BY <2>2, NewRun
  <2> HIDE DEF run
  <2> QED
    BY <2>1, <2>3, Beginning
<1> QED
  BY <1>1, <1>2

LEMMA DrawnWithin ==
  ASSUME LibraryAssumption, TypeOK
  PROVE  order \in SUBSET Recordings /\ drawn \in SUBSET Recordings
<1>1. order \in SUBSET Recordings
  <2>1. CASE Read(filter)
    <3>1. items = rows[filter] /\ rows[filter] \in Copies
      BY <2>1 DEF items, Read, TypeOK
    <3> QED
      BY <3>1, CopyFacts DEF order
  <2>2. CASE ~Read(filter)
    <3>1. items = kept.items /\ kept.items \in Copies
      BY <2>2 DEF items, TypeOK
    <3> QED
      BY <3>1, CopyFacts DEF order
  <2> QED
    BY <2>1, <2>2
<1>2. asked # Nothing => Listed(asked) \in SUBSET Recordings
  <2>1. asked \in Filters \cup {Nothing}
    BY DEF asked, TypeOK
  <2> QED
    BY <2>1 DEF Listed, LibraryAssumption
<1> QED
  BY <1>1, <1>2 DEF drawn

\* Ticking and dismissing touch neither the rows nor a run.
LEMMA OnThePage ==
  ASSUME LibraryAssumption, IInv, Dismiss \/ Tick \/ Extend \/ SelectAll
  PROVE  IInv'
<1> USE DEF IInv
<1>1. UNCHANGED <<place, tags, rows, everything, kept, stale, behind, runs, pages, bar, started, mishaps>>
  BY DEF Dismiss, Tick, Extend, SelectAll, server, view, cache, counts
<1>2. toast' \in {toast, NoToast}
  BY DEF Dismiss, Tick, Extend, SelectAll
<1>3. filter' \in Filters
  BY DEF Dismiss, Tick, Extend, SelectAll, view, TypeOK
<1>4. selected' \in SUBSET Recordings
  <2>1. order \in SUBSET Recordings /\ drawn \in SUBSET Recordings /\ selected \in SUBSET Recordings
    BY DrawnWithin DEF TypeOK
  <2>2. CASE Dismiss
    BY <2>1, <2>2 DEF Dismiss
  <2>3. CASE Tick
    BY <2>1, <2>3 DEF Tick
  <2>4. CASE Extend
    BY <2>1, <2>4 DEF Extend
  <2>5. CASE SelectAll
    BY <2>1, <2>5 DEF SelectAll
  <2> QED
    BY <2>2, <2>3, <2>4, <2>5
<1>5. TypeOK'
  BY <1>1, <1>2, <1>3, <1>4 DEF TypeOK
<1>6. RunsWellMade' /\ SoundRuns'
  BY <1>1, <1>2, RunsStay DEF NoToast
<1>7. RowsTold' /\ EverythingTold' /\ KeptTold'
  BY <1>1, ToldStays DEF TypeOK
<1> QED
  BY <1>5, <1>6, <1>7

\* The rows kept on screen are those of the query that left it, as well told as they were there.
LEMMA Filtering ==
  ASSUME LibraryAssumption, IInv, SetFilter
  PROVE  IInv'
<1> USE DEF IInv
<1>1. /\ UNCHANGED <<place, tags, rows, everything, stale, runs, pages, selected, bar, toast,
                   started, mishaps>>
      /\ filter' \in Filters /\ filter \in Filters
      /\ \/ /\ Read(filter) /\ kept' = [query |-> filter, items |-> rows[filter]]
            /\ behind' = IF filter \in stale \cup behind
                         THEN behind \cup {"kept"} ELSE behind \ {"kept"}
         \/ UNCHANGED <<kept, behind>>
  BY DEF SetFilter, server, counts, TypeOK
<1>2. CASE UNCHANGED <<kept, behind>>
  <2>1. TypeOK'
    BY <1>1, <1>2 DEF TypeOK
  <2>2. RunsWellMade' /\ SoundRuns'
    BY <1>1, RunsStay
  <2>3. RowsTold' /\ EverythingTold' /\ KeptTold'
    BY <1>1, <1>2, ToldStays
  <2> QED
    BY <2>1, <2>2, <2>3
<1>3. CASE /\ Read(filter) /\ kept' = [query |-> filter, items |-> rows[filter]]
           /\ behind' = IF filter \in stale \cup behind
                        THEN behind \cup {"kept"} ELSE behind \ {"kept"}
  <2>1. rows[filter] \in Copies
    BY <1>1, <1>3 DEF TypeOK, Read
  <2>2. behind' \in SUBSET (Filters \cup {"everything", "kept"})
    BY <1>3 DEF TypeOK
  <2>3. TypeOK'
    BY <1>1, <1>3, <2>1, <2>2 DEF TypeOK
  <2>4. RunsWellMade' /\ SoundRuns'
    BY <1>1, RunsStay
  <2>5. \A x \in Filters \cup {"everything"} : x \notin behind' => x \notin behind
    BY <1>3 DEF LibraryAssumption
  <2>6. RowsTold' /\ EverythingTold'
    BY <1>1, <2>5 DEF RowsTold, EverythingTold, Read
  <2>7. KeptTold'
    <3> SUFFICES ASSUME "kept" \notin behind'
                 PROVE  KeptTold'
      BY DEF KeptTold
    <3>1. filter \in Filters \ (stale \cup behind)
      BY <1>1, <1>3
    <3>2. \A r \in DOMAIN rows[filter] : rows[filter][r] = tags[r] \/ Untold(runs, r)
      BY <1>3, <3>1 DEF RowsTold
    <3> QED
      BY <1>1, <1>3, <3>2 DEF KeptTold
  <2> QED
    BY <2>3, <2>4, <2>6, <2>7
<1> QED
  BY <1>1, <1>2, <1>3

\* Everything fetched while nothing runs is as the instance has it.
LEMMA Selecting ==
  ASSUME LibraryAssumption, IInv, SelectEverything
  PROVE  IInv'
<1> USE DEF IInv
<1> DEFINE w == Window(filter, 0, Cardinality(Listed(filter)))
<1>1. /\ everything' = [query |-> filter, items |-> w] /\ selected' = Listed(filter)
      /\ behind' = IF runs = {} THEN behind \ {"everything"} ELSE behind \cup {"everything"}
      /\ UNCHANGED <<place, tags, filter, pages, kept, rows, stale, runs, bar, toast, started, mishaps>>
  BY DEF SelectEverything, server, view, counts
<1>2. w \in Copies /\ \A r \in DOMAIN w : w[r] = tags[r]
  BY Reading DEF TypeOK
<1> HIDE DEF w
<1>3. /\ everything' \in [query : Filters, items : Copies] /\ selected' \in SUBSET Recordings
      /\ behind' \in SUBSET (Filters \cup {"everything", "kept"})
  BY <1>1, <1>2 DEF TypeOK, Listed, LibraryAssumption
<1>4. TypeOK'
  BY <1>1, <1>3 DEF TypeOK
<1>5. RunsWellMade' /\ SoundRuns'
  BY <1>1, RunsStay
<1>6. RowsTold'
  <2>1. \A q \in Filters : q \notin behind' => q \notin behind
    BY <1>1 DEF LibraryAssumption
  <2> QED
    BY <1>1, <2>1 DEF RowsTold, Read
<1>7. EverythingTold'
  BY <1>1, <1>2 DEF EverythingTold
<1>8. KeptTold'
  BY <1>1 DEF KeptTold
<1> QED
  BY <1>4, <1>5, <1>6, <1>7, <1>8

\* The rows a page is joined to keep what they told.
LEMMA ReadingMore ==
  ASSUME LibraryAssumption, IInv, ReadRows \/ FetchMore
  PROVE  IInv'
<1> USE DEF IInv
<1>0. filter \in Filters /\ runs' = runs /\ toast' = toast /\ tags' = tags
  BY DEF TypeOK, ReadRows, FetchMore, server
<1>1. RunsWellMade' /\ SoundRuns'
  BY <1>0, RunsStay
<1>2. /\ UNCHANGED <<server, filter, everything, selected, runs, bar, toast, counts>>
      /\ pages' \in [Filters -> Nat]
  <2>1. CASE ReadRows
    BY <2>1 DEF ReadRows, TypeOK
  <2>2. CASE FetchMore
    <3>1. pages' = [pages EXCEPT ![filter] = @ + 1]
      BY <2>2 DEF FetchMore
    <3> QED
      BY <1>0, <2>2, <3>1 DEF FetchMore, TypeOK
  <2> QED
    BY <2>1, <2>2
<1>3. /\ rows' \in [Filters -> Copies \cup {NotRead}]
      /\ kept' \in [query : Filters \cup {Nothing}, items : Copies]
      /\ stale' \in SUBSET Filters /\ behind' \in SUBSET (Filters \cup {"everything", "kept"})
      /\ RowsTold' /\ EverythingTold' /\ KeptTold'
  <2>1. CASE ReadRows
    BY <1>0, <2>1, Refetching DEF ReadRows
  <2>2. CASE FetchMore /\ filter \in stale
    <3> DEFINE w == Window(filter, 0, (pages[filter] + 1) * PageSize)
    <3>1. /\ rows' = [rows EXCEPT ![filter] = w] /\ stale' = stale \ {filter}
          /\ behind' = behind \ {filter}
          /\ UNCHANGED <<place, tags, everything, kept>>
      BY <2>2 DEF FetchMore, server
    <3>2. w \in Copies /\ \A r \in DOMAIN w : place[r] = "here" /\ w[r] = tags[r]
      BY <1>0, Reading
    <3> HIDE DEF w
    <3>3. RowsTold'
      <4> SUFFICES ASSUME NEW p \in Filters \ (stale \cup behind)', Read(p)', NEW s \in DOMAIN (rows')[p]
                   PROVE  (place'[s] = "here" /\ (rows')[p][s] = tags'[s]) \/ Untold(runs', s)
        BY DEF RowsTold
      <4>1. CASE p = filter
        BY <3>1, <3>2, <4>1 DEF TypeOK
      <4>2. CASE p # filter
        <5>1. (rows')[p] = rows[p] /\ p \notin stale \cup behind /\ Read(p)
          BY <3>1, <4>2 DEF TypeOK, Read
        <5> QED
          BY <1>0, <3>1, <5>1 DEF RowsTold
      <4> QED
        BY <4>1, <4>2
    <3>4. EverythingTold'
      <4>1. "everything" \notin behind' => "everything" \notin behind
        BY <1>0, <3>1 DEF LibraryAssumption
      <4> QED
        BY <1>0, <3>1, <4>1 DEF EverythingTold
    <3>5. /\ rows' \in [Filters -> Copies \cup {NotRead}]
          /\ stale' \in SUBSET Filters /\ behind' \in SUBSET (Filters \cup {"everything", "kept"})
      BY <3>1, <3>2 DEF TypeOK
    <3>6. KeptTold'
      <4>1. "kept" \notin behind' => "kept" \notin behind
        BY <1>0, <3>1 DEF LibraryAssumption
      <4> QED
        BY <1>0, <3>1, <4>1 DEF KeptTold
    <3> QED
      BY <3>1, <3>3, <3>4, <3>5, <3>6 DEF TypeOK
  <2>3. CASE FetchMore /\ filter \notin stale
    <3> DEFINE next == Window(filter, pages[filter] * PageSize, PageSize)
               held == rows[filter]
               both == Joined(next, held)
    <3>1. /\ rows' = [rows EXCEPT ![filter] = both] /\ hasMore
          /\ UNCHANGED <<stale, behind, place, tags, everything, kept>>
      BY <1>0, <2>3 DEF FetchMore, server, TypeOK
    <3>2. next \in Copies /\ \A r \in DOMAIN next : place[r] = "here" /\ next[r] = tags[r]
      BY <1>0, Reading
    <3>3. held \in Copies /\ Read(filter)
      BY <1>0, <3>1 DEF hasMore, Read, TypeOK
    <3> HIDE DEF next
    <3>4. /\ DOMAIN both = DOMAIN next \cup DOMAIN held
          /\ \A r \in DOMAIN both : both[r] = IF r \in DOMAIN next THEN next[r] ELSE held[r]
      BY DEF Joined
    <3>5. both \in Copies
      <4>1. /\ DOMAIN next \in SUBSET Recordings /\ \A r \in DOMAIN next : next[r] \in SUBSET Tags
            /\ DOMAIN held \in SUBSET Recordings /\ \A r \in DOMAIN held : held[r] \in SUBSET Tags
        BY <3>2, <3>3, CopyFacts
      <4>2. Joined(next, held) \in [DOMAIN next \cup DOMAIN held -> SUBSET Tags]
        BY <4>1 DEF Joined
      <4> QED
        BY <4>1, <4>2 DEF Copies
    <3> HIDE DEF both, held
    <3>6. RowsTold'
      <4> SUFFICES ASSUME NEW p \in Filters \ (stale \cup behind)', Read(p)', NEW s \in DOMAIN (rows')[p]
                   PROVE  (place'[s] = "here" /\ (rows')[p][s] = tags'[s]) \/ Untold(runs', s)
        BY DEF RowsTold
      <4>1. p \notin stale \cup behind
        BY <3>1
      <4>2. CASE p # filter
        <5>1. (rows')[p] = rows[p] /\ Read(p)
          BY <3>1, <4>2 DEF TypeOK, Read
        <5> QED
          BY <1>0, <3>1, <4>1, <5>1 DEF RowsTold
      <4>3. CASE p = filter
        <5>1. (rows')[p] = both /\ s \in DOMAIN both
          BY <1>0, <3>1, <4>3 DEF TypeOK
        <5>2. CASE s \in DOMAIN next
          BY <3>1, <3>2, <3>4, <5>1, <5>2
        <5>3. CASE s \notin DOMAIN next
          <6>1. s \in DOMAIN rows[p] /\ both[s] = rows[p][s]
            BY <3>4, <4>3, <5>1, <5>3 DEF held
          <6> QED
            BY <1>0, <3>1, <3>3, <4>1, <4>3, <5>1, <6>1 DEF RowsTold
        <5> QED
          BY <5>2, <5>3
      <4> QED
        BY <4>2, <4>3
    <3>7. EverythingTold' /\ KeptTold'
      BY <1>0, <3>1 DEF EverythingTold, KeptTold
    <3> QED
      BY <1>0, <3>1, <3>5, <3>6, <3>7 DEF TypeOK
  <2> QED
    BY <2>1, <2>2, <2>3
<1>4. TypeOK'
  BY <1>2, <1>3 DEF TypeOK, server, counts
<1> QED
  BY <1>1, <1>3, <1>4

\* Somebody else's change overtakes every copy, and no run is sound after it.
LEMMA SomebodyElse ==
  ASSUME LibraryAssumption, IInv, Elsewhere
  PROVE  IInv'
<1> USE DEF IInv
<1>1. /\ mishaps' = mishaps + 1 /\ behind' = Filters \cup {"everything", "kept"} /\ runs' = Disturbed(runs)
      /\ UNCHANGED <<filter, pages, kept, rows, stale, everything, selected, bar, toast, started>>
  BY DEF Elsewhere, view
<1>2. /\ Disturbed(runs) \in SUBSET RunSet
      /\ \A x \in Disturbed(runs) : WellMade(x) /\ ~x.sound
  BY DisturbedFacts DEF TypeOK, RunsWellMade
<1>3. place' \in [Recordings -> {"here", "away", "trash"}] /\ tags' \in [Recordings -> SUBSET Tags]
  <2>1. CASE \E r \in Recordings, tag \in Tags : tags' = [tags EXCEPT ![r] = @ \cup {tag}] /\ UNCHANGED place
    BY <2>1 DEF TypeOK
  <2>2. CASE \E r \in Recordings : /\ place' = [place EXCEPT ![r] = IF @ = "here" THEN "trash" ELSE "here"]
                                   /\ UNCHANGED tags
    BY <2>2 DEF TypeOK
  <2> QED
    BY <2>1, <2>2 DEF Elsewhere
<1>4. TypeOK'
  BY <1>1, <1>2, <1>3 DEF TypeOK
<1>5. RunsWellMade' /\ SoundRuns'
  BY <1>1, <1>2 DEF RunsWellMade, WellMade, SoundRuns
<1>6. RowsTold' /\ EverythingTold' /\ KeptTold'
  BY <1>1 DEF RowsTold, EverythingTold, KeptTold
<1> QED
  BY <1>4, <1>5, <1>6

-----------------------------------------------------------------------------
(* The theorems *)

LEMMA InitInv ==
  ASSUME LibraryAssumption, Init
  PROVE  IInv
<1>1. TypeOK
  BY NoneKeptFacts DEF Init, TypeOK, LibraryAssumption
<1>2. RunsWellMade /\ SoundRuns /\ EverythingTold /\ KeptTold
  BY NoneKeptFacts DEF Init, KeptTold, RunsWellMade, SoundRuns, EverythingTold, NoToast
<1>3. RowsTold
  BY DEF Init, RowsTold, Read
<1> QED
  BY <1>1, <1>2, <1>3 DEF IInv

LEMMA StepInv ==
  ASSUME LibraryAssumption, IInv, [Next]_vars
  PROVE  IInv'
<1>1. CASE AddTag \/ Move \/ Trash
  <2>1. PICK kind \in Kinds, tag \in Tags \cup {Nothing} :
               Press(kind, tag) /\ (kind = "tag" => tag \in Tags)
    BY <1>1 DEF AddTag, Move, Trash, Kinds
  <2> QED
    BY <2>1, Pressing
<1>2. CASE Undo \/ Retry
  BY <1>2, Repeating
<1>3. CASE Dismiss \/ Tick \/ Extend \/ SelectAll \/ SetFilter
  BY <1>3, OnThePage, Filtering
<1>4. CASE SelectEverything
  BY <1>4, Selecting
<1>5. CASE ReadRows \/ FetchMore
  BY <1>5, ReadingMore
<1>6. CASE Elsewhere
  BY <1>6, SomebodyElse
<1>7. CASE Progress
  BY <1>7, RunAnswers, Settling DEF Progress
<1>8. CASE UNCHANGED vars
  <2>1. UNCHANGED <<place, tags, filter, pages, kept, rows, stale, behind, everything, selected, runs,
                    bar, toast, started, mishaps>>
    BY <1>8 DEF vars, server, view, cache, counts
  <2>2. TypeOK'
    BY <2>1 DEF IInv, TypeOK
  <2>3. RunsWellMade' /\ SoundRuns'
    BY <2>1, RunsStay DEF IInv
  <2>4. RowsTold' /\ EverythingTold' /\ KeptTold'
    BY <2>1, ToldStays DEF IInv
  <2> QED
    BY <2>2, <2>3, <2>4 DEF IInv
<1> QED
  BY <1>1, <1>2, <1>3, <1>4, <1>5, <1>6, <1>7, <1>8 DEF Next

\* What is cached is as the instance has it, or marked, or overtaken, or still to be told of by a run;
\* and a run that is sound is alone and was handed what the instance holds.
THEOREM LibraryInvariant == Spec => []IInv
<1>1. Init => IInv
  BY InitInv, LibraryAssumption
<1>2. IInv /\ [Next]_vars => IInv'
  BY StepInv, LibraryAssumption
<1> QED
  BY <1>1, <1>2, PTL DEF Spec

\* When no run is under way, rows nobody has marked or overtaken are as the instance has them: what a
\* run changed is untold only until the run has told the whole cache (use-bulk.ts run, invalidate.ts).
THEOREM RowsStayCurrent == Spec => []RowsAreCurrent
<1>1. IInv => RowsAreCurrent
  BY DEF IInv, RowsTold, RowsAreCurrent, Untold
<1> QED
  BY <1>1, LibraryInvariant, PTL

\* Only a run that is not sound takes a tag off (use-bulk.ts addTag): a sound one is alone and sends
\* what the instance holds, and a tag more.
THEOREM TagsStripForACause == Spec => StripsForACause
<1> DEFINE Caused == \A r \in Recordings : tags[r] \subseteq tags'[r] \/
                        \E run \in runs : r \in run.flying /\ run.kind = "tag" /\ ~run.sound
<1>1. ASSUME IInv, [Next]_vars
      PROVE  Caused
  <2> USE DEF IInv
  <2>1. CASE tags' = tags
    BY <2>1
  <2>2. CASE Elsewhere
    <3>1. CASE UNCHANGED tags
      BY <3>1
    <3>2. CASE \E r \in Recordings, tag \in Tags : tags' = [tags EXCEPT ![r] = @ \cup {tag}]
      BY <1>1, <3>2 DEF TypeOK
    <3> QED
      BY <2>2, <3>1, <3>2 DEF Elsewhere
  <2>3. ASSUME NEW run \in runs, NEW r \in run.flying, Carried(run, r)
        PROVE  Caused
    <3>1. run \in RunSet /\ WellMade(run) /\ r \in Recordings
      BY <1>1, <2>3 DEF TypeOK, RunsWellMade, RunSet
    <3>2. \A s \in Recordings \ {r} : tags'[s] = tags[s]
      BY <1>1, <2>3, <3>1, CarriedFacts
    <3>3. \/ tags' = tags
          \/ run.kind = "tag" /\ tags'[r] = run.copy[r] \cup {run.tag}
      BY <1>1, <2>3, <3>1, CarriedFacts
    <3>4. run.sound /\ run.kind = "tag" => run.copy[r] = tags[r]
      BY <1>1, <2>3 DEF SoundRuns
    <3> QED
      BY <2>3, <3>1, <3>2, <3>3, <3>4
  <2>4. CASE Progress
    <3>1. PICK run \in runs : \/ \E r \in run.flying : Answered(run, r) \/ Refused(run, r) \/ Lost(run, r)
                              \/ Settle(run) \/ SettleFails(run)
      BY <2>4 DEF Progress
    <3>2. \/ \E r \in run.flying : Carried(run, r)
          \/ tags' = tags
      BY <3>1 DEF Answered, Refused, Lost, Settle, SettleFails, server
    <3> QED
      BY <2>1, <2>3, <3>2
  <2>5. AddTag \/ Move \/ Trash => tags' = tags
    BY DEF AddTag, Move, Trash, Press, server
  <2>6. Undo \/ Retry \/ Dismiss \/ Tick \/ Extend \/ SelectAll \/ SelectEverything \/ SetFilter
          => tags' = tags
    BY DEF Undo, Retry, Dismiss, Tick, Extend, SelectAll, SelectEverything, SetFilter, server
  <2>7. ReadRows \/ FetchMore => tags' = tags
    BY DEF ReadRows, FetchMore, server
  <2>8. UNCHANGED vars => tags' = tags
    BY DEF vars, server
  <2>9. tags' = tags \/ Elsewhere \/ Progress
    BY <1>1, <2>5, <2>6, <2>7, <2>8 DEF Next
  <2> QED
    BY <2>1, <2>2, <2>4, <2>9
<1>2. IInv /\ [Next]_vars => [Caused]_vars
  BY <1>1
<1> QED
  BY <1>2, LibraryInvariant, PTL DEF Spec, StripsForACause
==============================================================================
