---------------------------- MODULE ScreensProofs ----------------------------
(***************************************************************************)
(* What is proved of the screens that MCScreens puts side by side, each    *)
(* for any values of its constants.                                        *)
(*                                                                         *)
(*   - the tree of categories stays a tree (Categories);                   *)
(*   - the heart, the fields and the tags of a recording settle (Edits);   *)
(*   - what a write reaches is all that it changed (Staleness), and what   *)
(*     the cache calls fresh has seen it (Freshness);                      *)
(*   - a form says what was refused (Forms), a page of results that        *)
(*     nothing matched (Search) and a recording's page how its             *)
(*     transcription stands (TranscriptionCard) only where it is so;       *)
(*   - menus, dialogs and a listbox give the page its scrolling back, and  *)
(*     the keyboard to where it was, as they close (Overlays).             *)
(*                                                                         *)
(* A step belongs to one scene and leaves the others' alone, so each part  *)
(* is an invariant of its own scene (`...Hold`), inductive by itself.  A   *)
(* category is above another when it is in every set of categories that    *)
(* holds the other and is closed under parents; so to show that one is not *)
(* above another it is enough to find such a set without it, and every     *)
(* lemma of the first part finds one.                                      *)
(***************************************************************************)
EXTENDS MCScreens, SequenceTheorems, FiniteSetTheorems, WellFoundedInduction, TLAPS

-----------------------------------------------------------------------------
(* What is above what *)

\* A category is above itself (_ancestors starts with the category it is given).
LEMMA AboveItself ==
    ASSUME NEW P, NEW c \in DOMAIN P
    PROVE  c \in Above(P, c)
BY DEF Above

\* What is above a category is closed under parents: the walk ends at the root.
LEMMA AboveIsClosed ==
    ASSUME NEW P, TreeOf(P), NEW c \in DOMAIN P
    PROVE  Closed(P, Above(P, c))
<1> SUFFICES ASSUME NEW d \in Above(P, c), P[d] # Root
             PROVE  P[d] \in Above(P, c)
    BY DEF Closed
<1>1. d \in DOMAIN P /\ P[d] \in DOMAIN P
    BY DEF Above, TreeOf
<1>2. ASSUME NEW U \in SUBSET DOMAIN P, c \in U, Closed(P, U)
      PROVE  P[d] \in U
    <2>1. d \in U
        BY <1>2 DEF Above
    <2> QED
        BY <2>1, <1>2 DEF Closed
<1> QED
    BY <1>1, <1>2 DEF Above

\* A closed set that holds a category holds all that is above it.
LEMMA ClosedHoldsAbove ==
    ASSUME NEW P, NEW c, NEW U \in SUBSET DOMAIN P, c \in U, Closed(P, U)
    PROVE  Above(P, c) \subseteq U
BY DEF Above

\* Above is transitive.
LEMMA AboveAbove ==
    ASSUME NEW P, TreeOf(P), NEW c \in DOMAIN P, NEW d \in Above(P, c)
    PROVE  Above(P, d) \subseteq Above(P, c)
<1>1. Above(P, c) \in SUBSET DOMAIN P
    BY DEF Above
<1> QED
    BY <1>1, AboveIsClosed, ClosedHoldsAbove

\* A parent is above its child, and so is all that is above the parent.
LEMMA ParentIsAbove ==
    ASSUME NEW P, TreeOf(P), NEW c \in DOMAIN P, P[c] # Root
    PROVE  P[c] \in DOMAIN P /\ Above(P, P[c]) \subseteq Above(P, c)
<1>1. P[c] \in DOMAIN P
    BY DEF TreeOf
<1>2. P[c] \in Above(P, c)
    BY AboveItself, AboveIsClosed DEF Closed
<1> QED
    BY <1>1, <1>2, AboveAbove

-----------------------------------------------------------------------------
(* What the calls do to a tree *)

\* A tree with a category more, under the root or another, is a tree (create_category).
LEMMA Planted ==
    ASSUME NEW P, TreeOf(P), NoCycle(P), Root \notin DOMAIN P,
           NEW i, i \notin DOMAIN P, i # Root, NEW p \in DOMAIN P \cup {Root}, NEW Q,
           Q = [d \in DOMAIN P \cup {i} |-> IF d = i THEN p ELSE P[d]]
    PROVE  TreeOf(Q) /\ NoCycle(Q)
<1>1. TreeOf(Q)
    BY DEF TreeOf
<1>2. ASSUME NEW c \in DOMAIN Q, Q[c] # Root
      PROVE  c \notin Above(Q, Q[c])
    <2>1. Q[c] \in DOMAIN P /\ (c # i => c \in DOMAIN P /\ Q[c] = P[c])
        BY <1>2 DEF TreeOf
    <2> DEFINE U == Above(P, Q[c])
    <2>2. U \in SUBSET DOMAIN Q /\ Q[c] \in U
        BY <2>1, AboveItself DEF Above
    <2>3. U \subseteq DOMAIN P /\ i \notin U
        BY DEF Above
    <2>4. Closed(Q, U)
        <3>1. Closed(P, U)
            BY <2>1, AboveIsClosed
        <3> QED
            BY <3>1, <2>3 DEF Closed
    <2>5. c \notin U
        BY <2>1, <2>3, <1>2 DEF NoCycle
    <2> QED
        BY <2>1, <2>2, <2>4, <2>5, ClosedHoldsAbove
<1> QED
    BY <1>1, <1>2 DEF NoCycle

\* A category put under one that it is not above leaves a tree (move_category).
LEMMA Moved ==
    ASSUME NEW P, TreeOf(P), NoCycle(P), Root \notin DOMAIN P,
           NEW c \in DOMAIN P, NEW p \in DOMAIN P \cup {Root},
           p # Root => c \notin Above(P, p),
           NEW Q, Q = [P EXCEPT ![c] = p]
    PROVE  TreeOf(Q) /\ NoCycle(Q)
<1>1. TreeOf(Q) /\ DOMAIN Q = DOMAIN P
    BY DEF TreeOf
<1> DEFINE A == IF p = Root THEN {} ELSE Above(P, p)
<1>2. /\ A \in SUBSET DOMAIN P /\ c \notin A /\ Closed(P, A) /\ p \in A \cup {Root}
    BY AboveItself, AboveIsClosed DEF Above, Closed
<1>3. ASSUME NEW d \in DOMAIN Q, Q[d] # Root
      PROVE  d \notin Above(Q, Q[d])
    <2>1. CASE d = c
        <3>1. Closed(Q, A)
            BY <1>2, <1>1 DEF Closed
        <3> QED
            BY <3>1, <1>1, <1>2, <1>3, <2>1, ClosedHoldsAbove
    <2>2. CASE d # c
        <3>1. Q[d] = P[d] /\ P[d] \in DOMAIN P
            BY <1>1, <1>3, <2>2 DEF TreeOf
        <3> DEFINE B == Above(P, P[d])
        <3>2. B \in SUBSET DOMAIN P /\ P[d] \in B /\ Closed(P, B) /\ d \notin B
            BY <3>1, <1>1, <1>3, AboveItself, AboveIsClosed DEF Above, NoCycle
        <3>3. CASE c \notin B
            <4>1. Closed(Q, B)
                BY <3>2, <3>3, <1>1 DEF Closed
            <4>2. B \in SUBSET DOMAIN Q
                BY <3>2, <1>1
            <4>3. Above(Q, P[d]) \subseteq B
                <5> HIDE DEF B
                <5> QED
                    BY <4>1, <4>2, <3>2, ClosedHoldsAbove
            <4> QED
                BY <4>3, <3>1, <3>2
        <3>4. CASE c \in B
            <4>1. Closed(Q, A \cup B)
                BY <3>2, <1>2, <1>1 DEF Closed
            <4>2. d \notin A
                <5> SUFFICES ASSUME d \in A PROVE FALSE
                    OBVIOUS
                <5>1. P[d] \in A
                    BY <1>2, <3>1, <1>1, <1>3 DEF Closed
                <5>2. B \subseteq A
                    BY <5>1, <1>2, ClosedHoldsAbove
                <5> QED
                    BY <5>2, <3>4, <1>2
            <4> DEFINE U == A \cup B
            <4>3. U \in SUBSET DOMAIN Q /\ P[d] \in U /\ Closed(Q, U)
                BY <4>1, <3>2, <1>1, <1>2
            <4>4. Above(Q, P[d]) \subseteq U
                <5>1. \A T \in SUBSET DOMAIN Q : P[d] \in T /\ Closed(Q, T) => Above(Q, P[d]) \subseteq T
                    BY Zenon DEF Above
                <5> HIDE DEF U
                <5> QED
                    BY <4>3, <5>1
            <4> QED
                BY <4>2, <4>4, <3>1, <3>2
        <3> QED
            BY <3>3, <3>4
    <2> QED
        BY <2>1, <2>2
<1> QED
    BY <1>1, <1>3 DEF NoCycle

\* What is left when a category and all inside it go is a tree (delete_category).
LEMMA Felled ==
    ASSUME NEW P, TreeOf(P), NoCycle(P), Root \notin DOMAIN P, NEW c \in DOMAIN P,
           NEW Q, Q = [d \in DOMAIN P \ Below(P, c) |-> P[d]]
    PROVE  TreeOf(Q) /\ NoCycle(Q)
<1>1. ASSUME NEW d \in DOMAIN Q, Q[d] # Root
      PROVE  Q[d] \in DOMAIN Q /\ d \notin Above(Q, Q[d])
    <2>1. d \in DOMAIN P /\ Q[d] = P[d] /\ c \notin Above(P, d)
        BY DEF Below
    <2>2. P[d] \in DOMAIN P /\ Above(P, P[d]) \subseteq Above(P, d)
        BY <1>1, <2>1, ParentIsAbove
    <2> DEFINE B == Above(P, P[d])
    <2>3. B \in SUBSET DOMAIN P /\ P[d] \in B /\ Closed(P, B) /\ d \notin B
        BY <1>1, <2>1, <2>2, AboveItself, AboveIsClosed DEF Above, NoCycle
    <2>4. ASSUME NEW x \in B PROVE x \in DOMAIN Q
        <3>1. Above(P, x) \subseteq B
            BY <2>2, AboveAbove
        <3>2. c \notin Above(P, x)
            BY <3>1, <2>1, <2>2
        <3> QED
            BY <3>2, <2>3 DEF Below
    <2>5. Closed(Q, B)
        BY <2>3, <2>4 DEF Closed
    <2> QED
        BY <2>1, <2>3, <2>4, <2>5, ClosedHoldsAbove
<1>2. TreeOf(Q)
    BY <1>1 DEF TreeOf
<1> QED
    BY <1>1, <1>2 DEF NoCycle

-----------------------------------------------------------------------------
(* The calls *)

LEMMA CreateKeeps ==
    ASSUME TreeInv, NEW n \in Names, NEW p, Create(n, p)
    PROVE  WellFormed(parent', name') /\ filed' \in [Recordings -> DOMAIN parent' \cup {Root}]
<1> USE CategoriesAssumption
<1>1. PICK i \in Ids :
         /\ Highest(i)
         /\ parent' = [d \in Existing \cup {i} |-> IF d = i THEN p ELSE parent[d]]
         /\ name' = [d \in Existing \cup {i} |-> IF d = i THEN n ELSE name[d]]
    BY DEF Create
<1>0. p \in Existing \cup {Root}
    BY DEF Create
<1>2. i \notin Existing /\ i # Root /\ Existing \subseteq Ids /\ Root \notin Existing
    <2>1. Existing \subseteq Ids
        BY DEF TreeInv, WellFormed, Existing
    <2>2. i \in Existing => i < i
        BY <1>1 DEF Highest
    <2>3. i \in Nat /\ \A n0 \in Nat : ~(n0 < n0)
        OBVIOUS
    <2>4. i \notin Existing
        BY <2>2, <2>3
    <2>5. i # Root /\ Root \notin Existing
        BY <2>1
    <2> QED
        BY <2>1, <2>4, <2>5
<1>3. TreeOf(parent') /\ NoCycle(parent')
    BY <1>1, <1>2, <1>0, Planted DEF TreeInv, WellFormed, Existing
<1>4. DOMAIN parent' = Existing \cup {i} /\ name' \in [DOMAIN parent' -> Names]
    BY <1>1 DEF TreeInv, WellFormed, Existing
<1>5. NamedApart(parent', name')
    BY <1>0, <1>1, <1>2, <1>4 DEF NamedApart, TreeInv, WellFormed, Existing, TreeOf, Create, NameFree, Siblings
<1> QED
    BY <1>2, <1>3, <1>4, <1>5 DEF WellFormed, TreeInv, Create, Existing

LEMMA SetNameKeeps ==
    ASSUME TreeInv, NEW c, NEW n \in Names, SetName(c, n)
    PROVE  WellFormed(parent', name') /\ filed' \in [Recordings -> DOMAIN parent' \cup {Root}]
<1>1. c \in Existing /\ parent' = parent /\ filed' = filed /\ name' = [name EXCEPT ![c] = n]
    BY DEF SetName
<1>2. name' \in [Existing -> Names]
    BY <1>1 DEF TreeInv, WellFormed, Existing
<1>3. NamedApart(parent, name')
    BY <1>1 DEF NamedApart, TreeInv, WellFormed, Existing, SetName, NameFree, Siblings
<1> QED
    BY <1>1, <1>2, <1>3 DEF WellFormed, TreeInv, Existing

LEMMA MoveKeeps ==
    ASSUME TreeInv, NEW c, NEW p, Move(c, p)
    PROVE  WellFormed(parent', name') /\ filed' \in [Recordings -> DOMAIN parent' \cup {Root}]
<1> USE CategoriesAssumption
<1>1. /\ c \in Existing /\ parent' = [parent EXCEPT ![c] = p]
      /\ name' = name /\ filed' = filed
    BY DEF Move
<1>2. p \in Existing \cup {Root} /\ (p # Root => c \notin Above(parent, p))
    BY DEF Move, MayMove
<1>3. Root \notin Existing
    BY DEF TreeInv, WellFormed, Existing
<1>4. TreeOf(parent') /\ NoCycle(parent')
    BY <1>1, <1>2, <1>3, Moved DEF TreeInv, WellFormed, Existing
<1>5. DOMAIN parent' = Existing
    BY <1>1 DEF Existing
<1>6. NamedApart(parent', name')
    BY <1>1, <1>5 DEF NamedApart, TreeInv, WellFormed, Existing, Move, NameFree, Siblings, TreeOf
<1> QED
    BY <1>1, <1>4, <1>5, <1>6 DEF WellFormed, TreeInv, Existing

LEMMA DestroyKeeps ==
    ASSUME TreeInv, NEW c, Destroy(c)
    PROVE  WellFormed(parent', name') /\ filed' \in [Recordings -> DOMAIN parent' \cup {Root}]
<1> USE CategoriesAssumption
<1> DEFINE left == Existing \ Below(parent, c)
<1>1. /\ c \in Existing /\ parent' = [d \in left |-> parent[d]]
      /\ name' = [d \in left |-> name[d]]
      /\ filed' = [r \in Recordings |-> IF filed[r] \in left THEN filed[r] ELSE Root]
    BY DEF Destroy
<1>2. Root \notin Existing
    BY DEF TreeInv, WellFormed, Existing
<1>3. TreeOf(parent') /\ NoCycle(parent')
    BY <1>1, <1>2, Felled DEF TreeInv, WellFormed, Existing
<1>4. DOMAIN parent' = left /\ name' \in [left -> Names]
    BY <1>1 DEF TreeInv, WellFormed, Existing
<1>5. NamedApart(parent', name')
    BY <1>1, <1>4 DEF NamedApart, TreeInv, WellFormed, Existing
<1> QED
    BY <1>1, <1>3, <1>4, <1>5 DEF WellFormed, TreeInv, Existing

-----------------------------------------------------------------------------
(* The specification *)

\* Every call that is on its way names what the page could: a name there is.
Pending ==
    \A s \in calls : s.call.kind \in {"create", "rename"} => s.call.name \in Names

CategoriesIInv == TreeInv /\ Pending

LEMMA AskKeeps ==
    ASSUME CategoriesIInv, Ask
    PROVE  CategoriesIInv'
<1>1. ASSUME NEW k, Call(k), k.kind \in {"create", "rename"} => k.name \in Names
      PROVE  CategoriesIInv'
    <2>1. TreeInv'
        BY <1>1 DEF CategoriesIInv, TreeInv, Call, tree, Existing
    <2>2. \A s \in calls' : s.call.kind \in {"create", "rename"} => s.call.name \in Names
        BY <1>1 DEF CategoriesIInv, Pending, Call
    <2> QED
        BY <2>1, <2>2 DEF CategoriesIInv, Pending
<1>2. CASE \E n \in Names : \/ \E p \in Ids \cup {Root} : Add(n, p)
                               \/ \E c \in Ids : Rename(c, n)
    BY <1>1, <1>2 DEF Add, Rename
<1>3. CASE \E c \in Ids : Delete(c) \/ \E d \in Ids \cup {Root} : Reparent(c, d) \/ Press(c, d)
    <2>1. ASSUME NEW c \in Ids, Delete(c) PROVE CategoriesIInv'
        BY <1>1, <2>1 DEF Delete
    <2>2. ASSUME NEW c \in Ids, NEW d \in Ids \cup {Root}, Reparent(c, d)
          PROVE  CategoriesIInv'
        BY <1>1, <2>2 DEF Reparent
    <2>3. ASSUME NEW c \in Ids, NEW d \in Ids \cup {Root}, Press(c, d)
          PROVE  CategoriesIInv'
        <3> DEFINE at(x) == Rank(seen.parent, seen.name, seen.position, x)
                   k == [kind |-> "reorder",
                         order |-> [x \in Siblings(seen.parent, seen.parent[c]) |->
                                      IF x = c THEN at(d) ELSE IF x = d THEN at(c) ELSE at(x)]]
        <3>1. Call(k) /\ k.kind = "reorder"
            BY <2>3 DEF Press
        <3> HIDE DEF k
        <3> QED
            BY <1>1, <3>1
    <2> QED
        BY <1>3, <2>1, <2>2, <2>3
<1>4. CASE \E r \in Recordings, c \in Ids \cup {Root} : File(r, c)
    BY <1>1, <1>4 DEF File
<1> QED
    BY <1>2, <1>3, <1>4 DEF Ask

LEMMA CarryOutKeeps ==
    ASSUME CategoriesIInv, NEW s \in calls, CarryOut(s)
    PROVE  CategoriesIInv'
<1>1. seen' = seen /\ calls' \subseteq calls
    BY DEF CarryOut
<1>2. TreeInv /\ (s.call.kind \in {"create", "rename"} => s.call.name \in Names)
    BY DEF CategoriesIInv, Pending
<1>3. WellFormed(parent', name') /\ filed' \in [Recordings -> DOMAIN parent' \cup {Root}]
    <2>1. CASE s.call.kind = "create"
        <3>1. Create(s.call.name, s.call.to)
            BY <2>1 DEF CarryOut
        <3> QED
            BY <3>1, <2>1, <1>2, CreateKeeps
    <2>2. CASE s.call.kind = "rename"
        <3>1. SetName(s.call.at, s.call.name)
            BY <2>2 DEF CarryOut
        <3> QED
            BY <3>1, <2>2, <1>2, SetNameKeeps
    <2>3. CASE s.call.kind = "move"
        <3>1. Move(s.call.at, s.call.to)
            BY <2>3 DEF CarryOut
        <3> QED
            BY <3>1, <1>2, MoveKeeps
    <2>4. CASE s.call.kind = "reorder"
        <3>1. parent' = parent /\ name' = name /\ filed' = filed
            BY <2>4 DEF CarryOut, Reorder
        <3> QED
            BY <3>1, <1>2 DEF TreeInv, Existing
    <2>5. CASE s.call.kind = "destroy"
        <3>1. Destroy(s.call.at)
            BY <2>5 DEF CarryOut
        <3> QED
            BY <3>1, <1>2, DestroyKeeps
    <2>6. CASE s.call.kind = "file"
        <3>1. /\ parent' = parent /\ name' = name
              /\ s.call.at \in Existing \cup {Root}
              /\ filed' = [filed EXCEPT ![s.call.recording] = s.call.at]
            BY <2>6 DEF CarryOut, Assign, tree
        <3> QED
            BY <3>1, <1>2 DEF TreeInv, Existing
    <2> QED
        BY <2>1, <2>2, <2>3, <2>4, <2>5, <2>6 DEF CarryOut
<1>4. TreeInv'
    BY <1>1, <1>2, <1>3 DEF TreeInv, Existing
<1> QED
    BY <1>1, <1>4 DEF CategoriesIInv, Pending

\* The tree stays a tree, siblings keep names of their own and recordings their categories,
\* on the instance and on the page, from whatever copy the calls were made.
THEOREM TreeStays == Spec => []TreeInv
<1>1. Init => CategoriesIInv
    BY DEF Init, CategoriesIInv, TreeInv, Pending
<1>2. CategoriesIInv /\ [Next]_vars => CategoriesIInv'
    <2> SUFFICES ASSUME CategoriesIInv, [Next]_vars PROVE CategoriesIInv'
        OBVIOUS
    <2>1. CASE Read
        BY <2>1 DEF Read, CategoriesIInv, TreeInv, Pending, tree, Existing
    <2>2. CASE Ask
        BY <2>2, AskKeeps
    <2>3. ASSUME NEW s \in calls, CarryOut(s) PROVE CategoriesIInv'
        BY <2>3, CarryOutKeeps
    <2>4. ASSUME NEW s \in calls, Refused(s) PROVE CategoriesIInv'
        BY <2>4 DEF Refused, CategoriesIInv, TreeInv, Pending, tree, Existing
    <2>5. CASE UNCHANGED vars
        BY <2>5 DEF vars, CategoriesIInv, TreeInv, Pending, tree, Existing
    <2> QED
        BY <2>1, <2>2, <2>3, <2>4, <2>5 DEF Next
<1>3. CategoriesIInv => TreeInv
    BY DEF CategoriesIInv
<1> QED
    BY <1>1, <1>2, <1>3, PTL DEF Spec
-----------------------------------------------------------------------------
(***************************************************************************)
(* Correcting and marking a recording: module Edits, whose variables are,   *)
(* in order, held, seen, stale, reading, field, patches, hearts, title,     *)
(* pressed, sent, marked and mishaps.                                       *)
(***************************************************************************)
MarkApart(copy, r) == copy.title = r.title /\ copy.tags = r.tags

Patched ==
    [id : Nat, title : {FirstTitle, SecondTitle, Nothing}, tags : (SUBSET Tags) \cup {Nothing},
     cut : SUBSET Tags, typed : BOOLEAN, alone : BOOLEAN, answer : E!Recording \cup {Nothing}]

EditsTyped ==
    /\ E!EditsTypeOK
    /\ v6 \subseteq Patched
    /\ v5 = Nothing \/ v5 \in [draft : {FirstTitle, SecondTitle}, typed : BOOLEAN]
    /\ v10 \in Nat /\ v11 \in Nat /\ v12 \in Nat

\* A field of the recording that was answered.
Answered(p) == p.answer # Nothing

\* The instance is done with every press but those waiting, and perhaps with the first of them;
\* nobody has been told of a press before it was made.
PressesCounted ==
    /\ Len(v7) <= v11 /\ v1.upTo <= v11
    /\ v1.upTo = v11 - Len(v7) \/ v1.upTo = v11 - Len(v7) + 1
    /\ \A p \in v6 : Answered(p) => p.answer.upTo <= v11

\* Until something goes wrong, the last mark waiting is the last one pressed, and an instance that
\* is done with them all has it.
MarksInOrder ==
    v12 = 0 => /\ v7 # << >> => v7[Len(v7)] = v9
               /\ v1.upTo = v11 => v1.mark = v9

\* Until something goes wrong, whatever tells of every press, or was not read while one was on its
\* way, has the mark that was pressed last.
MarksAreShown ==
    v12 = 0 => /\ ~E!Early(v2) => v2.mark = v9
               /\ v4 # Nothing /\ ~E!Early(v4) => v4.mark = v9
               /\ \A p \in v6 : Answered(p) /\ p.answer.upTo = v11 => p.answer.mark = v9

\* Until something goes wrong, whatever was read while no field is in flight is what is held.
ReadAfterTheWrites ==
    v12 = 0 /\ v6 = {} => /\ v4 # Nothing => MarkApart(v4, v1)
                          /\ ~v3 => MarkApart(v2, v1)

\* A field that was sent alone is alone still, and takes no tag off but those it was sent to.
AloneTogether ==
    \A p \in v6 : p.alone =>
        /\ v6 = {p}
        /\ p.answer = Nothing /\ p.tags # Nothing => v1.tags \ p.tags \subseteq p.cut

HeartInv == PressesCounted /\ MarksInOrder /\ MarksAreShown

EditsIInv == EditsTyped /\ HeartInv /\ ReadAfterTheWrites /\ AloneTogether

\* What no request of a field touches.
EditsSame == UNCHANGED <<v1, v6, v7, v9, v10, v11, v12>>

\* What is read now tells of every press, or is of a press that is on its way.
LEMMA ReadIs ==
    ASSUME EditsIInv
    PROVE  /\ E!Read \in E!Recording /\ MarkApart(E!Read, v1)
           /\ v12 = 0 /\ ~E!Early(E!Read) => E!Read.mark = v9
<1>1. v1 \in E!Recording /\ v11 \in Nat
    BY DEF EditsIInv, EditsTyped, E!EditsTypeOK
<1>2. /\ E!Read.title = v1.title /\ E!Read.tags = v1.tags /\ E!Read.mark = v1.mark
      /\ E!Read.upTo = v1.upTo /\ E!Read.of = v11 /\ E!Read \in E!Recording
    BY <1>1 DEF E!Read, E!Recording
<1>3. v1.upTo \in Nat
    BY <1>1 DEF E!Recording
<1> QED
    BY <1>1, <1>2, <1>3 DEF E!Early, MarkApart, EditsIInv, HeartInv, PressesCounted, MarksInOrder

\* Fields that come and go without an answer, and marks that are not carried out, say nothing new.
LEMMA HeartStands ==
    ASSUME HeartInv, UNCHANGED <<v1, v7, v9, v11, v12>>,
           v2' = v2 \/ (v12 = 0 /\ ~E!Early(v2') => v2'.mark = v9),
           v4' = v4 \/ (v12 = 0 /\ v4' # Nothing /\ ~E!Early(v4') => v4'.mark = v9),
           \A q \in v6' : Answered(q) => \E p \in v6 : Answered(p) /\ q.answer = p.answer
    PROVE  HeartInv'
<1>1. PressesCounted' /\ MarksInOrder'
    BY DEF HeartInv, PressesCounted, MarksInOrder, Answered
<1>2. MarksAreShown'
    BY DEF HeartInv, MarksAreShown, Answered, E!Early
<1> QED
    BY <1>1, <1>2 DEF HeartInv

\* The cache: a refetch begins and arrives, a draft is begun, changed and given up.
LEMMA ReadingKeeps ==
    ASSUME EditsIInv,
           E!Refetch \/ E!Arrive \/ E!Start \/ E!Escape \/ (\E t \in {FirstTitle, SecondTitle} : E!Type(t))
    PROVE  EditsIInv'
<1>1. EditsSame
    BY DEF E!Refetch, E!Arrive, E!Start, E!Escape, E!Type, E!counts, EditsSame
<1>2. EditsTyped'
    <2>1. CASE E!Refetch \/ E!Arrive
        <3>1. v2' \in E!Recording /\ v3' \in BOOLEAN /\ (v4' = Nothing \/ v4' \in E!Recording)
            BY <2>1, ReadIs DEF E!Refetch, E!Arrive, EditsIInv, EditsTyped, E!EditsTypeOK
        <3>2. UNCHANGED <<v5, v8>>
            BY <2>1 DEF E!Refetch, E!Arrive
        <3> QED
            BY <1>1, <3>1, <3>2 DEF EditsSame, EditsIInv, EditsTyped, E!EditsTypeOK
    <2>2. CASE E!Start \/ E!Escape \/ (\E t \in {FirstTitle, SecondTitle} : E!Type(t))
        <3>1. v5' = Nothing \/ v5' \in [draft : {FirstTitle, SecondTitle}, typed : BOOLEAN]
            <4>1. v2.title \in {FirstTitle, SecondTitle}
                BY DEF EditsIInv, EditsTyped, E!EditsTypeOK, E!Recording
            <4>2. CASE E!Start
                BY <4>1, <4>2 DEF E!Start
            <4>3. CASE E!Escape
                BY <4>3 DEF E!Escape
            <4>4. ASSUME NEW t \in {FirstTitle, SecondTitle}, E!Type(t)
                  PROVE  v5' \in [draft : {FirstTitle, SecondTitle}, typed : BOOLEAN]
                <5>1. v5' = [draft |-> t, typed |-> TRUE]
                    BY <4>4 DEF E!Type
                <5> QED
                    BY <5>1
            <4> QED
                BY <2>2, <4>2, <4>3, <4>4
        <3>2. UNCHANGED <<v2, v3, v4, v8>>
            BY <2>2 DEF E!Start, E!Escape, E!Type
        <3> QED
            BY <1>1, <3>1, <3>2 DEF EditsSame, EditsIInv, EditsTyped, E!EditsTypeOK
    <2> QED
        BY <2>1, <2>2
<1>3. ReadAfterTheWrites'
    BY <1>1, ReadIs DEF E!Refetch, E!Arrive, E!Start, E!Escape, E!Type, E!counts, EditsSame, EditsIInv, EditsTyped,
        E!EditsTypeOK, ReadAfterTheWrites, MarkApart
<1>4. HeartInv'
    <2>1. /\ v2' = v2 \/ (v12 = 0 /\ ~E!Early(v2') => v2'.mark = v9)
          /\ v4' = v4 \/ (v12 = 0 /\ v4' # Nothing /\ ~E!Early(v4') => v4'.mark = v9)
        BY ReadIs DEF E!Refetch, E!Arrive, E!Start, E!Escape, E!Type, EditsIInv, HeartInv, MarksAreShown
    <2> QED
        BY <1>1, <2>1, HeartStands DEF EditsSame, EditsIInv
<1>5. AloneTogether'
    BY <1>1 DEF EditsSame, EditsIInv, AloneTogether
<1> QED
    BY <1>2, <1>3, <1>4, <1>5 DEF EditsIInv

LEMMA NobodyAlone ==
    ASSUME v6 \subseteq Patched
    PROVE  /\ {[p EXCEPT !.alone = FALSE] : p \in v6} \subseteq Patched
           /\ \A q \in {[p EXCEPT !.alone = FALSE] : p \in v6} :
                ~q.alone /\ \E p \in v6 : q.answer = p.answer
<1> SUFFICES ASSUME NEW p \in v6
             PROVE  /\ [p EXCEPT !.alone = FALSE] \in Patched /\ ~[p EXCEPT !.alone = FALSE].alone
                    /\ [p EXCEPT !.alone = FALSE].answer = p.answer
    OBVIOUS
<1>1. p \in Patched
    OBVIOUS
<1> QED
    BY <1>1 DEF Patched

\* A field is sent: whatever was alone no longer is, and what is sent is alone only if nothing
\* was in flight and the copy had the tags of the instance.
LEMMA SendingKeeps ==
    ASSUME EditsIInv,
           \/ \E tag \in Tags : E!AddTag(tag) \/ E!RemoveTag(tag)
           \/ E!Leave
    PROVE  EditsIInv'
<1>1. UNCHANGED <<v1, v2, v3, v4, v7, v8, v9, v11, v12>>
    BY DEF E!AddTag, E!RemoveTag, E!Leave, E!Patch
<1>2. CASE UNCHANGED <<v6, v10>>
    <2>1. v5' = v5 \/ v5' = Nothing
        BY DEF E!AddTag, E!RemoveTag, E!Leave
    <2> QED
        BY <1>1, <1>2, <2>1, HeartStands DEF EditsIInv, EditsTyped, E!EditsTypeOK, E!Recording,
            ReadAfterTheWrites, MarkApart, AloneTogether
<1>3. ASSUME NEW t \in {FirstTitle, SecondTitle, Nothing}, NEW g \in (SUBSET Tags) \cup {Nothing},
             NEW c \in SUBSET Tags, NEW typed \in BOOLEAN, E!Patch(t, g, c, typed),
             v5' = v5 \/ v5' = Nothing, g # Nothing => v2.tags \ g \subseteq c
      PROVE  EditsIInv'
    <2> DEFINE new == [id |-> v10, title |-> t, tags |-> g, cut |-> c, typed |-> typed,
                       alone |-> E!Alone, answer |-> Nothing]
               was == {[p EXCEPT !.alone = FALSE] : p \in v6}
    <2>1. v6' = was \cup {new} /\ v10' = v10 + 1
        BY <1>3 DEF E!Patch
    <2>2. was \subseteq Patched /\ \A q \in was : ~q.alone /\ \E p \in v6 : q.answer = p.answer
        BY NobodyAlone DEF EditsIInv, EditsTyped
    <2>3. new \in Patched
        BY <1>3 DEF EditsIInv, EditsTyped, Patched, E!Alone
    <2>4. EditsTyped'
        BY <1>1, <1>3, <2>1, <2>2, <2>3 DEF EditsIInv, EditsTyped, E!EditsTypeOK, E!Recording
    <2>5. ReadAfterTheWrites'
        BY <1>1, <2>1 DEF EditsIInv, ReadAfterTheWrites
    <2>7. \A q \in v6' : Answered(q) => \E p \in v6 : Answered(p) /\ q.answer = p.answer
        BY <2>1, <2>2 DEF Answered
    <2>8. HeartInv'
        BY <1>1, <2>7, HeartStands DEF EditsIInv
    <2>6. ASSUME NEW p \in v6', p.alone
          PROVE  v6' = {p} /\ (p.tags # Nothing => v1.tags \ p.tags \subseteq p.cut)
        <3>1. p = new /\ E!Alone
            BY <2>1, <2>2, <2>6
        <3>2. v6' = {p}
            BY <2>1, <3>1 DEF E!Alone
        <3> QED
            BY <1>3, <3>1, <3>2 DEF E!Alone
    <2> QED
        BY <1>1, <2>4, <2>5, <2>6, <2>8 DEF EditsIInv, AloneTogether
<1>4. ASSUME NEW tag \in Tags, E!AddTag(tag) PROVE EditsIInv'
    <2>1. v2.tags \cup {tag} \in SUBSET Tags
        BY DEF EditsIInv, EditsTyped, E!EditsTypeOK, E!Recording
    <2> QED
        BY <1>3, <1>4, <2>1 DEF E!AddTag
<1>5. ASSUME NEW tag \in Tags, E!RemoveTag(tag) PROVE EditsIInv'
    <2>1. v2.tags \ {tag} \in SUBSET Tags
        BY DEF EditsIInv, EditsTyped, E!EditsTypeOK, E!Recording
    <2>2. v2.tags \ (v2.tags \ {tag}) \subseteq {tag}
        OBVIOUS
    <2> QED
        BY <1>3, <1>5, <2>1, <2>2 DEF E!RemoveTag
<1>6. CASE E!Leave
    <2>1. v5 \in [draft : {FirstTitle, SecondTitle}, typed : BOOLEAN]
        BY <1>6 DEF E!Leave, EditsIInv, EditsTyped
    <2>2. CASE v5.draft = v2.title
        BY <1>2, <1>6, <2>2 DEF E!Leave
    <2>3. CASE v5.draft # v2.title
        BY <1>3, <1>6, <2>1, <2>3 DEF E!Leave
    <2> QED
        BY <2>2, <2>3
<1> QED
    BY <1>4, <1>5, <1>6

\* The instance carries a field out.
LEMMA CarriedOutKeeps ==
    ASSUME EditsIInv, NEW p \in v6, E!CarryOut(p)
    PROVE  EditsIInv' /\ E!TagGoes
<1> DEFINE new == [p EXCEPT !.answer = E!Carried(p)]
<1>1. /\ v1' = E!Carried(p) /\ v6' = (v6 \ {p}) \cup {new}
      /\ UNCHANGED <<v2, v3, v4, v5, v7, v8, v9, v10, v11, v12>>
    BY DEF E!CarryOut, E!counts
<1>2. /\ v1' \in E!Recording /\ v1'.mark = v1.mark /\ v1'.upTo = v1.upTo
      /\ v1'.tags = IF p.tags = Nothing THEN v1.tags ELSE p.tags
    <2>1. p \in Patched /\ v1 \in E!Recording
        BY DEF EditsIInv, EditsTyped, E!EditsTypeOK
    <2> QED
        BY <1>1, <2>1 DEF E!Carried, E!Recording, Patched
<1>3. new \in Patched /\ new.alone = p.alone /\ new.tags = p.tags /\ new.cut = p.cut /\ new.answer = v1'
    BY <1>1, <1>2 DEF EditsIInv, EditsTyped, Patched
<1>4. EditsTyped'
    BY <1>1, <1>2, <1>3 DEF EditsIInv, EditsTyped, E!EditsTypeOK
<1>5. ReadAfterTheWrites'
    BY <1>1, <1>2 DEF EditsIInv, ReadAfterTheWrites
<1>8. HeartInv'
    <2>1. PressesCounted' /\ MarksInOrder'
        BY <1>1, <1>2, <1>3 DEF EditsIInv, HeartInv, PressesCounted, MarksInOrder, Answered
    <2>2. MarksAreShown'
        BY <1>1, <1>2, <1>3 DEF EditsIInv, HeartInv, MarksInOrder, MarksAreShown, Answered, E!Early
    <2> QED
        BY <2>1, <2>2 DEF HeartInv
<1>6. ASSUME NEW q \in v6', q.alone PROVE v6' = {q} /\ (q.tags # Nothing => v1'.tags \ q.tags \subseteq q.cut)
    <2>1. q = new /\ v6 = {p}
        BY <1>1, <1>3, <1>6 DEF EditsIInv, AloneTogether
    <2> QED
        BY <1>1, <1>2, <1>3, <2>1
<1>7. E!TagGoes
    BY <1>2 DEF E!TagGoes, E!CarryOut, EditsIInv, AloneTogether
<1> QED
    BY <1>4, <1>5, <1>6, <1>7, <1>8 DEF EditsIInv, AloneTogether

\* An answer arrives, or does not.
LEMMA AnsweredKeeps ==
    ASSUME EditsIInv, NEW p \in v6, E!Saved(p) \/ E!SaveFails(p)
    PROVE  EditsIInv'
<1>1. p \in Patched /\ v1 \in E!Recording /\ v11 \in Nat /\ v12 \in Nat /\ v12 + 1 # 0
    BY DEF EditsIInv, EditsTyped, E!EditsTypeOK
<1>2. v6' = v6 \ {p} /\ UNCHANGED <<v1, v5, v7, v9, v10, v11>>
    BY DEF E!Saved, E!SaveFails, E!counts
<1>3. AloneTogether'
    BY <1>2 DEF EditsIInv, AloneTogether
<1>4. CASE E!Saved(p)
    <2> DEFINE copy == [p.answer EXCEPT !.of = v11]
    <2>1. p.answer \in E!Recording /\ p.answer # Nothing
        BY <1>1, <1>4 DEF E!Saved, Patched
    <2>2. /\ copy \in E!Recording /\ copy.title \in {FirstTitle, SecondTitle}
          /\ copy.mark = p.answer.mark /\ copy.upTo = p.answer.upTo /\ copy.upTo \in Nat /\ copy.of = v11
        BY <1>1, <2>1 DEF E!Recording
    <2>3. v2' = copy /\ v3' = TRUE /\ v4' = E!Read /\ v8' = p.answer.title /\ v12' = v12
        BY <1>4 DEF E!Saved, E!counts
    <2>4. p.answer.title \in {FirstTitle, SecondTitle}
        BY <2>1 DEF E!Recording
    <2>5. EditsTyped'
        BY <1>2, <2>2, <2>3, <2>4, ReadIs DEF EditsIInv, EditsTyped, E!EditsTypeOK
    <2>6. v12 = 0 /\ ~E!Early(copy) => copy.mark = v9
        <3>1. p.answer.upTo <= v11
            BY <2>1 DEF EditsIInv, HeartInv, PressesCounted, Answered
        <3> QED
            BY <1>1, <2>1, <2>2, <3>1 DEF E!Early, EditsIInv, HeartInv, MarksAreShown, Answered
    <2>7. HeartInv'
        <3>1. v12 = 0 /\ ~E!Early(v2') => v2'.mark = v9
            BY <2>3, <2>6
        <3>2. v12 = 0 /\ v4' # Nothing /\ ~E!Early(v4') => v4'.mark = v9
            BY <2>3, ReadIs
        <3> QED
            BY <1>2, <2>3, <3>1, <3>2, HeartStands DEF EditsIInv
    <2>8. ReadAfterTheWrites'
        BY <1>2, <2>3, ReadIs DEF ReadAfterTheWrites, MarkApart
    <2> QED
        BY <1>3, <2>5, <2>7, <2>8 DEF EditsIInv
<1>5. CASE E!SaveFails(p)
    <2>1. UNCHANGED <<v2, v3, v4, v8>> /\ v12' = v12 + 1
        BY <1>5 DEF E!SaveFails
    <2>2. EditsTyped'
        BY <1>1, <1>2, <2>1 DEF EditsIInv, EditsTyped, E!EditsTypeOK
    <2>3. HeartInv' /\ ReadAfterTheWrites'
        BY <1>1, <1>2, <2>1 DEF EditsIInv, HeartInv, PressesCounted, MarksInOrder, MarksAreShown,
            ReadAfterTheWrites, Answered
    <2> QED
        BY <1>3, <2>2, <2>3 DEF EditsIInv
<1> QED
    BY <1>4, <1>5

\* The rest of a sequence, and its last element.
LEMMA RestOf ==
    ASSUME NEW B, NEW s \in Seq(B), s # << >>
    PROVE  /\ SubSeq(s, 2, Len(s)) \in Seq(B)
           /\ Len(s) \in Nat /\ Len(s) >= 1 /\ Len(SubSeq(s, 2, Len(s))) = Len(s) - 1
           /\ << >> \o SubSeq(s, 2, Len(s)) = SubSeq(s, 2, Len(s))
           /\ s[1] \in B
           /\ SubSeq(s, 2, Len(s)) = << >> <=> Len(s) = 1
           /\ Len(s) # 1 => SubSeq(s, 2, Len(s))[Len(SubSeq(s, 2, Len(s)))] = s[Len(s)]
<1> DEFINE t == SubSeq(s, 2, Len(s))
<1>0. t = Tail(s)
  BY TailIsSubSeq
<1> HIDE DEF t
<1>1. Len(s) \in Nat /\ Len(s) >= 1
    BY EmptySeq
<1>2. t \in Seq(B) /\ Len(t) = Len(s) - 1 /\ \A i \in 1 .. Len(t) : t[i] = s[i+1]
  BY <1>0, HeadTailProperties, Zenon
<1>3. s[1] \in B
  BY <1>1
<1>4. << >> \o t = t
  BY <1>2
<1>5. t = << >> <=> Len(t) = 0
  BY <1>2, EmptySeq
<1>6. t = << >> <=> Len(s) = 1
  BY <1>1, <1>2, <1>5
<1>7. Len(s) # 1 => Len(t) \in 1..Len(t) /\ Len(t) + 1 = Len(s)
  BY <1>1, <1>2
<1>8. Len(s) # 1 => t[Len(t)] = s[Len(s)]
  BY <1>2, <1>7
<1> QED
    BY <1>1, <1>2, <1>3, <1>4, <1>6, <1>8 DEF t

\* The first mark waiting has left: the last is still the last, unless it was the only one.
LEMMA FirstMarkGone ==
    ASSUME v7 \in Seq(BOOLEAN), NEW i \in E!Turn
    PROVE  /\ i = 1 /\ v7 # << >> /\ v7[1] \in BOOLEAN
           /\ Len(v7) \in Nat /\ Len(v7) >= 1 /\ Len(E!Without(i)) = Len(v7) - 1
           /\ E!Without(i) \in Seq(BOOLEAN)
           /\ E!Without(i) = << >> <=> Len(v7) = 1
           /\ E!Without(i) # << >> => E!Without(i)[Len(E!Without(i))] = v7[Len(v7)]
<1>1. i = 1 /\ v7 # << >>
    BY DEF E!Turn
<1>2. SubSeq(v7, 1, 1 - 1) = << >>
    BY SubSeqEmpty
<1>3. E!Without(1) = << >> \o SubSeq(v7, 2, Len(v7))
    BY <1>2 DEF E!Without
<1>4. E!Without(i) = SubSeq(v7, 2, Len(v7))
    BY <1>1, <1>3, RestOf, Zenon
<1> QED
    BY <1>1, <1>4, RestOf, Zenon

\* The heart is pressed: nothing that is in flight tells of this press.
LEMMA PressKeeps ==
    ASSUME EditsIInv, E!Press
    PROVE  EditsIInv' /\ v1' = v1
<1>1. /\ v7 \in Seq(BOOLEAN) /\ Len(v7) \in Nat /\ v11 \in Nat
      /\ v1 \in E!Recording /\ v2 \in E!Recording /\ v1.upTo \in Nat /\ v2.mark \in BOOLEAN
    BY DEF EditsIInv, EditsTyped, E!EditsTypeOK, E!Recording
<1>2. /\ v2' = [v2 EXCEPT !.mark = ~@, !.upTo = v11 + 1, !.of = v11 + 1]
      /\ v9' = ~v2.mark /\ v7' = Append(v7, ~v2.mark) /\ v4' = Nothing /\ v11' = v11 + 1
      /\ UNCHANGED <<v1, v3, v5, v6, v8, v10, v12>>
    BY DEF E!Press
<1>3. (~v2.mark) \in BOOLEAN
    BY <1>1
<1>4. /\ v2' \in E!Recording /\ MarkApart(v2', v2) /\ v2'.mark = v9' /\ v2'.upTo = v11 + 1
    <2> DEFINE on == ~v2.mark
               n  == v11 + 1
    <2>1. on \in BOOLEAN /\ n \in Nat /\ v9' = on
        BY <1>1, <1>2
    <2>2. v2' = [v2 EXCEPT !.mark = on, !.upTo = n, !.of = n]
        BY <1>2
    <2>3. v2' = [v2 EXCEPT !.mark = on, !.upTo = n, !.of = n] /\ n = v11 + 1
        BY <2>2
    <2> HIDE DEF on, n
    <2> QED
        BY <1>1, <2>1, <2>3 DEF MarkApart, E!Recording
<1>5. /\ v7' \in Seq(BOOLEAN) /\ v7' # << >> /\ v7'[Len(v7')] = v9' /\ Len(v7') = Len(v7) + 1
    BY <1>1, <1>2, <1>3
<1>6. EditsTyped'
    BY <1>1, <1>2, <1>3, <1>4, <1>5 DEF EditsIInv, EditsTyped, E!EditsTypeOK
<1>7. ASSUME NEW p \in v6, Answered(p) PROVE p.answer.upTo <= v11 /\ p.answer.upTo \in Nat
    BY <1>7 DEF EditsIInv, EditsTyped, HeartInv, PressesCounted, Answered, Patched, E!Recording
<1>8. PressesCounted'
    BY <1>1, <1>2, <1>5, <1>7 DEF EditsIInv, HeartInv, PressesCounted, Answered
<1>9. MarksInOrder'
    BY <1>1, <1>2, <1>5 DEF EditsIInv, HeartInv, PressesCounted, MarksInOrder
<1>10. MarksAreShown'
    BY <1>1, <1>2, <1>4, <1>7 DEF MarksAreShown, Answered
<1>11. ReadAfterTheWrites' /\ AloneTogether'
    BY <1>2, <1>4 DEF EditsIInv, ReadAfterTheWrites, MarkApart, AloneTogether
<1> QED
    BY <1>2, <1>6, <1>8, <1>9, <1>10, <1>11 DEF EditsIInv, HeartInv

\* The instance does what the first mark waiting asks for.
LEMMA KeepMarkKeeps ==
    ASSUME EditsIInv, E!KeepMark
    PROVE  EditsIInv' /\ v1'.tags = v1.tags
<1>1. v7 \in Seq(BOOLEAN) /\ v1 \in E!Recording /\ v11 \in Nat /\ v1.upTo \in Nat
    BY DEF EditsIInv, EditsTyped, E!EditsTypeOK, E!Recording
<1>2. PICK i \in E!Turn : v1' = [v1 EXCEPT !.mark = v7[i], !.upTo = @ + 1]
    BY DEF E!KeepMark
<1>3. /\ UNCHANGED <<v2, v3, v4, v5, v6, v7, v8, v9, v10, v11, v12>>
      /\ ~(v1.upTo > v11 - Len(v7))
    BY DEF E!KeepMark, E!Kept, E!counts
<1>4. i = 1 /\ v7 # << >> /\ v7[1] \in BOOLEAN /\ Len(v7) \in Nat /\ Len(v7) >= 1
    BY <1>1, FirstMarkGone
<1>5. /\ v1' \in E!Recording /\ MarkApart(v1', v1)
      /\ v1'.mark = v7[1] /\ v1'.upTo = v1.upTo + 1
    <2> DEFINE on == v7[1]
               n  == v1.upTo + 1
    <2>1. on \in BOOLEAN /\ n \in Nat /\ v1' = [v1 EXCEPT !.mark = on, !.upTo = n]
        BY <1>1, <1>2, <1>4
    <2>2. v7[1] = on /\ v1.upTo + 1 = n
        OBVIOUS
    <2> HIDE DEF on, n
    <2> QED
        BY <1>1, <2>1, <2>2 DEF E!Recording, MarkApart
<1>6. v1.upTo = v11 - Len(v7) /\ Len(v7) <= v11
    BY <1>1, <1>3, <1>4 DEF EditsIInv, HeartInv, PressesCounted
<1>7. EditsTyped'
    BY <1>3, <1>5 DEF EditsIInv, EditsTyped, E!EditsTypeOK
<1>8. PressesCounted'
    BY <1>1, <1>3, <1>4, <1>5, <1>6 DEF EditsIInv, HeartInv, PressesCounted, Answered
<1>9. MarksInOrder'
    <2>1. v1'.upTo = v11 => Len(v7) = 1
        <3>1. v1'.upTo = v11 - Len(v7) + 1
            BY <1>5, <1>6
        <3>2. v11 \in Nat /\ Len(v7) \in Nat
            BY <1>1, <1>4
        <3>3. \A a, b \in Nat : a = a - b + 1 => b = 1
            OBVIOUS
        <3> QED
            BY <3>1, <3>2, <3>3, Zenon
    <2> QED
        BY <1>3, <1>4, <1>5, <2>1 DEF EditsIInv, HeartInv, MarksInOrder
<1>10. MarksAreShown'
    BY <1>3 DEF EditsIInv, HeartInv, MarksAreShown, Answered, E!Early
<1>11. ReadAfterTheWrites' /\ AloneTogether'
    BY <1>3, <1>5 DEF EditsIInv, ReadAfterTheWrites, MarkApart, AloneTogether
<1> QED
    BY <1>5, <1>7, <1>8, <1>9, <1>10, <1>11 DEF EditsIInv, HeartInv, MarkApart

\* The first mark waiting is answered.
LEMMA MarkedKeeps ==
    ASSUME EditsIInv, E!Marked
    PROVE  EditsIInv' /\ v1' = v1
<1>1. v7 \in Seq(BOOLEAN) /\ v1 \in E!Recording /\ v11 \in Nat /\ v1.upTo \in Nat
    BY DEF EditsIInv, EditsTyped, E!EditsTypeOK, E!Recording
<1>2. PICK i \in E!Turn : v7' = E!Without(i)
    BY DEF E!Marked
<1>3. /\ v3' = TRUE /\ UNCHANGED <<v1, v2, v4, v5, v6, v8, v9, v10, v11, v12>>
      /\ v1.upTo > v11 - Len(v7)
    BY DEF E!Marked, E!Kept, E!counts
<1>4. /\ Len(v7) \in Nat /\ Len(v7) >= 1 /\ Len(v7') = Len(v7) - 1 /\ v7' \in Seq(BOOLEAN)
      /\ v7' # << >> => v7'[Len(v7')] = v7[Len(v7)]
      /\ v7 # << >>
    BY <1>1, <1>2, FirstMarkGone
<1>5. v1.upTo = v11 - Len(v7) + 1 /\ Len(v7) <= v11
    BY <1>1, <1>3, <1>4 DEF EditsIInv, HeartInv, PressesCounted
<1>6. EditsTyped'
    BY <1>3, <1>4 DEF EditsIInv, EditsTyped, E!EditsTypeOK
<1>7. PressesCounted'
    BY <1>1, <1>3, <1>4, <1>5 DEF EditsIInv, HeartInv, PressesCounted, Answered
<1>8. MarksInOrder' /\ MarksAreShown'
    BY <1>3, <1>4 DEF EditsIInv, HeartInv, MarksInOrder, MarksAreShown, Answered, E!Early
<1>9. ReadAfterTheWrites' /\ AloneTogether'
    BY <1>3 DEF EditsIInv, ReadAfterTheWrites, MarkApart, AloneTogether
<1> QED
    BY <1>3, <1>6, <1>7, <1>8, <1>9 DEF EditsIInv, HeartInv

\* The first mark waiting is refused, or its answer is lost.
LEMMA MarkFailsKeeps ==
    ASSUME EditsIInv, E!MarkFails
    PROVE  EditsIInv' /\ v1'.tags = v1.tags
<1>1. v7 \in Seq(BOOLEAN) /\ v1 \in E!Recording /\ v2 \in E!Recording /\ v11 \in Nat /\ v1.upTo \in Nat
    BY DEF EditsIInv, EditsTyped, E!EditsTypeOK, E!Recording
<1>2. PICK i \in E!Turn : v2' = [v2 EXCEPT !.mark = ~v7[i]] /\ v7' = E!Without(i)
    BY DEF E!MarkFails
<1>3. /\ v1' = IF v1.upTo > v11 - Len(v7) THEN v1 ELSE [v1 EXCEPT !.upTo = @ + 1]
      /\ v12' = v12 + 1 /\ UNCHANGED <<v3, v4, v5, v6, v8, v9, v10, v11>>
    BY DEF E!MarkFails, E!Kept
<1>4. /\ Len(v7) \in Nat /\ Len(v7) >= 1 /\ Len(v7') = Len(v7) - 1 /\ v7' \in Seq(BOOLEAN)
      /\ i = 1 /\ v7[1] \in BOOLEAN
    BY <1>1, <1>2, FirstMarkGone
<1>5. /\ v1' \in E!Recording /\ v2' \in E!Recording /\ v1'.tags = v1.tags
      /\ v1'.upTo = IF v1.upTo > v11 - Len(v7) THEN v1.upTo ELSE v1.upTo + 1
    <2> DEFINE on == ~v7[1]
               n  == v1.upTo + 1
    <2>1. on \in BOOLEAN /\ n \in Nat /\ v2' = [v2 EXCEPT !.mark = on]
        BY <1>1, <1>2, <1>4
    <2>2. /\ v1' = IF v1.upTo > v11 - Len(v7) THEN v1 ELSE [v1 EXCEPT !.upTo = n]
          /\ v1.upTo + 1 = n
        BY <1>3
    <2> HIDE DEF on, n
    <2>3. v2' \in E!Recording
        BY <1>1, <2>1 DEF E!Recording
    <2>4. [v1 EXCEPT !.upTo = n] \in E!Recording /\ [v1 EXCEPT !.upTo = n].upTo = n
          /\ [v1 EXCEPT !.upTo = n].tags = v1.tags
        BY <1>1, <2>1 DEF E!Recording
    <2> QED
        BY <1>1, <2>2, <2>3, <2>4
<1>6. v12' \in Nat /\ v12' # 0
    BY <1>3 DEF EditsIInv, EditsTyped
<1>7. EditsTyped'
    BY <1>3, <1>4, <1>5, <1>6 DEF EditsIInv, EditsTyped, E!EditsTypeOK
<1>8. PressesCounted'
    BY <1>1, <1>3, <1>4, <1>5 DEF EditsIInv, HeartInv, PressesCounted, Answered
<1> QED
    BY <1>3, <1>5, <1>6, <1>7, <1>8 DEF EditsIInv, HeartInv, MarksInOrder, MarksAreShown,
        ReadAfterTheWrites, AloneTogether

\* The recording is changed from another page, which never takes a tag off.
LEMMA ElsewhereKeeps ==
    ASSUME EditsIInv, E!Elsewhere
    PROVE  EditsIInv' /\ E!TagGoes
<1>1. v1 \in E!Recording /\ v6 \subseteq Patched
    BY DEF EditsIInv, EditsTyped, E!EditsTypeOK
<1>2. v1' \in E!Recording /\ v1.tags \subseteq v1'.tags /\ v1'.upTo = v1.upTo
    <2>1. \/ \E t \in {FirstTitle, SecondTitle} : v1' = [v1 EXCEPT !.title = t]
          \/ \E tag \in Tags : v1' = [v1 EXCEPT !.tags = @ \cup {tag}]
          \/ v1' = [v1 EXCEPT !.mark = ~@]
        BY DEF E!Elsewhere
    <2>2. (~v1.mark) \in BOOLEAN
        BY <1>1 DEF E!Recording
    <2> QED
        BY <1>1, <2>1, <2>2 DEF E!Recording
<1>3. /\ v6' = {[p EXCEPT !.alone = FALSE] : p \in v6} /\ v12' = v12 + 1
      /\ UNCHANGED <<v2, v3, v4, v5, v7, v8, v9, v10, v11>>
    BY DEF E!Elsewhere
<1>4. v6' \subseteq Patched /\ \A q \in v6' : ~q.alone /\ \E p \in v6 : q.answer = p.answer
    BY <1>1, <1>3, NobodyAlone
<1>5. v12' \in Nat /\ v12' # 0
    BY <1>3 DEF EditsIInv, EditsTyped
<1>6. EditsTyped'
    BY <1>2, <1>3, <1>4, <1>5 DEF EditsIInv, EditsTyped, E!EditsTypeOK
<1>7. PressesCounted'
    BY <1>2, <1>3, <1>4 DEF EditsIInv, HeartInv, PressesCounted, Answered
<1> QED
    BY <1>2, <1>4, <1>5, <1>6, <1>7 DEF EditsIInv, HeartInv, MarksInOrder, MarksAreShown,
        ReadAfterTheWrites, AloneTogether, E!TagGoes

\* One step of the page, the requests or the instance.
LEMMA EditsStep ==
    ASSUME EditsIInv, E!EditsNext
    PROVE  EditsIInv' /\ E!TagGoes
<1>1. CASE \/ E!Refetch \/ E!Arrive \/ E!Start \/ E!Escape
           \/ (\E t \in {FirstTitle, SecondTitle} : E!Type(t))
    <2>1. v1' = v1
        BY <1>1 DEF E!Refetch, E!Arrive, E!Start, E!Escape, E!Type
    <2> QED
        BY <1>1, <2>1, ReadingKeeps DEF E!TagGoes
<1>2. CASE (\E tag \in Tags : E!AddTag(tag) \/ E!RemoveTag(tag)) \/ E!Leave
    <2>1. v1' = v1
        BY <1>2 DEF E!AddTag, E!RemoveTag, E!Leave
    <2> QED
        BY <1>2, <2>1, SendingKeeps DEF E!TagGoes
<1>3. ASSUME NEW p \in v6, E!CarryOut(p) PROVE EditsIInv' /\ E!TagGoes
    BY <1>3, CarriedOutKeeps
<1>4. ASSUME NEW p \in v6, E!Saved(p) \/ E!SaveFails(p) PROVE EditsIInv' /\ E!TagGoes
    <2>1. v1' = v1
        BY <1>4 DEF E!Saved, E!SaveFails
    <2> QED
        BY <1>4, <2>1, AnsweredKeeps DEF E!TagGoes
<1>5. CASE E!Press \/ E!KeepMark \/ E!Marked \/ E!MarkFails
    BY <1>5, PressKeeps, KeepMarkKeeps, MarkedKeeps, MarkFailsKeeps DEF E!TagGoes
<1>6. CASE E!Elsewhere
    BY <1>6, ElsewhereKeeps
<1> QED
    BY <1>1, <1>2, <1>3, <1>4, <1>5, <1>6 DEF E!EditsNext

\* A scene is of one screen from its beginning, and a step of another's leaves it alone.
AnyStep == Edited \/ Arranged \/ Shown \/ Overlaid \/ Filled \/ Kept \/ Searched

LEMMA SceneStays ==
    ASSUME [AnyStep]_all
    PROVE  /\ scene' = scene
           /\ scene = "edits" => E!EditsNext \/ UNCHANGED shared
           /\ scene = "overlays" => O!Next \/ UNCHANGED shared
           /\ scene = "cache" => K!Next \/ UNCHANGED shared
           /\ scene = "form" => F!Next \/ UNCHANGED shared
           /\ scene = "card" => C!Next \/ UNCHANGED shared
           /\ scene = "search" => S!Next \/ UNCHANGED shared
BY DEF AnyStep, Edited, Arranged, Shown, Overlaid, Filled, Kept, Searched, all

EditsHold == scene = "edits" => EditsIInv

LEMMA EditsHeld == ScreensSpec => []EditsHold
<1>1. ScreensInit => EditsHold
    <2> SUFFICES ASSUME ScreensInit, scene = "edits" PROVE EditsIInv
        BY DEF EditsHold
    <2>1. E!EditsInit
        BY DEF ScreensInit
    <2>2. EditsTyped
        <3>1. v1 \in E!Recording /\ v2 = v1 /\ v3 = FALSE /\ v9 = FALSE /\ v4 = Nothing /\ v8 = FirstTitle
            BY <2>1 DEF E!EditsInit, E!Recording
        <3>2. v7 \in Seq(BOOLEAN) /\ v6 = {} /\ v5 = Nothing /\ v10 = 0 /\ v11 = 0 /\ v12 = 0
            BY <2>1, EmptySeq DEF E!EditsInit
        <3> QED
            BY <3>1, <3>2 DEF EditsTyped, E!EditsTypeOK
    <2>3. ReadAfterTheWrites /\ AloneTogether
        BY <2>1 DEF E!EditsInit, ReadAfterTheWrites, MarkApart, AloneTogether
    <2>4. HeartInv
        <3>1. /\ v1.upTo = 0 /\ v1.mark = FALSE /\ v2 = v1 /\ v4 = Nothing /\ v6 = {} /\ v9 = FALSE
              /\ v11 = 0
            BY <2>1 DEF E!EditsInit
        <3>2. v7 = << >> /\ Len(v7) = 0
            BY <2>1, EmptySeq DEF E!EditsInit
        <3>3. Len(v7) = 0
            BY <3>2
        <3>4. PressesCounted
            BY <3>1, <3>3 DEF PressesCounted
        <3>5. MarksInOrder
            BY <3>1, <3>2 DEF MarksInOrder
        <3>6. MarksAreShown
            BY <3>1, Zenon DEF MarksAreShown
        <3> QED
            BY <3>4, <3>5, <3>6 DEF HeartInv
    <2> QED
        BY <2>2, <2>3, <2>4 DEF EditsIInv
<1>2. EditsHold /\ [AnyStep]_all => EditsHold'
    <2> SUFFICES ASSUME EditsHold, [AnyStep]_all, scene' = "edits" PROVE EditsIInv'
        BY DEF EditsHold
    <2>1. EditsIInv /\ (E!EditsNext \/ UNCHANGED shared)
        BY SceneStays DEF EditsHold
    <2>2. CASE UNCHANGED shared
        BY <2>1, <2>2 DEF shared, EditsIInv, EditsTyped, E!EditsTypeOK, E!Recording, HeartInv,
            PressesCounted, MarksInOrder, MarksAreShown, Answered, E!Early, ReadAfterTheWrites,
            MarkApart, AloneTogether
    <2> QED
        BY <2>1, <2>2, EditsStep
<1> QED
    BY <1>1, <1>2, PTL DEF ScreensSpec, AnyStep

\* However fast the heart is pressed the instance ends with what the last press asked for; the
\* heart that is drawn is then the instance's, unless it was read while a press was on its way;
\* and a copy that is not known to be stale is what the instance holds once nothing is in flight.
\* It is so unless a change was made elsewhere, refused or lost: for any tags and any number of
\* presses, fields and refetches.
THEOREM EditsSettle == ScreensSpec => []EditsInv
<1>1. EditsHold => EditsInv
    <2> SUFFICES ASSUME EditsIInv PROVE E!EditsInv
        BY DEF EditsHold, EditsInv
    <2>1. v1 \in E!Recording /\ v1.upTo \in Nat /\ v11 \in Nat
        BY DEF EditsIInv, EditsTyped, E!EditsTypeOK, E!Recording
    <2>2. v7 = << >> => v1.upTo = v11
        BY <2>1, EmptySeq DEF EditsIInv, HeartInv, PressesCounted
    <2>3. E!LastPressIsKept /\ E!MarkIsShown
        BY <2>2 DEF EditsIInv, HeartInv, MarksInOrder, MarksAreShown, E!LastPressIsKept, E!MarkIsShown
    <2>4. E!CopyIsCurrent
        BY <2>3 DEF EditsIInv, ReadAfterTheWrites, MarkApart, E!MarkIsShown, E!CopyIsCurrent, E!AtRest
    <2> QED
        BY <2>3, <2>4 DEF EditsIInv, EditsTyped, E!EditsInv
<1> QED
    BY <1>1, EditsHeld, PTL

\* A tag comes off the recording only in a step that carries out a list it was taken off, or one
\* that crossed another write: for any tags, fields and pages.
THEOREM TagsGoForACause == ScreensSpec => TagGoesForACause
<1>1. ASSUME EditsHold, [AnyStep]_all PROVE [scene = "edits" => E!TagGoes]_all
    <2> SUFFICES ASSUME scene = "edits" PROVE E!TagGoes
        OBVIOUS
    <2>1. EditsIInv /\ (E!EditsNext \/ UNCHANGED shared)
        BY <1>1, SceneStays DEF EditsHold
    <2>2. CASE UNCHANGED shared
        BY <2>2 DEF shared, E!TagGoes
    <2> QED
        BY <2>1, <2>2, EditsStep
<1> QED
    BY <1>1, EditsHeld, PTL DEF ScreensSpec, AnyStep, TagGoesForACause

-----------------------------------------------------------------------------
(***************************************************************************)
(* What a write of the page's reaches in the cache: module Staleness.       *)
(***************************************************************************)

\* A key is reached through itself and through what it is narrower than.
LEMMA Narrower ==
    /\ \A a : IsPrefix(<<a>>, <<a>>)
    /\ \A a, b : IsPrefix(<<a>>, <<a, b>>) /\ IsPrefix(<<a, b>>, <<a, b>>)
    /\ \A a, b, c : /\ IsPrefix(<<a>>, <<a, b, c>>) /\ IsPrefix(<<a, b>>, <<a, b, c>>)
                    /\ IsPrefix(<<a, b, c>>, <<a, b, c>>)
<1>1. ASSUME NEW a PROVE IsPrefix(<<a>>, <<a>>)
    BY DEF IsPrefix
<1>2. ASSUME NEW a, NEW b PROVE IsPrefix(<<a>>, <<a, b>>) /\ IsPrefix(<<a, b>>, <<a, b>>)
    <2>1. SubSeq(<<a>>, 1, 1) = SubSeq(<<a, b>>, 1, 1)
        OBVIOUS
    <2> QED
        BY <2>1 DEF IsPrefix
<1>3. ASSUME NEW a, NEW b, NEW c
      PROVE  /\ IsPrefix(<<a>>, <<a, b, c>>) /\ IsPrefix(<<a, b>>, <<a, b, c>>)
             /\ IsPrefix(<<a, b, c>>, <<a, b, c>>)
    <2>1. SubSeq(<<a>>, 1, 1) = SubSeq(<<a, b, c>>, 1, 1)
        OBVIOUS
    <2>2. SubSeq(<<a, b>>, 1, 2) = SubSeq(<<a, b, c>>, 1, 2)
        OBVIOUS
    <2> QED
        BY <2>1, <2>2 DEF IsPrefix
<1> QED
    BY <1>1, <1>2, <1>3

Reached(ks, q) == \E k \in ks : IsPrefix(k, q)

LEMMA Reaching ==
    ASSUME NEW ks
    PROVE  /\ <<"search">> \in ks => Reached(ks, Results)
           /\ <<"every-recording">> \in ks => Reached(ks, Favourites)
           /\ <<"trash">> \in ks => Reached(ks, TrashedAudio) /\ Reached(ks, TrashedLibraries)
           /\ <<"tags">> \in ks => Reached(ks, TagsTyped)
           /\ <<"recordings">> \in ks \/ Detail \in ks => \A q \in OfIt : Reached(ks, q)
           /\ <<"admin">> \in ks => Reached(ks, Users) /\ Reached(ks, Status) /\ Reached(ks, Provider)
           /\ \A q \in {AllLibraries, Me, Sessions, Status} : q \in ks => Reached(ks, q)
           /\ \A l : /\ AllLibraries \in ks \/ Library(l) \in ks =>
                           /\ Reached(ks, Library(l)) /\ Reached(ks, Audio(l))
                           /\ Reached(ks, Shares(l)) /\ Reached(ks, Tree(l))
                     /\ Shares(l) \in ks => Reached(ks, Shares(l))
BY Narrower DEF Reached, Results, Favourites, TrashedAudio, TrashedLibraries, TagsTyped, OfIt, Detail, Transcription,
    Transcripts, Users, Status, Provider, AllLibraries, Me, Sessions, Library, Audio, Shares, Tree

LEMMA StaleKinds ==
    ASSUME NEW ls
    PROVE  LET within == {Library(l) : l \in ls}
               lists  == {<<"search">>, <<"every-recording">>} IN
           /\ StaleAfter("library", ls) = within \cup lists \cup {AllLibraries, <<"trash">>}
           /\ StaleAfter("recording", ls) = within \cup lists \cup {Detail, <<"tags">>}
           /\ StaleAfter("recording-moved", ls) = within \cup lists \cup {Detail, AllLibraries}
           /\ StaleAfter("recording-lifecycle", ls) = within \cup lists \cup {Detail, <<"trash">>, AllLibraries}
           /\ StaleAfter("trash-destroyed", ls) =
                {<<"trash">>, AllLibraries, <<"recordings">>, <<"search">>, <<"tags">>, Status}
           /\ StaleAfter("upload", ls) = within \cup lists \cup {AllLibraries}
           /\ StaleAfter("transcription", ls) = lists \cup {Detail, AllLibraries}
           /\ StaleAfter("share", ls) = {Shares(l) : l \in ls} \cup {AllLibraries}
           /\ StaleAfter("account", ls) = {Me}
           /\ StaleAfter("session", ls) = {Sessions}
           /\ StaleAfter("administration", ls) = {<<"admin">>}
           /\ StaleAfter("provider", ls) = {}
BY DEF StaleAfter


\* What is overlooked, kind by kind.
LEMMA OverlookedKinds ==
    /\ Overlooked("library") = {Detail, Transcription, Transcripts, TagsTyped, Status}
    /\ Overlooked("recording-lifecycle") = {TagsTyped, Status}
    /\ Overlooked("upload") = {Status} /\ Overlooked("transcription") = {Status}
    /\ Overlooked("account") = {AllLibraries, Users, Detail, Provider, Status} \cup
                                  UNION {{Library(l), Shares(l)} : l \in Libraries}
    /\ Overlooked("administration") = {Detail, Transcription} \cup UNION {Listed(l) : l \in Libraries}
    /\ Overlooked("provider") = {Status}
BY DEF Overlooked

\* The writes, one by one.
LEMMA WhichWrite ==
    ASSUME Held \in Libraries, NEW x \in Writes
    PROVE  \/ x \in {CreateLibrary, DestroyTrash, UpdateAccount, EndSessions, Account, TestProvider,
                     Edit(Held), Turn(Held), Transcribe(Held), JobAction(Held)}
           \/ \E l \in Libraries : x \in {UpdateLibrary(l), MoveLibrary(l), EditTree(l), Share(l), Bulk(l), Upload(l)}
           \/ \E l, k \in Libraries : x = MoveRecording(l, k)
<1>1. \/ x \in {CreateLibrary, DestroyTrash, UpdateAccount, EndSessions, Account, TestProvider,
                Edit(Held), Turn(Held), Transcribe(Held), JobAction(Held)}
      \/ \E l \in Libraries : x \in WritesOf(l)
    BY DEF Writes
<1>2. ASSUME NEW l \in Libraries, x \in WritesOf(l), x \notin {MoveRecording(Held, l), MoveRecording(l, Held)}
      PROVE  x \in {UpdateLibrary(l), MoveLibrary(l), EditTree(l), Share(l), Bulk(l), Upload(l)}
    BY <1>2 DEF WritesOf
<1> QED
    BY <1>1, <1>2

\* Of every write, what it changes is reached, replaced by its answer, or among what is known to
\* be overlooked.
Covered(x, q) ==
    \/ Reached(StaleAfter(x.kind, x.libraries), q)
    \/ q \in Overlooked(x.kind)
    \/ x.kind = "provider" /\ q = Provider

LEMMA NothingForgotten ==
    ASSUME Held \in Libraries, NEW x \in Writes
    PROVE  \A q \in x.changes : Covered(x, q)
<1>1. CASE x = CreateLibrary
    <2>1. {AllLibraries} \subseteq StaleAfter(x.kind, x.libraries)
        BY <1>1, StaleKinds DEF CreateLibrary, Write
    <2> QED
        BY <1>1, <2>1, Reaching, OverlookedKinds DEF CreateLibrary, Write, Covered, Listed, OfIt
<1>2. ASSUME NEW l \in Libraries, x = UpdateLibrary(l) PROVE \A q \in x.changes : Covered(x, q)
    <2>1. {AllLibraries} \subseteq StaleAfter(x.kind, x.libraries)
        BY <1>2, StaleKinds DEF UpdateLibrary, Write
    <2> QED
        BY <1>2, <2>1, Reaching, OverlookedKinds DEF UpdateLibrary, Write, Covered, Listed, OfIt
<1>3. ASSUME NEW l \in Libraries, x = MoveLibrary(l) PROVE \A q \in x.changes : Covered(x, q)
    <2>1. {AllLibraries, <<"search">>, <<"every-recording">>, <<"trash">>} \subseteq StaleAfter(x.kind, x.libraries)
        BY <1>3, StaleKinds DEF MoveLibrary, Write
    <2> QED
        BY <1>3, <2>1, Reaching, OverlookedKinds DEF MoveLibrary, Write, Covered, Listed, OfIt
<1>4. ASSUME NEW l \in Libraries, x = EditTree(l) PROVE \A q \in x.changes : Covered(x, q)
    <2>1. {AllLibraries, <<"search">>, <<"every-recording">>} \subseteq StaleAfter(x.kind, x.libraries)
        BY <1>4, StaleKinds DEF EditTree, Write
    <2> QED
        BY <1>4, <2>1, Reaching, OverlookedKinds DEF EditTree, Write, Covered, Listed, OfIt
<1>5. ASSUME NEW l \in Libraries, x = Share(l) PROVE \A q \in x.changes : Covered(x, q)
    <2>1. {Shares(l)} \subseteq StaleAfter(x.kind, x.libraries)
        BY <1>5, StaleKinds DEF Share, Write
    <2> QED
        BY <1>5, <2>1, Reaching DEF Share, Write, Covered, Listed, OfIt
<1>6. CASE x = Edit(Held)
    <2>1. {Library(Held), Detail, <<"tags">>, <<"search">>, <<"every-recording">>} \subseteq StaleAfter(x.kind, x.libraries)
        BY <1>6, StaleKinds DEF Edit, Write
    <2> QED
        BY <1>6, <2>1, Reaching DEF Edit, Write, Covered, Listed, OfIt
<1>7. CASE x = Turn(Held)
    <2>1. {AllLibraries, Detail, <<"trash">>, <<"search">>, <<"every-recording">>} \subseteq StaleAfter(x.kind, x.libraries)
        BY <1>7, StaleKinds DEF Turn, Write
    <2> QED
        BY <1>7, <2>1, Reaching, OverlookedKinds DEF Turn, Write, Covered, Listed, OfIt
<1>8. CASE x = DestroyTrash
    <2>1. {<<"trash">>, <<"recordings">>, <<"tags">>, Status} \subseteq StaleAfter(x.kind, x.libraries)
        BY <1>8, StaleKinds DEF DestroyTrash, Write
    <2> QED
        BY <1>8, <2>1, Reaching DEF DestroyTrash, Write, Covered, Listed, OfIt
<1>9. ASSUME NEW l \in Libraries, x = Bulk(l) PROVE \A q \in x.changes : Covered(x, q)
    <2>1. {AllLibraries, <<"search">>, <<"every-recording">>, <<"trash">>} \subseteq StaleAfter(x.kind, x.libraries)
        BY <1>9, StaleKinds DEF Bulk, Write
    <2> QED
        BY <1>9, <2>1, Reaching, OverlookedKinds DEF Bulk, Write, Covered, Listed, OfIt
<1>10. ASSUME NEW l \in Libraries, x = Upload(l) PROVE \A q \in x.changes : Covered(x, q)
    <2>1. {AllLibraries, <<"search">>} \subseteq StaleAfter(x.kind, x.libraries)
        BY <1>10, StaleKinds DEF Upload, Write
    <2> QED
        BY <1>10, <2>1, Reaching, OverlookedKinds DEF Upload, Write, Covered, Listed, OfIt
<1>11. CASE x = Transcribe(Held)
    <2>1. {AllLibraries, Detail, <<"search">>, <<"every-recording">>} \subseteq StaleAfter(x.kind, x.libraries)
        BY <1>11, StaleKinds DEF Transcribe, Write
    <2> QED
        BY <1>11, <2>1, Reaching, OverlookedKinds DEF Transcribe, Write, Covered, Listed, OfIt
<1>12. CASE x = UpdateAccount
    <2>1. {Me} \subseteq StaleAfter(x.kind, x.libraries)
        BY <1>12, StaleKinds DEF UpdateAccount, Write
    <2> QED
        BY <1>12, <2>1, Reaching, OverlookedKinds DEF UpdateAccount, Write, Covered, Listed, OfIt
<1>13. CASE x = EndSessions
    <2>1. {Sessions} \subseteq StaleAfter(x.kind, x.libraries)
        BY <1>13, StaleKinds DEF EndSessions, Write
    <2> QED
        BY <1>13, <2>1, Reaching DEF EndSessions, Write, Covered, Listed, OfIt
<1>14. CASE x = Account
    <2>1. {<<"admin">>} \subseteq StaleAfter(x.kind, x.libraries)
        BY <1>14, StaleKinds DEF Account, Write
    <2> QED
        BY <1>14, <2>1, Reaching, OverlookedKinds DEF Account, Write, Covered, Listed, OfIt
<1>15. CASE x = JobAction(Held)
    <2>1. {<<"admin">>} \subseteq StaleAfter(x.kind, x.libraries)
        BY <1>15, StaleKinds DEF JobAction, Write
    <2> QED
        BY <1>15, <2>1, Reaching, OverlookedKinds DEF JobAction, Write, Covered, Listed, OfIt
<1>16. ASSUME NEW l \in Libraries, NEW k \in Libraries, x = MoveRecording(l, k)
      PROVE  \A q \in x.changes : Covered(x, q)
    <2>1. {AllLibraries, Detail, <<"search">>, <<"every-recording">>} \subseteq StaleAfter(x.kind, x.libraries)
        BY <1>16, StaleKinds DEF MoveRecording, Write
    <2> QED
        BY <1>16, <2>1, Reaching DEF MoveRecording, Write, Covered, Listed, OfIt
<1>17. CASE x = TestProvider
    BY <1>17, OverlookedKinds DEF TestProvider, Write, Covered
<1> QED
    BY <1>1, <1>2, <1>3, <1>4, <1>5, <1>6, <1>7, <1>8, <1>9, <1>10, <1>11, <1>12, <1>13, <1>14, <1>15, <1>16, <1>17,
       WhichWrite

Keys == {AllLibraries, Detail, Transcription, Transcripts, Favourites, Results, TagsTyped, TrashedAudio,
         TrashedLibraries, Me, Sessions, Status, Users}

\* The provider's copy is changed by a check of the provider and by a new name, and only by these.
LEMMA ProviderChanges ==
    ASSUME Held \in Libraries, NEW x \in Writes
    PROVE  /\ Provider \in x.changes => x.kind = "provider" \/ Provider \in Overlooked(x.kind)
           /\ x.kind = "provider" => Provider \in x.changes
<1>1. \A q \in Keys : q # Provider
    BY DEF Keys, AllLibraries, Detail, Transcription, Transcripts, Favourites, Results, TagsTyped, TrashedAudio,
        TrashedLibraries, Me, Sessions, Status, Users, Provider
<1>2. \A l : \A q \in {Library(l), Audio(l), Shares(l), Tree(l)} : q # Provider
    BY DEF Library, Audio, Shares, Tree, Provider
<1> USE DEF Write
<1>3. CASE x = UpdateAccount
    BY <1>3 DEF UpdateAccount, Overlooked
<1>4. CASE x = TestProvider
    BY <1>4 DEF TestProvider
<1>5. CASE \E l, k \in Libraries :
              x \in {CreateLibrary, UpdateLibrary(l), MoveLibrary(l), EditTree(l), Share(l), Edit(Held), Turn(Held),
                    DestroyTrash, Bulk(l), Upload(l), Transcribe(Held), EndSessions, Account, JobAction(Held),
                    MoveRecording(l, k)}
    BY <1>1, <1>2, <1>5 DEF CreateLibrary, UpdateLibrary, MoveLibrary, EditTree, Share, Edit, MoveRecording,
        Turn, DestroyTrash, Bulk, Upload, Transcribe, EndSessions, Account, JobAction, Listed, OfIt, Keys
<1> QED
    <2>1. CASE \E l \in Libraries : x \in {UpdateLibrary(l), MoveLibrary(l), EditTree(l), Share(l), Bulk(l), Upload(l)}
        BY <1>5, <2>1
    <2>2. CASE \E l, k \in Libraries : x = MoveRecording(l, k)
        BY <1>5, <2>2
    <2>3. CASE x \in {CreateLibrary, DestroyTrash, EndSessions, Account, Edit(Held), Turn(Held), Transcribe(Held),
                      JobAction(Held)}
        BY <1>5, <2>3
    <2> QED
        BY <1>3, <1>4, <2>1, <2>2, <2>3, WhichWrite

LEMMA FeltFacts ==
    ASSUME Held \in Libraries, NEW q \in Queries, NEW x \in Felt[q]
    PROVE  /\ x.changes \in BOOLEAN /\ x.reaches \in BOOLEAN /\ x.overlooked \in BOOLEAN
           /\ x.replaces \in BOOLEAN /\ x.settles \in BOOLEAN
           /\ x.changes => x.reaches \/ x.overlooked \/ x.replaces
           /\ x.replaces => x.changes
           /\ \A y \in Felt[q] : x.replaces /\ y.changes /\ ~y.replaces => y.overlooked
<1>1. PICK a \in Writes : x = ToCopy(a, q)
    BY DEF Felt
<1>2. x.changes => x.reaches \/ x.overlooked \/ x.replaces
    BY <1>1, NothingForgotten DEF ToCopy, Covered, Reached
<1>3. x.replaces => x.changes
    BY <1>1, ProviderChanges DEF ToCopy
<1>4. ASSUME NEW y \in Felt[q], x.replaces, y.changes, ~y.replaces PROVE y.overlooked
    <2>1. PICK b \in Writes : y = ToCopy(b, q)
        BY DEF Felt
    <2> QED
        BY <1>1, <1>4, <2>1, ProviderChanges DEF ToCopy
<1>5. /\ x.changes \in BOOLEAN /\ x.reaches \in BOOLEAN /\ x.overlooked \in BOOLEAN
      /\ x.replaces \in BOOLEAN /\ x.settles \in BOOLEAN
    BY <1>1 DEF ToCopy
<1> QED
    BY <1>2, <1>3, <1>4, <1>5

LEMMA TrashingFacts == \A q \in Queries : ~Trashing[q].replaces
BY DEF Trashing, ToCopy, Turn, Write

-----------------------------------------------------------------------------
(***************************************************************************)
(* The copy the cache keeps: module Freshness, whose variables are, in      *)
(* order, query, screen, copy, calls, truth and excused.                    *)
(***************************************************************************)
Copies == [read : K!NotRead..MaxWrites, marked : BOOLEAN, failed : BOOLEAN, crossed : BOOLEAN,
           sample : 0..MaxWrites, phase : {"idle", "asked", "carried"}]

Pages == {"any", "here", "gone"}
Requests(q, t) == [id : 1..MaxWrites, write : Felt[q], n : 0..t, done : BOOLEAN, page : Pages]

\* The n-th write was answered to nobody, or its answer is still to come.
Accounted(n, cs, ex) == n \in ex \/ \E c \in cs : c.n = n

\* Whatever a copy that counts as fresh has not seen is accounted for, and so it will be for what
\* is on its way, unless a write crossed it.
Remembers(c, cs, t, ex) ==
    /\ c.read # K!NotRead /\ ~c.marked => \A n \in (c.read + 1)..t : Accounted(n, cs, ex)
    /\ c.phase = "carried" /\ ~c.crossed => \A n \in (c.sample + 1)..t : Accounted(n, cs, ex)

Undone(cs) == {c \in cs : ~c.done}

\* What a request may be: carried out, it has the number of its write, which is excused from the
\* start if it is overlooked; the one that waits on the recording's page is a trashing.
OneRequest(c, q, s, ex) ==
    /\ ~c.done => c.n = 0
    /\ c.done => IF c.write.changes THEN c.n > 0 /\ (c.write.overlooked => c.n \in ex) ELSE c.n = 0
    /\ c.page = "here" => s.name = "recording"
    /\ c.page # "any" => c.write = Trashing[q]

\* There is one check of the provider at a time, and what is written after it was carried out is
\* overlooked.
OneCheck(cs, t, ex) ==
    \A c \in cs : c.write.replaces =>
        /\ \A d \in cs : d.write.replaces => c = d
        /\ c.done => \A n \in (c.n + 1)..t : n \in ex

CallsHold ==
    /\ v4 \subseteq Requests(v1, v5)
    /\ IsFiniteSet(v4) /\ Cardinality(Undone(v4)) + v5 <= MaxWrites
    /\ \A c \in v4 : OneRequest(c, v1, v2, v6)
    /\ OneCheck(v4, v5, v6)

FreshTyped ==
    /\ v1 \in Queries /\ v2 \in Screens[v1] /\ v3 \in Copies
    /\ v5 \in 0..MaxWrites /\ v6 \subseteq 1..v5

FreshIInv ==
    FreshTyped /\ CallsHold /\ Remembers(v3, v4, v5, v6) /\ K!StaleIsReadAgain

-----------------------------------------------------------------------------
(* What the cache makes of a copy *)

LEMMA AskedAgain ==
    ASSUME NEW c \in Copies
    PROVE  /\ c.read \in K!NotRead..MaxWrites /\ c.sample \in 0..MaxWrites
           /\ c.phase \in {"idle", "asked", "carried"}
           /\ K!Ask(c) \in Copies /\ K!Ask(c).phase = "asked"
           /\ K!Ask(c).read = c.read /\ K!Ask(c).marked = c.marked
BY DEF Copies, K!Ask

\* Told that it is stale, a copy is marked, and what is on its way is asked for again or will be
\* known to have been crossed.
LEMMA ToldStale ==
    ASSUME NEW c \in Copies, NEW on \in BOOLEAN
    PROVE  LET i == K!Invalidated(c, on) IN
           /\ i \in Copies /\ i.marked
           /\ i.phase = "carried" => i.crossed
           /\ c.phase # "idle" \/ on => i.phase # "idle"
<1> DEFINE m == [c EXCEPT !.marked = TRUE]
           x == [c EXCEPT !.marked = TRUE, !.crossed = @ \/ c.phase = "carried"]
<1>1. /\ m \in Copies /\ m.marked /\ m.phase = c.phase
      /\ K!Ask(m) \in Copies /\ K!Ask(m).marked /\ K!Ask(m).phase = "asked"
    BY DEF Copies, K!Ask
<1>2. x \in Copies /\ x.marked /\ x.phase = c.phase /\ (c.phase = "carried" => x.crossed)
    BY DEF Copies
<1>3. CASE c.phase = "idle" \/ (on /\ c.read # K!NotRead)
    <2>1. K!Invalidated(c, on) = IF on THEN K!Ask(m) ELSE m
        BY <1>3 DEF K!Invalidated
    <2> HIDE DEF m
    <2> QED
        BY <1>1, <1>3, <2>1
<1>4. CASE ~(c.phase = "idle" \/ (on /\ c.read # K!NotRead))
    <2>1. K!Invalidated(c, on) = x
        BY <1>4 DEF K!Invalidated
    <2> HIDE DEF x
    <2> QED
        BY <1>2, <1>4, <2>1
<1> QED
    BY <1>3, <1>4

\* A screen that mounts asks at most for what nobody was asking for.
LEMMA ScreenMounts ==
    ASSUME NEW c \in Copies, NEW s, NEW old \in BOOLEAN
    PROVE  LET m == K!Mounted(c, s, old) IN
           /\ m \in Copies /\ m.read = c.read /\ m.marked = c.marked
           /\ m.phase = "carried" => c.phase = "carried" /\ m.crossed = c.crossed /\ m.sample = c.sample
           /\ K!On(s) /\ m.marked => m.phase # "idle"
BY AskedAgain DEF K!Mounted, K!AskIdle

LEMMA MarkedRemembers ==
    ASSUME NEW c, c.marked, c.phase = "carried" => c.crossed, NEW cs, NEW t, NEW ex
    PROVE  Remembers(c, cs, t, ex)
BY DEF Remembers

\* What was accounted for is accounted for still.
LEMMA StillRemembers ==
    ASSUME NEW c \in Copies, NEW t \in Nat, NEW cs, NEW ex, NEW ds, NEW fx, Remembers(c, cs, t, ex),
           \A n \in 1..t : Accounted(n, cs, ex) => Accounted(n, ds, fx)
    PROVE  Remembers(c, ds, t, fx)
<1>1. /\ c.read # K!NotRead => \A n \in (c.read + 1)..t : n \in 1..t
      /\ \A n \in (c.sample + 1)..t : n \in 1..t
    BY ScreensAssumption DEF Copies, K!NotRead
<1> QED
    BY <1>1 DEF Remembers

LEMMA MountedRemembers ==
    ASSUME NEW c \in Copies, NEW s, NEW old \in BOOLEAN, NEW cs, NEW t, NEW ex, Remembers(c, cs, t, ex)
    PROVE  Remembers(K!Mounted(c, s, old), cs, t, ex)
BY ScreenMounts DEF Remembers

-----------------------------------------------------------------------------
(* What becomes of the requests *)

LEMMA FewerRequests ==
    ASSUME FreshTyped, CallsHold, NEW cs \in SUBSET v4
    PROVE  /\ cs \subseteq Requests(v1, v5) /\ IsFiniteSet(cs) /\ Cardinality(Undone(cs)) + v5 <= MaxWrites
           /\ \A c \in cs : OneRequest(c, v1, v2, v6)
           /\ OneCheck(cs, v5, v6)
<1>1. IsFiniteSet(v4) /\ IsFiniteSet(cs)
    BY FS_Subset DEF CallsHold
<1>2. IsFiniteSet(Undone(v4)) /\ Undone(cs) \subseteq Undone(v4)
    BY <1>1, FS_Subset DEF Undone
<1>3. Cardinality(Undone(cs)) <= Cardinality(Undone(v4)) /\ Cardinality(Undone(cs)) \in Nat /\ Cardinality(Undone(v4)) \in Nat
    BY <1>2, FS_Subset, FS_CardinalityType
<1> QED
    BY <1>1, <1>3, ScreensAssumption DEF CallsHold, OneCheck, FreshTyped

\* More excused keeps every request what it was.
LEMMA MoreExcused ==
    ASSUME NEW cs, NEW q, NEW s, NEW t, NEW ex, NEW fx, ex \subseteq fx,
           \A c \in cs : OneRequest(c, q, s, ex), OneCheck(cs, t, ex)
    PROVE  (\A c \in cs : OneRequest(c, q, s, fx)) /\ OneCheck(cs, t, fx)
BY DEF OneRequest, OneCheck

\* The person goes elsewhere: the requests are the same, but nobody waits where they were.
Gone(c) == IF c.page = "here" THEN [c EXCEPT !.page = "gone"] ELSE c

LEMMA ElsewhereIs ==
    ASSUME NEW cs, NEW q \in Queries, NEW t \in Nat, cs \subseteq Requests(q, t)
    PROVE  /\ K!Elsewhere(cs) = {Gone(c) : c \in cs}
           /\ \A c \in cs : /\ Gone(c) \in Requests(q, t) /\ Gone(c).page # "here"
                            /\ Gone(c).n = c.n /\ Gone(c).done = c.done /\ Gone(c).write = c.write
                            /\ Gone(c).page = "any" <=> c.page = "any"
<1>1. K!Elsewhere(cs) = {Gone(c) : c \in cs}
    BY DEF K!Elsewhere, Gone
<1>2. ASSUME NEW c \in cs
      PROVE  /\ Gone(c) \in Requests(q, t) /\ Gone(c).page # "here"
             /\ Gone(c).n = c.n /\ Gone(c).done = c.done /\ Gone(c).write = c.write
             /\ Gone(c).page = "any" <=> c.page = "any"
    <2>1. c \in Requests(q, t)
        OBVIOUS
    <2> QED
        BY <2>1 DEF Gone, Requests, Pages
<1> QED
    BY <1>1, <1>2

LEMMA ElsewhereKeepsThem ==
    ASSUME NEW cs, NEW q \in Queries, NEW t \in 0..MaxWrites, NEW s, NEW u, NEW ex,
           cs \subseteq Requests(q, t), IsFiniteSet(cs), Cardinality(Undone(cs)) + t <= MaxWrites,
           \A c \in cs : OneRequest(c, q, s, ex), OneCheck(cs, t, ex)
    PROVE  LET ds == K!Elsewhere(cs) IN
           /\ ds \subseteq Requests(q, t) /\ IsFiniteSet(ds) /\ Cardinality(Undone(ds)) + t <= MaxWrites
           /\ \A c \in ds : OneRequest(c, q, u, ex)
           /\ OneCheck(ds, t, ex)
           /\ \A n \in 1..t : Accounted(n, cs, ex) => Accounted(n, ds, ex)
<1> DEFINE ds == K!Elsewhere(cs)
<1>0. t \in Nat /\ MaxWrites \in Nat
    BY ScreensAssumption
<1>1. /\ ds = {Gone(c) : c \in cs}
      /\ \A c \in cs : /\ Gone(c) \in Requests(q, t) /\ Gone(c).page # "here"
                       /\ Gone(c).n = c.n /\ Gone(c).done = c.done /\ Gone(c).write = c.write
                       /\ Gone(c).page = "any" <=> c.page = "any"
    BY <1>0, ElsewhereIs
<1> HIDE DEF ds
<1>2. ds \subseteq Requests(q, t)
    BY <1>1
<1>3. IsFiniteSet(ds)
    <2> DEFINE f == [c \in cs |-> Gone(c)]
    <2>1. f \in Surjection(cs, ds)
        BY <1>1 DEF Surjection
    <2> QED
        BY <2>1, FS_Surjection
<1>4. Cardinality(Undone(ds)) <= Cardinality(Undone(cs)) /\ Cardinality(Undone(ds)) \in Nat
      /\ Cardinality(Undone(cs)) \in Nat
    <2> DEFINE f == [c \in Undone(cs) |-> Gone(c)]
    <2>1. f \in Surjection(Undone(cs), Undone(ds))
        BY <1>1 DEF Surjection, Undone
    <2>2. IsFiniteSet(Undone(cs))
        BY FS_Subset DEF Undone
    <2> QED
        BY <2>1, <2>2, FS_Surjection, FS_CardinalityType
<1>5. ASSUME NEW c \in ds PROVE OneRequest(c, q, u, ex)
    <2>1. PICK d \in cs : c = Gone(d)
        BY <1>1
    <2> QED
        BY <1>1, <2>1 DEF OneRequest
<1>6. OneCheck(ds, t, ex)
    BY <1>1 DEF OneCheck
<1>7. ASSUME NEW n \in 1..t, Accounted(n, cs, ex) PROVE Accounted(n, ds, ex)
    BY <1>1, <1>7 DEF Accounted
<1> QED
    BY <1>0, <1>2, <1>3, <1>4, <1>5, <1>6, <1>7 DEF ds

-----------------------------------------------------------------------------
(* The steps *)

\* Going somewhere.
LEMMA VisitKeeps ==
    ASSUME FreshIInv, NEW s \in Screens[v1], K!Visit(s)
    PROVE  FreshIInv'
<1>1. PICK old \in BOOLEAN : v3' = K!Mounted(v3, s, old)
    BY DEF K!Visit
<1>2. v2' = s /\ v4' = K!Elsewhere(v4) /\ UNCHANGED <<v1, v5, v6>>
    BY DEF K!Visit
<1>3. v1 \in Queries /\ v3 \in Copies /\ v5 \in 0..MaxWrites /\ v5 \in Nat
    BY ScreensAssumption DEF FreshIInv, FreshTyped
<1>4. CallsHold' /\ \A n \in 1..v5 : Accounted(n, v4, v6) => Accounted(n, v4', v6')
    BY <1>2, <1>3, ElsewhereKeepsThem DEF FreshIInv, CallsHold
<1>5. FreshTyped'
    BY <1>1, <1>2, <1>3, ScreenMounts DEF FreshIInv, FreshTyped
<1>6. Remembers(v3', v4', v5', v6')
    BY <1>1, <1>2, <1>3, <1>4, ScreenMounts, MountedRemembers, StillRemembers DEF FreshIInv
<1>7. K!StaleIsReadAgain'
    BY <1>1, <1>2, <1>3, ScreenMounts DEF K!StaleIsReadAgain, K!On
<1> QED
    BY <1>4, <1>5, <1>6, <1>7 DEF FreshIInv

\* Module Freshness counts as this one does.
LEMMA SameCount == \A xs : K!Cardinality(xs) = Cardinality(xs)
BY DEF K!Cardinality, Cardinality

\* A write is made.
LEMMA FreeName ==
    ASSUME FreshIInv, Cardinality(v4) + v5 < MaxWrites
    PROVE  \E i \in 1..MaxWrites : \A c \in v4 : c.id # i
<1> DEFINE f == [c \in v4 |-> c.id]
           ids == {c.id : c \in v4}
<1>1. f \in Surjection(v4, ids)
    BY DEF Surjection
<1>2. IsFiniteSet(v4) /\ v5 \in Nat /\ MaxWrites \in Nat
    BY ScreensAssumption DEF FreshIInv, CallsHold, FreshTyped
<1>3. IsFiniteSet(ids) /\ Cardinality(ids) <= Cardinality(v4) /\ Cardinality(v4) \in Nat /\ Cardinality(ids) \in Nat
    BY <1>1, <1>2, FS_Surjection, FS_CardinalityType
<1>4. Cardinality(ids) < MaxWrites
    BY <1>2, <1>3
<1>5. ~(1..MaxWrites \subseteq ids)
    <2> SUFFICES ASSUME 1..MaxWrites \subseteq ids PROVE FALSE
        OBVIOUS
    <2>1. Cardinality(1..MaxWrites) = MaxWrites
        BY <1>2, FS_Interval
    <2>2. Cardinality(1..MaxWrites) <= Cardinality(ids)
        BY <1>3, FS_Subset
    <2> HIDE DEF ids
    <2> QED
        BY <1>2, <1>3, <1>4, <2>1, <2>2
<1> QED
    BY <1>5

LEMMA CallKeeps ==
    ASSUME FreshIInv, NEW x \in Felt[v1], NEW page \in Pages, K!Call(x, page),
           page = "here" => v2.name = "recording",
           page # "any" => x = Trashing[v1] /\ ~x.replaces,
           x.replaces => \A c \in v4 : ~c.write.replaces
    PROVE  FreshIInv'
<1>0. /\ v4' = v4 \cup {[id |-> K!FreeId, write |-> x, n |-> 0, done |-> FALSE, page |-> page]}
      /\ UNCHANGED <<v1, v2, v3, v5, v6>> /\ Cardinality(v4) + v5 < MaxWrites
    BY SameCount DEF K!Call
<1>1. PICK i \in 1..MaxWrites :
            v4' = v4 \cup {[id |-> i, write |-> x, n |-> 0, done |-> FALSE, page |-> page]}
    <2>1. K!FreeId \in 1..MaxWrites
        BY <1>0, FreeName DEF K!FreeId
    <2> QED
        BY <1>0, <2>1
<1> DEFINE new == [id |-> i, write |-> x, n |-> 0, done |-> FALSE, page |-> page]
<1>2. /\ UNCHANGED <<v1, v2, v3, v5, v6>> /\ Cardinality(v4) + v5 < MaxWrites
      /\ v5 \in Nat /\ MaxWrites \in Nat /\ v5 \in 0..MaxWrites /\ v3 \in Copies
      /\ v4 \subseteq Requests(v1, v5) /\ IsFiniteSet(v4)
    BY <1>0, ScreensAssumption DEF FreshIInv, FreshTyped, CallsHold
<1>3. /\ new \in Requests(v1, v5) /\ v4' = v4 \cup {new}
      /\ new.write = x /\ new.n = 0 /\ ~new.done /\ new.page = page
    <2>1. 0 \in 0..v5 /\ i \in 1..MaxWrites /\ page \in Pages
        BY <1>2
    <2>2. new \in Requests(v1, v5)
        BY <2>1 DEF Requests
    <2> QED
        BY <1>1, <2>2
<1> HIDE DEF new
<1>4. IsFiniteSet(v4') /\ Cardinality(Undone(v4')) + v5 <= MaxWrites
    <2>1. /\ IsFiniteSet(v4 \cup {new}) /\ Cardinality(v4) \in Nat
          /\ Cardinality(v4 \cup {new}) = IF new \in v4 THEN Cardinality(v4) ELSE Cardinality(v4) + 1
        BY <1>2, FS_AddElement, FS_CardinalityType
    <2>2. Undone(v4') \subseteq v4 \cup {new}
        BY <1>3 DEF Undone
    <2>3. /\ IsFiniteSet(Undone(v4')) /\ Cardinality(Undone(v4')) <= Cardinality(v4 \cup {new})
          /\ Cardinality(Undone(v4')) \in Nat
        BY <2>1, <2>2, FS_Subset, FS_CardinalityType
    <2> QED
        BY <1>2, <1>3, <2>1, <2>3
<1>5. \A c \in v4' : OneRequest(c, v1, v2, v6)
    BY <1>3 DEF OneRequest, FreshIInv, CallsHold
<1>6. OneCheck(v4', v5, v6)
    BY <1>3 DEF FreshIInv, CallsHold, OneCheck
<1>7. CallsHold'
    BY <1>2, <1>3, <1>4, <1>5, <1>6 DEF CallsHold
<1>8. \A n \in 1..v5 : Accounted(n, v4, v6) => Accounted(n, v4', v6')
    BY <1>2, <1>3 DEF Accounted
<1>9. Remembers(v3', v4', v5', v6')
    BY <1>2, <1>8, StillRemembers DEF FreshIInv
<1> QED
    BY <1>2, <1>7, <1>9 DEF FreshIInv, FreshTyped, K!StaleIsReadAgain, K!On

\* The instance carries a write out.
LEMMA FreshCarryOutKeeps ==
    ASSUME FreshIInv, NEW c \in v4, K!CarryOut(c)
    PROVE  FreshIInv'
<1> DEFINE t == IF c.write.changes THEN v5 + 1 ELSE v5
           n == IF c.write.changes THEN v5 + 1 ELSE 0
           new == [c EXCEPT !.done = TRUE, !.n = n]
<1>1. /\ ~c.done /\ v5' = t /\ v4' = (v4 \ {c}) \cup {new}
      /\ v6' = IF n > 0 /\ c.write.overlooked THEN v6 \cup {n} ELSE v6
      /\ UNCHANGED <<v1, v2, v3>>
    BY DEF K!CarryOut
<1>2. /\ v1 \in Queries /\ c \in Requests(v1, v5) /\ v5 \in Nat /\ MaxWrites \in Nat /\ IsFiniteSet(v4)
      /\ c.write \in Felt[v1] /\ c.n = 0
    BY <1>1, ScreensAssumption DEF FreshIInv, FreshTyped, CallsHold, Requests, OneRequest
<1>3. Undone(v4') = Undone(v4) \ {c} /\ c \in Undone(v4) /\ ~(new \in Undone(v4'))
    BY <1>1, <1>2 DEF Undone, Requests
<1>4. v5' \in 0..MaxWrites /\ v5 <= v5' /\ n \in 0..v5' /\ Cardinality(Undone(v4')) + v5' <= MaxWrites
    <2>1. IsFiniteSet(Undone(v4)) /\ Cardinality(Undone(v4)) \in Nat
        BY <1>2, FS_Subset, FS_CardinalityType DEF Undone
    <2>2. /\ Cardinality(Undone(v4')) = Cardinality(Undone(v4)) - 1 /\ Cardinality(Undone(v4')) \in Nat
        BY <1>3, <2>1, FS_RemoveElement, FS_CardinalityType
    <2> QED
        BY <1>1, <1>2, <2>1, <2>2 DEF FreshIInv, CallsHold
<1>5. v4' \subseteq Requests(v1, v5') /\ IsFiniteSet(v4')
    <2>1. new \in Requests(v1, v5')
        BY <1>2, <1>4 DEF Requests
    <2>2. v4 \subseteq Requests(v1, v5')
        BY <1>2, <1>4 DEF FreshIInv, CallsHold, Requests
    <2>3. IsFiniteSet(v4')
        BY <1>1, <1>2, FS_RemoveElement, FS_AddElement
    <2> QED
        BY <1>1, <2>1, <2>2, <2>3
<1>6. new.write = c.write /\ new.page = c.page /\ new.done /\ new.n = n
    BY <1>2 DEF Requests
<1>7. v6 \subseteq v6' /\ v6' \subseteq 1..v5' /\ (n > 0 /\ c.write.overlooked => n \in v6')
    BY <1>1, <1>2, <1>4 DEF FreshIInv, FreshTyped
<1> HIDE DEF new
<1>8. ASSUME NEW d \in v4' PROVE OneRequest(d, v1, v2, v6')
    <2>1. CASE d \in v4
        BY <1>7, <2>1 DEF FreshIInv, CallsHold, OneRequest
    <2>2. CASE d = new
        BY <1>2, <1>6, <1>7, <2>2 DEF FreshIInv, CallsHold, OneRequest
    <2> QED
        BY <1>1, <2>1, <2>2
<1>9. OneCheck(v4', v5', v6')
    <2> SUFFICES ASSUME NEW d \in v4', d.write.replaces
                 PROVE  /\ \A e \in v4' : e.write.replaces => d = e
                        /\ d.done => \A m \in (d.n + 1)..v5' : m \in v6'
        BY DEF OneCheck
    <2>1. \A e \in v4' : e.write.replaces => d = e
        BY <1>1, <1>6 DEF FreshIInv, CallsHold, OneCheck
    <2>2. CASE d = new
        <3>1. c.write.changes
            BY <1>2, <1>6, <2>2, ScreensAssumption, FeltFacts
        <3> QED
            BY <1>1, <1>2, <1>6, <2>1, <2>2, <3>1
    <2>3. CASE d \in v4 /\ d # new
        <3>1. ~c.write.replaces
            BY <1>1, <1>6, <2>1, <2>3
        <3>2. d.write \in Felt[v1] /\ d.n \in Nat
            BY <1>2, <2>3 DEF FreshIInv, CallsHold, Requests
        <3>3. c.write.changes => c.write.overlooked
            BY <1>2, <3>1, <3>2, ScreensAssumption, FeltFacts
        <3>4. d.done => \A m \in (d.n + 1)..v5 : m \in v6
            BY <2>3 DEF FreshIInv, CallsHold, OneCheck
        <3> QED
            BY <1>1, <1>2, <1>7, <2>1, <3>2, <3>3, <3>4
    <2> QED
        BY <1>1, <2>2, <2>3
<1>10. \A m \in 1..v5 : Accounted(m, v4, v6) => Accounted(m, v4', v6')
    BY <1>1, <1>2, <1>7 DEF Accounted
<1>11. c.write.changes => Accounted(v5', v4', v6')
    BY <1>1, <1>6 DEF Accounted
<1>12. v3 \in Copies /\ Remembers(v3, v4', v5, v6')
    BY <1>2, <1>10, StillRemembers DEF FreshIInv, FreshTyped
<1>13. Remembers(v3', v4', v5', v6')
    <2>1. \A lo \in Int : \A m \in lo..v5' : m \in lo..v5 \/ (c.write.changes /\ m = v5')
        BY <1>1, <1>2
    <2>2. v3.read + 1 \in Int /\ v3.sample + 1 \in Int
        BY <1>12, ScreensAssumption DEF Copies, K!NotRead
    <2> QED
        BY <1>1, <1>11, <1>12, <2>1, <2>2 DEF Remembers
<1> QED
    BY <1>1, <1>4, <1>5, <1>7, <1>8, <1>9, <1>13 DEF FreshIInv, FreshTyped, CallsHold, K!StaleIsReadAgain, K!On

\* A request leaves the page: what it wrote is accounted for without it, or the cache is told.
LEMMA RequestGone ==
    ASSUME FreshIInv, NEW c \in v4, v4' = v4 \ {c}, UNCHANGED <<v1, v2, v5>>,
           v6' = v6 \/ (c.n # 0 /\ v6' = v6 \cup {c.n}),
           \/ v3' = v3 /\ (c.n = 0 \/ c.n \in v6')
           \/ v3' = K!Invalidated(v3, K!On(v2))
    PROVE  FreshIInv'
<1>1. /\ v1 \in Queries /\ v5 \in Nat /\ v5 \in 0..MaxWrites /\ v3 \in Copies /\ c.n \in 0..v5 /\ K!On(v2) \in BOOLEAN
    BY ScreensAssumption DEF FreshIInv, FreshTyped, CallsHold, Requests, K!On
<1>2. v6 \subseteq v6' /\ v6' \subseteq 1..v5
    <2>1. v6 \subseteq 1..v5 /\ (c.n # 0 => c.n \in 1..v5)
        BY <1>1 DEF FreshIInv, FreshTyped
    <2> QED
        BY <2>1
<1>3. CallsHold'
    <2>1. /\ v4' \subseteq Requests(v1, v5) /\ IsFiniteSet(v4') /\ Cardinality(Undone(v4')) + v5 <= MaxWrites
          /\ \A d \in v4' : OneRequest(d, v1, v2, v6)
          /\ OneCheck(v4', v5, v6)
        BY FewerRequests DEF FreshIInv
    <2>2. (\A d \in v4' : OneRequest(d, v1, v2, v6')) /\ OneCheck(v4', v5, v6')
        BY <1>2, <2>1, MoreExcused
    <2> QED
        BY <2>1, <2>2 DEF CallsHold
<1>4. FreshTyped'
    BY <1>1, <1>2, ToldStale DEF FreshIInv, FreshTyped
<1>5. CASE v3' = v3 /\ (c.n = 0 \/ c.n \in v6')
    <2>1. \A n \in 1..v5 : Accounted(n, v4, v6) => Accounted(n, v4', v6')
        BY <1>2, <1>5 DEF Accounted
    <2>2. Remembers(v3', v4', v5', v6')
        BY <1>1, <1>5, <2>1, StillRemembers DEF FreshIInv
    <2> QED
        BY <1>3, <1>4, <1>5, <2>2 DEF FreshIInv, K!StaleIsReadAgain, K!On
<1>6. CASE v3' = K!Invalidated(v3, K!On(v2))
    <2>1. v3'.marked /\ (v3'.phase = "carried" => v3'.crossed) /\ (K!On(v2) => v3'.phase # "idle")
        BY <1>1, <1>6, ToldStale
    <2>2. Remembers(v3', v4', v5', v6')
        BY <2>1, MarkedRemembers
    <2>3. K!StaleIsReadAgain'
        BY <2>1 DEF K!StaleIsReadAgain, K!On
    <2> QED
        BY <1>3, <1>4, <2>2, <2>3 DEF FreshIInv
<1> QED
    BY <1>5, <1>6

\* A write is refused, and only a bulk destruction tells the cache.
LEMMA FreshRefusedKeeps ==
    ASSUME FreshIInv, NEW c \in v4, K!Refused(c)
    PROVE  FreshIInv'
<1>1. c.n = 0
    BY DEF FreshIInv, CallsHold, OneRequest, K!Refused
<1>2. v4' = v4 \ {c} /\ UNCHANGED <<v1, v2, v5, v6>> /\ (v3' = v3 \/ v3' = K!Invalidated(v3, K!On(v2)))
    BY DEF K!Refused
<1> QED
    BY <1>1, <1>2, RequestGone

\* Without an answer, what was carried out is told of by a bulk destruction and excused otherwise.
LEMMA LostKeeps ==
    ASSUME FreshIInv, NEW c \in v4, K!Lost(c)
    PROVE  FreshIInv'
<1>1. v4' = v4 \ {c} /\ UNCHANGED <<v1, v2, v5>>
    BY DEF K!Lost
<1>2. CASE c.write.settles
    BY <1>1, <1>2, RequestGone DEF K!Lost
<1>3. CASE ~c.write.settles
    <2>1. v3' = v3 /\ v6' = IF c.n = 0 THEN v6 ELSE v6 \cup {c.n}
        BY <1>3 DEF K!Lost
    <2> QED
        BY <1>1, <2>1, RequestGone
<1> QED
    BY <1>2, <1>3

\* An answer arrives.  A check of the provider is the copy; any other marks it, or changed nothing
\* of it, or was overlooked.
LEMMA AnsweredTells ==
    ASSUME FreshIInv, NEW c \in v4, K!Answered(c)
    PROVE  FreshIInv'
<1>1. /\ c.done /\ v4' = v4 \ {c} /\ v3' = K!Told(c) /\ UNCHANGED <<v1, v2, v5, v6>>
    BY DEF K!Answered
<1>2. /\ v1 \in Queries /\ c.write \in Felt[v1] /\ v3 \in Copies /\ v5 \in Nat /\ v5 \in 0..MaxWrites
      /\ MaxWrites \in Nat /\ c.n \in 0..v5
    BY ScreensAssumption DEF FreshIInv, FreshTyped, CallsHold, Requests
<1>3. /\ c.write.changes => c.write.reaches \/ c.write.overlooked \/ c.write.replaces
      /\ c.write.replaces => c.write.changes
    BY <1>2, ScreensAssumption, FeltFacts
<1>4. IF c.write.changes THEN c.n > 0 /\ (c.write.overlooked => c.n \in v6) ELSE c.n = 0
    BY <1>1 DEF FreshIInv, CallsHold, OneRequest
<1>5. CASE ~c.write.replaces
    <2>1. v3' = IF c.write.reaches THEN K!Invalidated(v3, K!On(v2)) ELSE v3
        BY <1>1, <1>5 DEF K!Told
    <2> QED
        BY <1>1, <1>3, <1>4, <1>5, <2>1, RequestGone
<1>6. CASE c.write.replaces
    <2>1. v3' = [v3 EXCEPT !.read = c.n, !.marked = FALSE, !.failed = FALSE, !.crossed = @ \/ v3.phase = "carried"]
        BY <1>1, <1>6 DEF K!Told
    <2>2. c.n \in K!NotRead..MaxWrites
        BY <1>2 DEF K!NotRead
    <2>3. /\ v3' \in Copies /\ v3'.read = c.n /\ ~v3'.marked /\ v3'.phase = v3.phase
          /\ v3.phase = "carried" => v3'.crossed
        BY <1>2, <2>1, <2>2 DEF Copies
    <2>4. \A n \in (c.n + 1)..v5 : n \in v6
        BY <1>1, <1>6 DEF FreshIInv, CallsHold, OneCheck
    <2>5. Remembers(v3', v4', v5', v6')
        BY <1>1, <2>3, <2>4 DEF Remembers, Accounted
    <2>6. CallsHold'
        BY <1>1, FewerRequests DEF FreshIInv, CallsHold
    <2> QED
        BY <1>1, <2>3, <2>5, <2>6 DEF FreshIInv, FreshTyped, K!StaleIsReadAgain, K!On
<1> QED
    BY <1>5, <1>6

\* The answer to a trashing takes the person to the library.  Waited for, it has told the cache;
\* its page gone, it tells nobody and is excused.
LEMMA LeavesKeeps ==
    ASSUME FreshIInv, NEW c \in v4, K!Leaves(c)
    PROVE  FreshIInv'
<1> DEFINE k == IF c.page = "here" /\ c.write.reaches THEN K!Invalidated(v3, v1 \in Frame) ELSE v3
<1>1. PICK old \in BOOLEAN : v3' = IF Shelf = v2 THEN k ELSE K!Mounted(k, Shelf, old)
    BY DEF K!Leaves
<1>2. /\ c.done /\ c.page # "any" /\ v2' = Shelf /\ v4' = K!Elsewhere(v4 \ {c}) /\ UNCHANGED <<v1, v5>>
      /\ v6' = IF c.page = "here" \/ c.n = 0 THEN v6 ELSE v6 \cup {c.n}
    BY DEF K!Leaves
<1>3. /\ v1 \in Queries /\ c.write \in Felt[v1] /\ v3 \in Copies /\ v5 \in Nat /\ v5 \in 0..MaxWrites
      /\ MaxWrites \in Nat /\ c.n \in 0..v5 /\ (v1 \in Frame) \in BOOLEAN
    BY ScreensAssumption DEF FreshIInv, FreshTyped, CallsHold, Requests
<1>4. /\ c.write.changes => c.write.reaches \/ c.write.overlooked
      /\ IF c.write.changes THEN c.n > 0 /\ (c.write.overlooked => c.n \in v6) ELSE c.n = 0
      /\ c.page = "here" => v2.name = "recording"
    <2>1. c.write = Trashing[v1] /\ (c.page = "here" => v2.name = "recording")
        BY <1>2 DEF FreshIInv, CallsHold, OneRequest
    <2>2. ~c.write.replaces
        BY <1>3, <2>1, TrashingFacts
    <2> QED
        BY <1>2, <1>3, <2>1, <2>2, ScreensAssumption, FeltFacts DEF FreshIInv, CallsHold, OneRequest
<1>5. v6 \subseteq v6' /\ v6' \subseteq 1..v5
    <2>1. v6 \subseteq 1..v5 /\ (c.n # 0 => c.n \in 1..v5)
        BY <1>3 DEF FreshIInv, FreshTyped
    <2> QED
        BY <1>2, <2>1
<1>6. /\ CallsHold'
      /\ \A n \in 1..v5 : Accounted(n, v4 \ {c}, v6') => Accounted(n, v4', v6')
    <2>1. /\ v4 \ {c} \subseteq Requests(v1, v5) /\ IsFiniteSet(v4 \ {c})
          /\ Cardinality(Undone(v4 \ {c})) + v5 <= MaxWrites
          /\ \A d \in v4 \ {c} : OneRequest(d, v1, v2, v6)
          /\ OneCheck(v4 \ {c}, v5, v6)
        BY FewerRequests DEF FreshIInv
    <2>2. (\A d \in v4 \ {c} : OneRequest(d, v1, v2, v6')) /\ OneCheck(v4 \ {c}, v5, v6')
        <3> DEFINE ds == v4 \ {c}
        <3>1. (\A d \in ds : OneRequest(d, v1, v2, v6)) /\ OneCheck(ds, v5, v6)
            BY <2>1
        <3> HIDE DEF ds
        <3>2. (\A d \in ds : OneRequest(d, v1, v2, v6')) /\ OneCheck(ds, v5, v6')
            BY <1>5, <3>1, MoreExcused
        <3> QED
            BY <3>2 DEF ds
    <2> QED
        BY <1>2, <1>3, <2>1, <2>2, ElsewhereKeepsThem DEF CallsHold
<1>7. k \in Copies /\ Remembers(k, v4', v5, v6')
    <2>1. CASE c.page = "here" /\ c.write.reaches
        <3>1. k = K!Invalidated(v3, v1 \in Frame)
            BY <2>1
        <3> HIDE DEF k
        <3> QED
            BY <1>3, <3>1, ToldStale, MarkedRemembers
    <2>2. CASE ~(c.page = "here" /\ c.write.reaches)
        <3>1. c.n = 0 \/ c.n \in v6'
            BY <1>2, <1>4, <1>5, <2>2
        <3>2. \A n \in 1..v5 : Accounted(n, v4, v6) => Accounted(n, v4', v6')
            BY <1>5, <1>6, <3>1 DEF Accounted
        <3> QED
            BY <1>3, <2>2, <3>2, StillRemembers DEF FreshIInv
    <2> QED
        BY <2>1, <2>2
<1>8. Shelf = v2 => k = v3
    BY <1>4 DEF Shelf
<1> HIDE DEF k
<1>9. v3' \in Copies /\ Remembers(v3', v4', v5', v6')
    BY <1>1, <1>2, <1>7, ScreenMounts, MountedRemembers
<1>10. K!StaleIsReadAgain'
    <2>1. CASE Shelf = v2
        BY <1>1, <1>2, <1>8, <2>1 DEF FreshIInv, K!StaleIsReadAgain, K!On
    <2>2. CASE Shelf # v2
        BY <1>1, <1>2, <1>7, <2>2, ScreenMounts DEF K!StaleIsReadAgain, K!On
    <2> QED
        BY <2>1, <2>2
<1>11. FreshTyped'
    <2>1. Shelf \in Screens[v1]
        BY <1>3, ScreensAssumption DEF Screens, Everywhere, Shelf
    <2> QED
        BY <1>2, <1>5, <1>9, <2>1 DEF FreshIInv, FreshTyped
<1> QED
    BY <1>6, <1>9, <1>10, <1>11 DEF FreshIInv

\* Reading the copy, from the instance's side and from the screen's.
LEMMA ReadsKeep ==
    ASSUME FreshIInv, K!Sample \/ K!Arrive \/ K!ReadFails \/ K!Again \/ K!Forget
    PROVE  FreshIInv'
<1>1. UNCHANGED <<v1, v2, v4, v5>>
    BY DEF K!Sample, K!Arrive, K!ReadFails, K!Again, K!Forget
<1>2. v3 \in Copies /\ v5 \in 0..MaxWrites /\ v5 \in Nat /\ MaxWrites \in Nat /\ v3.sample \in Nat
    BY ScreensAssumption DEF FreshIInv, FreshTyped, Copies
<1>3. v6 \subseteq v6' /\ v6' \subseteq 1..v5
    BY <1>2 DEF K!Sample, K!Arrive, K!ReadFails, K!Again, K!Forget, FreshIInv, FreshTyped
<1>4. CallsHold'
    BY <1>1, <1>3, MoreExcused DEF FreshIInv, CallsHold
<1>5. v3' \in Copies /\ Remembers(v3', v4', v5', v6') /\ K!StaleIsReadAgain'
    <2>1. CASE K!Sample
        <3>1. v3' = [v3 EXCEPT !.phase = "carried", !.sample = v5] /\ v6' = v6
            BY <2>1 DEF K!Sample
        <3>2. /\ v3' \in Copies /\ v3'.read = v3.read /\ v3'.marked = v3.marked /\ v3'.sample = v5
              /\ v3'.phase = "carried"
            BY <1>2, <3>1 DEF Copies
        <3> QED
            BY <1>1, <1>2, <3>1, <3>2 DEF FreshIInv, Remembers, K!StaleIsReadAgain
    <2>2. CASE K!Arrive
        <3>1. /\ v3' = [v3 EXCEPT !.phase = "idle", !.read = v3.sample, !.sample = 0, !.marked = FALSE,
                                  !.failed = FALSE, !.crossed = FALSE]
              /\ v6' = IF v3.crossed THEN v6 \cup ((v3.sample + 1)..v5) ELSE v6
              /\ v3.phase = "carried"
            BY <2>2 DEF K!Arrive
        <3>2. v3.sample \in K!NotRead..MaxWrites /\ 0 \in 0..MaxWrites
            BY <1>2 DEF K!NotRead, Copies
        <3>3. v3' \in Copies /\ v3'.read = v3.sample /\ ~v3'.marked /\ v3'.phase = "idle"
            BY <1>2, <3>1, <3>2 DEF Copies
        <3>4. \A n \in (v3.sample + 1)..v5 : Accounted(n, v4, v6')
            BY <3>1 DEF FreshIInv, Remembers, Accounted
        <3> QED
            BY <1>1, <3>3, <3>4 DEF Remembers, K!StaleIsReadAgain
    <2>3. CASE K!ReadFails
        <3>1. v3' = [v3 EXCEPT !.phase = "idle", !.sample = 0, !.marked = TRUE, !.failed = TRUE, !.crossed = FALSE]
            BY <2>3 DEF K!ReadFails
        <3>2. 0 \in 0..MaxWrites
            BY <1>2
        <3>3. v3' \in Copies /\ v3'.marked /\ v3'.failed /\ v3'.phase = "idle"
            BY <1>2, <3>1, <3>2 DEF Copies
        <3> QED
            BY <3>3, MarkedRemembers DEF K!StaleIsReadAgain
    <2>4. CASE K!Again
        <3>1. v3' = K!Ask(v3) /\ v6' = v6
            BY <2>4 DEF K!Again
        <3> QED
            BY <1>1, <1>2, <3>1, AskedAgain DEF FreshIInv, Remembers, K!StaleIsReadAgain
    <2>5. CASE K!Forget
        <3>1. /\ v3' = [v3 EXCEPT !.read = K!NotRead, !.marked = FALSE, !.failed = FALSE]
              /\ v3.phase = "idle"
            BY <2>5 DEF K!Forget
        <3>2. K!NotRead \in K!NotRead..MaxWrites
            BY <1>2 DEF K!NotRead
        <3>3. v3' \in Copies /\ v3'.read = K!NotRead /\ v3'.phase = "idle"
            BY <1>2, <3>1, <3>2 DEF Copies
        <3> QED
            BY <3>3 DEF Remembers, K!StaleIsReadAgain
    <2> QED
        BY <2>1, <2>2, <2>3, <2>4, <2>5
<1> QED
    BY <1>1, <1>3, <1>4, <1>5 DEF FreshIInv, FreshTyped

LEMMA FreshStep ==
    ASSUME FreshIInv, K!Next
    PROVE  FreshIInv'
<1>1. ASSUME NEW s \in Screens[v1], K!Visit(s) PROVE FreshIInv'
    BY <1>1, VisitKeeps
<1>2. CASE K!Trash
    <2>1. ~Trashing[v1].replaces
        BY TrashingFacts DEF FreshIInv, FreshTyped
    <2> QED
        BY <1>2, <2>1, CallKeeps DEF K!Trash, Pages
<1>3. ASSUME NEW x \in Felt[v1], K!Press(x) PROVE FreshIInv'
    BY <1>3, CallKeeps DEF K!Press, Pages
<1>4. ASSUME NEW c \in v4, K!CarryOut(c) \/ K!Refused(c) \/ K!Answered(c) \/ K!Leaves(c) \/ K!Lost(c)
      PROVE  FreshIInv'
    BY <1>4, FreshCarryOutKeeps, FreshRefusedKeeps, AnsweredTells, LeavesKeeps, LostKeeps
<1>5. CASE K!Sample \/ K!Arrive \/ K!ReadFails \/ K!Again \/ K!Forget
    BY <1>5, ReadsKeep
<1> QED
    BY <1>1, <1>2, <1>3, <1>4, <1>5 DEF K!Next

FreshHold == scene = "cache" => FreshIInv

\* What the cache calls fresh has seen every write of the page's whose answer has come, save those
\* it was never told of, and what it knows to be stale on the screen is being read again: whatever
\* the copy is of, for any number of libraries, writes, screens gone through, refetches, refusals
\* and answers lost.
THEOREM CopiesStayFresh == ScreensSpec => []FreshInv
<1>1. ScreensInit => FreshHold
    <2> SUFFICES ASSUME ScreensInit, scene = "cache" PROVE FreshIInv
        BY DEF FreshHold
    <2>1. K!Init /\ MaxWrites \in Nat
        BY ScreensAssumption DEF ScreensInit
    <2>2. /\ v1 \in Queries /\ v2 = [name |-> "home", of |-> Nowhere] /\ v4 = {} /\ v5 = 0 /\ v6 = {}
          /\ v3 = [read |-> K!NotRead, marked |-> FALSE, failed |-> FALSE, sample |-> 0, crossed |-> FALSE,
                   phase |-> IF K!On(v2) THEN "asked" ELSE "idle"]
        BY <2>1 DEF K!Init
    <2>3. v2 \in Screens[v1]
        BY <2>2 DEF Screens, Everywhere
    <2>4. v3 \in Copies /\ v3.read = K!NotRead /\ v3.phase # "carried"
        <3>1. K!NotRead \in K!NotRead..MaxWrites /\ 0 \in 0..MaxWrites
            BY <2>1 DEF K!NotRead
        <3> QED
            BY <2>2, <3>1 DEF Copies
    <2>5. CallsHold
        <3>1. Undone(v4) = {} /\ IsFiniteSet(v4) /\ Cardinality(Undone(v4)) = 0
            BY <2>2, FS_EmptySet DEF Undone
        <3> QED
            BY <2>1, <2>2, <3>1 DEF CallsHold, OneCheck
    <2> QED
        BY <2>1, <2>2, <2>3, <2>4, <2>5 DEF FreshIInv, FreshTyped, Remembers, K!StaleIsReadAgain
<1>2. FreshHold /\ [AnyStep]_all => FreshHold'
    <2> SUFFICES ASSUME FreshHold, [AnyStep]_all, scene' = "cache" PROVE FreshIInv'
        BY DEF FreshHold
    <2>1. FreshIInv /\ (K!Next \/ UNCHANGED shared)
        BY SceneStays DEF FreshHold
    <2>2. CASE UNCHANGED shared
        BY <2>1, <2>2 DEF shared, FreshIInv, FreshTyped, CallsHold, K!StaleIsReadAgain, K!On
    <2> QED
        BY <2>1, <2>2, FreshStep
<1>3. FreshHold => FreshInv
    <2> SUFFICES ASSUME FreshIInv PROVE K!FreshInv
        BY DEF FreshHold, FreshInv
    <2>1. K!TypeOK
        BY DEF FreshIInv, FreshTyped, CallsHold, Copies, Requests, K!TypeOK
    <2>2. K!SeesItsOwnWrites
        BY DEF FreshIInv, Remembers, Accounted, K!SeesItsOwnWrites
    <2> QED
        BY <2>1, <2>2 DEF FreshIInv, K!FreshInv
<1> QED
    BY <1>1, <1>2, <1>3, PTL DEF ScreensSpec, AnyStep

-----------------------------------------------------------------------------
(* A form and what becomes of what it sends: module Forms.  v1 is the form, *)
(* v2 its place, v3 its words, v4 what it follows, v5 the calls, v6 how     *)
(* many were sent, v7 what was carried out last, v8 what was not said.      *)

\* What the code's forms have in common: a refusal that is left to a form is drawn by it, and such a
\* form follows what it sends and stays; a form that hears of what it does not follow is emptied by
\* closing, and forgets what it followed then.
LEMMA FormFacts ==
    ASSUME NEW f \in F!Forms
    PROVE  /\ f.typed \in BOOLEAN /\ f.follows \in BOOLEAN /\ f.waits \in BOOLEAN
           /\ f.says \subseteq f.draws
           /\ f.says # {} => f.follows /\ "shuts" \notin f.onSend
           /\ f.waits => f.follows
           /\ f.typed /\ "empties" \notin f.onSend =>
                /\ "shuts" \notin f.onSend
                /\ "empties" \in f.onShut => "resets" \in f.onShut
                /\ f.hears = "any" => "resets" \in f.onShut /\ f.onDone = {"shuts"}
           /\ "resets" \in f.onShut => "shuts" \notin f.onSend
<1>1. CASE f = F!Button
    BY <1>1 DEF F!Button
<1>2. CASE f = F!SignInForm
    BY <1>2 DEF F!SignInForm, F!Button, F!Refusals
<1>3. CASE f = F!PasswordForm
    BY <1>3 DEF F!PasswordForm, F!Button, F!Refusals
<1>4. CASE f = F!AddPerson
    BY <1>4 DEF F!AddPerson, F!Button
<1>5. CASE f = F!ProviderTest
    BY <1>5 DEF F!ProviderTest, F!Button
<1>6. CASE f = F!Fields
    BY <1>6 DEF F!Fields, F!Button
<1>7. CASE f = F!AccountFields
    BY <1>7 DEF F!AccountFields, F!Fields, F!Button, F!Refusals
<1>8. CASE f = F!CreateLibraryDialog
    BY <1>8 DEF F!CreateLibraryDialog, F!Button, F!Dialog, F!Refusals
<1>9. CASE f = F!TrashLibraryDialog
    BY <1>9 DEF F!TrashLibraryDialog, F!Button, F!Dialog, F!Refusals
<1>10. CASE f = F!NewAccount
    BY <1>10 DEF F!NewAccount, F!Button, F!Dialog, F!Refusals
<1>11. CASE f = F!SetPasswordDialog
    BY <1>11 DEF F!SetPasswordDialog, F!Button, F!Dialog, F!Refusals
<1>12. CASE f = F!EndOthers
    BY <1>12 DEF F!EndOthers, F!Button, F!Dialog
<1>13. CASE f = F!Revoke
    BY <1>13 DEF F!Revoke, F!Button, F!Dialog
<1>14. CASE f = F!TrashRecording
    BY <1>14 DEF F!TrashRecording, F!Button, F!Dialog
<1> QED
    BY <1>1, <1>2, <1>3, <1>4, <1>5, <1>6, <1>7, <1>8, <1>9, <1>10, <1>11, <1>12, <1>13, <1>14 DEF F!Forms

\* What is sent is known apart by its number, and the one that is followed is waited for.
SentApart ==
    /\ v6 \in 0..MaxSent /\ v4.id <= v6
    /\ \A c \in v5 : c.id <= v6
    /\ \A c, d \in v5 : c.id = d.id => c = d
    /\ \A c \in v5 : v4.id = c.id => v4.result = "pending"
    /\ ~v1.follows => v4 = F!NoWrite

\* A form that says what was refused, or sends one thing at a time, is open over what it has not
\* turned from, and follows it.
StillFollowed ==
    /\ v1.says # {} => \A c \in v5 : c.parted = {} => v2 = "open" /\ v4.id = c.id
    /\ v1.waits => \A c \in v5 : "closed" \in c.parted \/ v4.id = c.id

\* What is waited for or refused is still in the form.
StillWritten ==
    /\ v1.typed /\ "empties" \notin v1.onSend /\ v4.result \in {"pending"} \cup F!Refusals => v3
    /\ "resets" \in v1.onShut /\ v2 # "open" => v4 = F!NoWrite

\* What is carried out and followed was carried out last.
CarriedOutLast ==
    v1.waits =>
        /\ v4.result = "done" => v7.id = v4.id \/ "closed" \in v7.parted
        /\ \A c \in v5 : c.done /\ v4.id = c.id => v7.id = c.id \/ "closed" \in v7.parted

FormsIInv == F!TypeOK /\ F!RefusalsAreSaid /\ SentApart /\ StillFollowed /\ StillWritten /\ CarriedOutLast

\* Turning from what was sent changes nothing else of it.
Turned(cs, ds) ==
    /\ \A d \in ds : \E c \in cs : d.id = c.id /\ d.done = c.done /\ c.parted \subseteq d.parted
    /\ \A d, e \in ds : d.id = e.id => d = e
    /\ ds \subseteq F!Calls

LEMMA TurnsAway ==
    ASSUME NEW cs \in SUBSET F!Calls, \A c, d \in cs : c.id = d.id => c = d
    PROVE  /\ Turned(cs, F!Superseded(cs)) /\ \A d \in F!Superseded(cs) : d.parted # {}
           /\ Turned(cs, F!PartedFrom(cs)) /\ \A d \in F!PartedFrom(cs) : "closed" \in d.parted
           /\ Turned(cs, F!Orphaned(cs)) /\ \A d \in F!Orphaned(cs) : "closed" \in d.parted
<1> DEFINE again(c) == [c EXCEPT !.parted = @ \cup {"sent again"}]
           shut(c)  == [c EXCEPT !.parted = @ \cup {"closed"}]
           lost(c)  == [c EXCEPT !.parted = @ \cup {"closed"}, !.orphan = TRUE]
<1>1. \A c \in F!Calls : /\ again(c) \in F!Calls /\ again(c).id = c.id /\ again(c).done = c.done
                         /\ again(c).parted = c.parted \cup {"sent again"}
    BY DEF F!Calls
<1>2. \A c \in F!Calls : /\ shut(c) \in F!Calls /\ shut(c).id = c.id /\ shut(c).done = c.done
                         /\ shut(c).parted = c.parted \cup {"closed"}
    BY DEF F!Calls
<1>3. \A c \in F!Calls : /\ lost(c) \in F!Calls /\ lost(c).id = c.id /\ lost(c).done = c.done
                         /\ lost(c).parted = c.parted \cup {"closed"}
    BY DEF F!Calls
<1>4. /\ F!Superseded(cs) = {again(c) : c \in cs} /\ F!PartedFrom(cs) = {shut(c) : c \in cs}
      /\ F!Orphaned(cs) = {lost(c) : c \in cs}
    BY DEF F!Superseded, F!PartedFrom, F!Orphaned
<1> HIDE DEF again, shut, lost
<1>5. Turned(cs, {again(c) : c \in cs}) /\ \A d \in {again(c) : c \in cs} : d.parted # {}
    <2>1. \A d \in {again(c) : c \in cs} : "sent again" \in d.parted
        <3> SUFFICES ASSUME NEW c \in cs PROVE "sent again" \in again(c).parted
            OBVIOUS
        <3>1. again(c).parted = c.parted \cup {"sent again"}
            BY <1>1
        <3> QED
            BY <3>1
    <2>2. \A d : "sent again" \in d.parted => d.parted # {}
        OBVIOUS
    <2>3. \A d \in {again(c) : c \in cs} :
              \E c \in cs : d.id = c.id /\ d.done = c.done /\ c.parted \subseteq d.parted
        <3> SUFFICES ASSUME NEW c \in cs
                     PROVE  /\ again(c).id = c.id /\ again(c).done = c.done
                            /\ c.parted \subseteq again(c).parted
            OBVIOUS
        <3>1. c \in F!Calls
            OBVIOUS
        <3> QED
            BY <1>1, <3>1
    <2>4. \A d, e \in {again(c) : c \in cs} : d.id = e.id => d = e
        <3> SUFFICES ASSUME NEW c \in cs, NEW d \in cs, again(c).id = again(d).id
                     PROVE  again(c) = again(d)
            OBVIOUS
        <3>1. c.id = d.id
            BY <1>1
        <3> QED
            BY <3>1
    <2>5. {again(c) : c \in cs} \subseteq F!Calls
        BY <1>1
    <2> QED
        BY <2>1, <2>2, <2>3, <2>4, <2>5 DEF Turned
<1>6. Turned(cs, {shut(c) : c \in cs}) /\ \A d \in {shut(c) : c \in cs} : "closed" \in d.parted
    BY <1>2 DEF Turned
<1>7. Turned(cs, {lost(c) : c \in cs}) /\ \A d \in {lost(c) : c \in cs} : "closed" \in d.parted
    BY <1>3 DEF Turned
<1> QED
    BY <1>4, <1>5, <1>6, <1>7

\* What each of the invariants says of the form and its calls as they are.
LEMMA FormTyped ==
    ASSUME FormsIInv
    PROVE  /\ v1 \in F!Forms /\ v2 \in {"open", "shut", "gone"} /\ v3 \in BOOLEAN
           /\ v4 \in [id : 0..MaxSent, result : {"idle", "pending", "done"} \cup F!Refusals]
           /\ v5 \subseteq F!Calls /\ v7 \in F!Calls \cup {F!Never} /\ v8 \subseteq F!Calls
           /\ MaxSent \in Nat /\ v6 \in 0..MaxSent
           /\ \A c, d \in v5 : c.id = d.id => c = d
           /\ \A c \in v5 : c.id \in 1..MaxSent /\ c.id <= v6
BY FormFacts, ScreensAssumption DEF FormsIInv, F!TypeOK, SentApart, F!Calls

\* Closing the form, and leaving its page.
LEMMA ShutKeeps ==
    ASSUME FormsIInv, NEW cs \in SUBSET v5, F!Shut(cs) \/ F!Gone(cs),
           UNCHANGED <<v1, v6, v7, v8>>
    PROVE  FormsIInv'
<1>1. Turned(cs, v5') /\ (\A d \in v5' : "closed" \in d.parted) /\ v2' \in {"shut", "gone"}
    BY FormTyped, TurnsAway DEF F!Shut, F!Gone
<1>2. v4' = F!NoWrite \/ v4' = v4
    BY DEF F!Shut, F!Gone
<1>3. F!NoWrite \in [id : 0..MaxSent, result : {"idle", "pending", "done"} \cup F!Refusals]
    BY FormTyped DEF F!NoWrite
<1>4. F!TypeOK'
    BY <1>1, <1>2, <1>3, FormTyped DEF F!TypeOK, Turned, F!Shut, F!Gone
<1>5. SentApart'
    <2>1. \A d \in v5' : d.id # 0
        BY <1>1, FormTyped DEF Turned
    <2> QED
        BY <1>1, <1>2, <2>1, FormTyped DEF FormsIInv, SentApart, Turned, F!NoWrite
<1>6. StillFollowed'
    BY <1>1 DEF StillFollowed
<1>7. StillWritten'
    <2>1. F!NoWrite.result \notin {"pending"} \cup F!Refusals
        BY DEF F!NoWrite, F!Refusals
    <2>2. CASE F!Gone(cs)
        BY <2>1, <2>2 DEF F!Gone, StillWritten
    <2>3. CASE F!Shut(cs)
        BY <2>1, <2>3, FormTyped, FormFacts DEF F!Shut, StillWritten, FormsIInv
    <2> QED
        BY <2>2, <2>3
<1>8. CarriedOutLast'
    <2>1. \A d \in v5' : \E c \in v5 : d.id = c.id /\ d.done = c.done
        BY <1>1 DEF Turned
    <2>2. \A d \in v5' : d.id # 0
        BY <1>1, FormTyped DEF Turned
    <2> QED
        BY <1>2, <2>1, <2>2 DEF CarriedOutLast, FormsIInv, F!NoWrite
<1> QED
    BY <1>4, <1>5, <1>6, <1>7, <1>8 DEF FormsIInv, F!RefusalsAreSaid

LEMMA SendKeeps ==
    ASSUME FormsIInv, F!Send
    PROVE  FormsIInv'
<1> DEFINE new == [id |-> v6 + 1, done |-> FALSE, parted |-> {}, orphan |-> FALSE]
           wait == [id |-> v6 + 1, result |-> "pending"]
<1>1. /\ v2 = "open" /\ (v1.typed => v3) /\ ~(v1.waits /\ v4.result = "pending")
      /\ v6 < MaxSent /\ v6' = v6 + 1
      /\ v5' = F!Superseded(v5) \cup {new}
      /\ v4' = IF v1.follows THEN wait ELSE v4
      /\ v2' = IF "shuts" \in v1.onSend THEN "shut" ELSE v2
      /\ v3' = (v3 /\ "empties" \notin v1.onSend)
      /\ UNCHANGED <<v1, v7, v8>>
    BY DEF F!Send, F!Ready, F!Pending
<1>2. Turned(v5, F!Superseded(v5)) /\ \A d \in F!Superseded(v5) : d.parted # {}
    BY FormTyped, TurnsAway
<1>3. /\ new \in F!Calls /\ new.id = v6 + 1 /\ new.parted = {} /\ ~new.done
      /\ wait \in [id : 0..MaxSent, result : {"idle", "pending", "done"} \cup F!Refusals]
      /\ wait.id = v6 + 1 /\ wait.result = "pending"
    <2>1. v6 + 1 \in 1..MaxSent /\ v6 + 1 \in 0..MaxSent
        BY <1>1, FormTyped
    <2>2. new \in F!Calls
        BY <2>1 DEF F!Calls
    <2> QED
        BY <2>1, <2>2
<1> HIDE DEF new, wait
<1>4. \A d \in F!Superseded(v5) : d.id <= v6 /\ d.id \in 1..MaxSent
    BY <1>2, FormTyped DEF Turned
<1>5. F!TypeOK'
    <2>1. v3' \in BOOLEAN
        BY <1>1
    <2> QED
        BY <1>1, <1>2, <1>3, <2>1, FormTyped DEF F!TypeOK, Turned
<1>6. SentApart'
    <2>1. v6' \in 0..MaxSent /\ v4'.id <= v6' /\ \A c \in v5' : c.id <= v6'
        BY <1>1, <1>3, <1>4, FormTyped DEF SentApart, FormsIInv
    <2>2. \A c, d \in v5' : c.id = d.id => c = d
        BY <1>1, <1>2, <1>3, <1>4, FormTyped DEF Turned
    <2>3. ~v1.follows => v4 = F!NoWrite
        BY DEF SentApart, FormsIInv
    <2>4. \A c \in v5' : v4'.id = c.id => v4'.result = "pending"
        BY <1>1, <1>3, <1>4, <2>3, FormTyped DEF F!NoWrite
    <2> QED
        BY <1>1, <2>1, <2>2, <2>3, <2>4 DEF SentApart
<1>7. StillFollowed'
    <2>1. v1.waits => \A c \in v5 : "closed" \in c.parted
        BY <1>1 DEF StillFollowed, SentApart, FormsIInv
    <2> QED
        BY <1>1, <1>2, <1>3, <2>1, FormTyped, FormFacts DEF StillFollowed, Turned
<1>8. StillWritten'
    BY <1>1, <1>3, FormTyped, FormFacts DEF StillWritten, FormsIInv
<1>9. CarriedOutLast'
    BY <1>1, <1>2, <1>3, <1>4, FormTyped, FormFacts DEF CarriedOutLast
<1> QED
    BY <1>1, <1>5, <1>6, <1>7, <1>8, <1>9 DEF FormsIInv, F!RefusalsAreSaid

LEMMA FormCarriedOutKeeps ==
    ASSUME FormsIInv, NEW c \in v5, F!CarryOut(c)
    PROVE  FormsIInv'
<1> DEFINE done == [c EXCEPT !.done = TRUE]
<1>1. v5' = (v5 \ {c}) \cup {done} /\ v7' = c /\ UNCHANGED <<v1, v2, v3, v4, v6, v8>>
    BY DEF F!CarryOut
<1>2. c \in F!Calls
    BY FormTyped
<1>3. done \in F!Calls /\ done.id = c.id /\ done.parted = c.parted
    BY <1>2 DEF F!Calls
<1> HIDE DEF done
<1>4. F!TypeOK'
    BY <1>1, <1>2, <1>3, FormTyped DEF F!TypeOK
<1>5. SentApart' /\ StillFollowed' /\ StillWritten'
    BY <1>1, <1>3 DEF FormsIInv, SentApart, StillFollowed, StillWritten
<1>6. CarriedOutLast'
    BY <1>1, <1>3 DEF FormsIInv, SentApart, StillFollowed, CarriedOutLast
<1> QED
    BY <1>1, <1>4, <1>5, <1>6 DEF FormsIInv, F!RefusalsAreSaid

LEMMA FormRefusedKeeps ==
    ASSUME FormsIInv, NEW c \in v5, NEW why \in F!Refusals, F!Refused(c, why)
    PROVE  FormsIInv'
<1>1. /\ v5' = v5 \ {c} /\ UNCHANGED <<v1, v3, v6, v7>>
      /\ v4' = IF v4.id = c.id THEN [v4 EXCEPT !.result = why] ELSE v4
      /\ v2' = v2 \/ (v2' = "shut" /\ ~v1.follows)
      /\ v8' = v8 \/ (v8' = v8 \cup {c} /\ why \in v1.says
                      /\ ~(v2 = "open" /\ v4.id = c.id /\ why \in v1.draws))
    BY DEF F!Refused, F!Followed, F!Reported, F!Drawn
<1>2. /\ v4' \in [id : 0..MaxSent, result : {"idle", "pending", "done"} \cup F!Refusals]
      /\ v4'.id = v4.id /\ (v4.id # c.id => v4' = v4)
      /\ v4'.result = v4.result \/ v4'.result = why
    BY <1>1, FormTyped
<1>3. F!TypeOK'
    BY <1>1, <1>2, FormTyped DEF F!TypeOK
<1>4. SentApart'
    BY <1>1, <1>2, FormTyped DEF FormsIInv, SentApart, F!NoWrite
<1>5. StillFollowed'
    BY <1>1, <1>2, FormTyped, FormFacts DEF FormsIInv, StillFollowed
<1>6. StillWritten'
    <2>1. v4'.result \in {"pending"} \cup F!Refusals =>
              v4.result \in {"pending"} \cup F!Refusals
        BY <1>1, <1>2 DEF FormsIInv, SentApart
    <2>2. "resets" \in v1.onShut /\ v2' # "open" => v4' = F!NoWrite
        <3>1. v4 = F!NoWrite => v4' = v4
            BY <1>2, FormTyped DEF F!NoWrite
        <3>2. ~v1.follows => v4 = F!NoWrite
            BY DEF FormsIInv, SentApart
        <3> QED
            BY <1>1, <3>1, <3>2 DEF FormsIInv, StillWritten
    <2> QED
        BY <1>1, <2>1, <2>2 DEF FormsIInv, StillWritten
<1>7. CarriedOutLast'
    <2>1. "done" \notin F!Refusals
        BY DEF F!Refusals
    <2> QED
        BY <1>1, <1>2, <2>1 DEF FormsIInv, CarriedOutLast
<1>8. F!RefusalsAreSaid'
    <2>1. why \in v1.says => c.parted # {} \/ (v2 = "open" /\ v4.id = c.id /\ why \in v1.draws)
        BY FormTyped, FormFacts DEF FormsIInv, StillFollowed
    <2> QED
        BY <1>1, <2>1 DEF FormsIInv, F!RefusalsAreSaid
<1> QED
    BY <1>3, <1>4, <1>5, <1>6, <1>7, <1>8 DEF FormsIInv

LEMMA FormSucceededKeeps ==
    ASSUME FormsIInv, NEW c \in v5, F!Succeeded(c)
    PROVE  FormsIInv'
<1> DEFINE rest == v5 \ {c}
<1>1. UNCHANGED <<v1, v6, v7, v8>> /\ c.done
    BY DEF F!Succeeded
<1>2. CASE F!Gone(rest)
    BY <1>1, <1>2, ShutKeeps
<1>3. CASE /\ F!Shuts(c) /\ v3' = (v3 /\ ~F!Empties(c)) /\ v2' = "shut" /\ v5' = F!PartedFrom(rest)
           /\ v4' = IF "resets" \in v1.onShut THEN F!NoWrite
                    ELSE IF v4.id = c.id THEN [v4 EXCEPT !.result = "done"] ELSE v4
    <2>1. Turned(rest, v5') /\ \A d \in v5' : "closed" \in d.parted
        BY <1>3, FormTyped, TurnsAway
    <2>2. /\ v4' \in [id : 0..MaxSent, result : {"idle", "pending", "done"} \cup F!Refusals]
          /\ v4' = F!NoWrite \/ (v4'.id = v4.id /\ (v4.id = c.id => v4'.result = "done")
                                 /\ (v4.id # c.id => v4' = v4))
        BY <1>3, FormTyped DEF F!NoWrite
    <2>3. \A d \in v5' : d.id # 0 /\ d.id <= v6 /\ d.id # c.id
        BY <2>1, FormTyped DEF Turned
    <2>4. F!TypeOK'
        BY <1>1, <1>3, <2>1, <2>2, FormTyped DEF F!TypeOK, Turned
    <2>5. SentApart'
        <3>1. \A d \in v5' : v4.id = d.id => v4.result = "pending"
            BY <2>1 DEF Turned, FormsIInv, SentApart
        <3>2. ~v1.follows => v4' = F!NoWrite
            BY <2>2, <2>3, FormTyped DEF FormsIInv, SentApart, F!NoWrite
        <3>3. v4'.id <= v6
            BY <2>2, FormTyped DEF FormsIInv, SentApart, F!NoWrite
        <3> QED
            BY <1>1, <2>1, <2>2, <2>3, <3>1, <3>2, <3>3, FormTyped DEF SentApart, Turned, F!NoWrite
    <2>6. StillFollowed'
        BY <2>1 DEF StillFollowed
    <2>7. StillWritten'
        <3>1. v4'.result \in {"pending"} \cup F!Refusals /\ v1.typed /\ "empties" \notin v1.onSend => v3'
            <4> SUFFICES ASSUME v4'.result \in {"pending"} \cup F!Refusals, v1.typed, "empties" \notin v1.onSend
                         PROVE  v3'
                OBVIOUS
            <4>1. F!NoWrite.result \notin {"pending"} \cup F!Refusals /\ "done" \notin {"pending"} \cup F!Refusals
                BY DEF F!NoWrite, F!Refusals
            <4>2. v4' = v4 /\ v4.id # c.id /\ "resets" \notin v1.onShut
                BY <1>3, <2>2, <4>1
            <4>3. ~F!Heard(c)
                BY <4>2, FormTyped, FormFacts DEF F!Heard, F!Followed
            <4> QED
                BY <1>3, <4>3 DEF F!Shuts
        <3> QED
            BY <1>1, <1>3, <3>1 DEF StillWritten
    <2>8. CarriedOutLast'
        <3>1. v1.waits /\ v4.id = c.id => v7.id = c.id \/ "closed" \in v7.parted
            BY <1>1 DEF FormsIInv, CarriedOutLast
        <3>2. \A d \in v5' : \E e \in v5 : d.id = e.id /\ d.done = e.done
            BY <2>1 DEF Turned
        <3> QED
            BY <1>1, <2>2, <2>3, <3>1, <3>2, FormTyped DEF FormsIInv, CarriedOutLast, F!NoWrite
    <2> QED
        BY <1>1, <2>4, <2>5, <2>6, <2>7, <2>8 DEF FormsIInv, F!RefusalsAreSaid
<1>4. CASE /\ ~F!Shuts(c) /\ v3' = (v3 /\ ~F!Empties(c)) /\ v2' = v2 /\ v5' = rest
           /\ v4' = IF v4.id = c.id THEN [v4 EXCEPT !.result = "done"] ELSE v4
    <2>1. /\ v4' \in [id : 0..MaxSent, result : {"idle", "pending", "done"} \cup F!Refusals]
          /\ v4'.id = v4.id /\ (v4.id = c.id => v4'.result = "done") /\ (v4.id # c.id => v4' = v4)
        BY <1>4, FormTyped
    <2>2. F!TypeOK'
        BY <1>1, <1>4, <2>1, FormTyped DEF F!TypeOK
    <2>3. SentApart'
        BY <1>1, <1>4, <2>1, FormTyped DEF FormsIInv, SentApart, F!NoWrite
    <2>4. StillFollowed'
        BY <1>1, <1>4, <2>1 DEF FormsIInv, StillFollowed
    <2>5. StillWritten'
        <3>1. v4'.result \in {"pending"} \cup F!Refusals /\ v1.typed /\ "empties" \notin v1.onSend => v3'
            <4> SUFFICES ASSUME v4'.result \in {"pending"} \cup F!Refusals, v1.typed, "empties" \notin v1.onSend
                         PROVE  v3'
                OBVIOUS
            <4>1. F!NoWrite.result \notin {"pending"} \cup F!Refusals /\ "done" \notin {"pending"} \cup F!Refusals
                BY DEF F!NoWrite, F!Refusals
            <4>2. v4' = v4 /\ v4.id # c.id
                BY <2>1, <4>1
            <4>3. v2 = "open" /\ v1.hears = "any" => ~F!Heard(c)
                <5>1. v1.hears = "any" => v1.onDone = {"shuts"}
                    BY FormTyped, FormFacts
                <5> QED
                    BY <1>4, <5>1 DEF F!Shuts
            <4>4. v2 # "open" => v1.hears # "any"
                <5>1. v1.hears = "any" => "resets" \in v1.onShut
                    BY FormTyped, FormFacts
                <5> QED
                    BY <4>1, <4>2, <5>1 DEF FormsIInv, StillWritten
            <4>5. ~F!Heard(c)
                BY <4>2, <4>3, <4>4 DEF F!Heard, F!Followed
            <4>6. v3
                BY <4>2 DEF FormsIInv, StillWritten
            <4> QED
                BY <1>4, <4>5, <4>6 DEF F!Empties
        <3>2. "resets" \in v1.onShut /\ v2' # "open" => v4' = F!NoWrite
            BY <1>4, <2>1, FormTyped DEF FormsIInv, StillWritten, F!NoWrite
        <3> QED
            BY <1>1, <3>1, <3>2 DEF StillWritten
    <2>6. CarriedOutLast'
        BY <1>1, <1>4, <2>1 DEF FormsIInv, CarriedOutLast
    <2> QED
        BY <1>1, <1>4, <2>2, <2>3, <2>4, <2>5, <2>6 DEF FormsIInv, F!RefusalsAreSaid
<1> QED
    BY <1>1, <1>2, <1>3, <1>4 DEF F!Succeeded, F!Followed

\* Typing, opening and coming back.
LEMMA OpenKeeps ==
    ASSUME FormsIInv, F!Type \/ F!Open \/ F!ComeBack
    PROVE  FormsIInv'
<1>1. CASE F!Type
    BY <1>1 DEF F!Type, FormsIInv, F!TypeOK, F!RefusalsAreSaid, SentApart, StillFollowed, StillWritten,
        CarriedOutLast
<1>2. CASE F!Open \/ F!ComeBack
    <2>1. v2 # "open" /\ v2' \in {"open", "shut"} /\ UNCHANGED <<v1, v3, v4, v5, v6, v7, v8>>
        BY <1>2 DEF F!Open, F!ComeBack
    <2>2. F!TypeOK' /\ F!RefusalsAreSaid' /\ SentApart' /\ CarriedOutLast'
        BY <2>1 DEF FormsIInv, F!TypeOK, F!RefusalsAreSaid, SentApart, CarriedOutLast
    <2>3. StillFollowed' /\ StillWritten'
        BY <2>1 DEF FormsIInv, StillFollowed, StillWritten
    <2> QED
        BY <2>2, <2>3 DEF FormsIInv
<1> QED
    BY <1>1, <1>2

LEMMA FormsStep ==
    ASSUME FormsIInv, F!Next
    PROVE  FormsIInv'
<1>1. CASE F!Close
    BY <1>1, ShutKeeps DEF F!Close
<1>2. CASE F!LeavePage
    BY <1>2, ShutKeeps DEF F!LeavePage
<1> QED
    BY <1>1, <1>2, OpenKeeps, SendKeeps, FormCarriedOutKeeps, FormRefusedKeeps, FormSucceededKeeps DEF F!Next

LEMMA FormsOpen ==
    ASSUME F!Init
    PROVE  FormsIInv
<1>1. /\ v1 \in F!Forms /\ v2 \in {"open", "shut"} /\ v3 = FALSE /\ v4 = F!NoWrite /\ v5 = {} /\ v6 = 0
      /\ v7 = F!Never /\ v8 = {}
    BY DEF F!Init
<1>2. /\ F!NoWrite \in [id : 0..MaxSent, result : {"idle", "pending", "done"} \cup F!Refusals]
      /\ F!NoWrite.id = 0 /\ F!NoWrite.result = "idle" /\ 0 \in 0..MaxSent
    BY ScreensAssumption DEF F!NoWrite
<1>3. F!TypeOK /\ F!RefusalsAreSaid
    BY <1>1, <1>2 DEF F!TypeOK, F!RefusalsAreSaid
<1>4. SentApart /\ StillFollowed /\ CarriedOutLast
    BY <1>1, <1>2 DEF SentApart, StillFollowed, CarriedOutLast
<1>5. StillWritten
    BY <1>1, <1>2 DEF StillWritten, F!Refusals
<1> QED
    BY <1>3, <1>4, <1>5 DEF FormsIInv

\* The invariant is what the module states, and more.
LEMMA FormsSay ==
    ASSUME FormsIInv
    PROVE  F!FormsInv
BY DEF FormsIInv, StillWritten, CarriedOutLast, F!FormsInv, F!KeepsWhatWasRefused, F!SaysWhatIsHeld

-----------------------------------------------------------------------------
(* A search and what is shown of it: module Search.  v1 is the shell, v2   *)
(* the path, v3 what the address asks for, v4 where Back goes, v5 the      *)
(* field, v6 and v7 the dropdown, v8 the page, v9 the answer on screen,    *)
(* v10 whether it failed, v11 what has gone.                               *)

Addresses == [path : S!Paths, url : Searches]
Turnings  == [of : Searches \cup {None}, page : Nat, blind : BOOLEAN]
Answers   == [of : Searches, page : Nat, total : Nat]

\* A category is asked for in its own library.
InItsLibrary(s) == s.category # None => DrawerOf[s.category] = s.library

AddressTyped ==
    /\ v2 \in S!Paths /\ v3 \in Searches /\ InItsLibrary(v3)
    /\ v4 \in Seq(Addresses) /\ \A i \in 1..Len(v4) : InItsLibrary(v4[i].url)

BarTyped == v1 \in BOOLEAN /\ v5 \in Words \cup {Nothing} /\ v6 \in S!Paths \cup {None}
            /\ v7 \in Words \cup {Nothing, None}

PageTyped == v8 \in Turnings /\ (v9 = None \/ v9 \in Answers) /\ v10 \in BOOLEAN /\ v11 \in {0, 1}

\* With nothing gone, an answer counts what is found; and a page that was turned to over its own
\* rows is a page of them.
CountedRight == v11 = 0 /\ v9 # None => v9.total = Found[v9.of]
TurnedWithin == v11 = 0 /\ ~v8.blind /\ v8.page > 0 => v8.page * PageSize < Found[v8.of]

SearchIInv == AddressTyped /\ BarTyped /\ PageTyped /\ CountedRight /\ TurnedWithin

LEMMA SameSearches == S!Searches = Searches
BY DEF S!Searches, Searches

LEMMA PlainIsOne ==
    ASSUME NEW x \in Words \cup {Nothing}
    PROVE  S!Plain(x) \in Searches /\ InItsLibrary(S!Plain(x))
BY DEF S!Plain, Searches, InItsLibrary

\* The page is drawn anew, or goes on as it was.
LEMMA GoesKeeps ==
    ASSUME SearchIInv, NEW to \in S!Paths, NEW s \in Searches, InItsLibrary(s), S!Goes(to, s),
           v4' \in Seq(Addresses), \A i \in 1..Len(v4') : InItsLibrary(v4'[i].url),
           v1' = v1, v5' \in Words \cup {Nothing}, v6' \in S!Paths \cup {None}, v11' = v11
    PROVE  SearchIInv'
<1>1. v2' = to /\ v3' = s /\ v7' = None /\ v10' = FALSE
    BY DEF S!Goes
<1>2. \/ v8' = v8 /\ v9' = v9
      \/ v8' = [of |-> None, page |-> 0, blind |-> FALSE] /\ v9' = None
    BY DEF S!Goes, S!Anew
<1>3. [of |-> None, page |-> 0, blind |-> FALSE] \in Turnings
    BY DEF Turnings
<1>4. AddressTyped' /\ BarTyped' /\ PageTyped'
    BY <1>1, <1>2, <1>3 DEF SearchIInv, AddressTyped, BarTyped, PageTyped
<1>5. CountedRight' /\ TurnedWithin'
    BY <1>2 DEF SearchIInv, CountedRight, TurnedWithin
<1> QED
    BY <1>4, <1>5 DEF SearchIInv

LEMMA ReplaceKeeps ==
    ASSUME SearchIInv, NEW to \in S!Paths, NEW s \in Searches, InItsLibrary(s), S!Replace(to, s),
           v1' = v1, v5' \in Words \cup {Nothing}, v6' \in S!Paths \cup {None}, v11' = v11
    PROVE  SearchIInv'
<1>1. S!Goes(to, s) /\ v4' = v4
    BY DEF S!Replace
<1> QED
    BY <1>1, GoesKeeps DEF SearchIInv, AddressTyped

LEMMA PushKeeps ==
    ASSUME SearchIInv, NEW to \in S!Paths, NEW s \in Searches, InItsLibrary(s), S!Push(to, s),
           v1' = v1, v5' \in Words \cup {Nothing}, v6' \in S!Paths \cup {None}, v11' = v11
    PROVE  SearchIInv'
<1> DEFINE here == [path |-> v2, url |-> v3]
<1>1. S!Goes(to, s) /\ v4' = Append(v4, here)
    BY DEF S!Push
<1>2. here \in Addresses /\ InItsLibrary(here.url) /\ v4 \in Seq(Addresses)
    BY DEF SearchIInv, AddressTyped, Addresses
<1> HIDE DEF here
<1>3. v4' \in Seq(Addresses) /\ \A i \in 1..Len(v4') : v4'[i] = here \/ (i \in 1..Len(v4) /\ v4'[i] = v4[i])
    BY <1>1, <1>2, AppendProperties
<1>4. \A i \in 1..Len(v4') : InItsLibrary(v4'[i].url)
    BY <1>2, <1>3 DEF SearchIInv, AddressTyped
<1> QED
    BY <1>1, <1>3, <1>4, GoesKeeps

LEMMA BackKeeps ==
    ASSUME SearchIInv, S!Back
    PROVE  SearchIInv'
<1>1. /\ v4 \in Seq(Addresses) /\ v4 # << >> /\ \A i \in 1..Len(v4) : InItsLibrary(v4[i].url)
      /\ v4' = SubSeq(v4, 1, Len(v4) - 1) /\ S!Goes(v4[Len(v4)].path, v4[Len(v4)].url)
      /\ UNCHANGED <<v1, v5, v6, v11>>
    BY DEF S!Back, S!Front, S!Last, SearchIInv, AddressTyped
<1>2. Len(v4) \in 1..Len(v4) /\ Len(v4) - 1 \in Int
    BY <1>1, LenProperties, EmptySeq
<1>3. v4[Len(v4)] \in Addresses
    BY <1>1, <1>2, ElementOfSeq
<1>4. \A i \in 1..(Len(v4) - 1) : v4[i] \in Addresses
    BY <1>1, <1>2, ElementOfSeq
<1>5. /\ v4' \in Seq(Addresses)
      /\ Len(v4') = IF 1 <= Len(v4) - 1 THEN Len(v4) - 1 - 1 + 1 ELSE 0
      /\ \A i \in 1..(Len(v4) - 1 - 1 + 1) : v4'[i] = v4[1 + i - 1]
    BY <1>1, <1>2, <1>4, SubSeqProperties
<1>6. \A i \in 1..Len(v4') : i \in 1..Len(v4) /\ v4'[i] = v4[i]
    BY <1>2, <1>5
<1> QED
    BY <1>1, <1>2, <1>3, <1>5, <1>6, GoesKeeps DEF Addresses, SearchIInv, BarTyped

-----------------------------------------------------------------------------
LEMMA BarKeeps ==
    ASSUME SearchIInv, S!Bar
    PROVE  SearchIInv'
<1>0. /\ {"search", "recording"} \subseteq S!Paths /\ v5 \in Words \cup {Nothing} /\ v2 \in S!Paths
      /\ v6 \in S!Paths \cup {None} /\ Nothing \in Words \cup {Nothing}
    BY DEF S!Paths, SearchIInv, BarTyped, AddressTyped
<1>1. ASSUME NEW x \in Words \cup {Nothing}, S!Type(x) PROVE SearchIInv'
    <2>1. CASE v2 = "search"
        BY <1>0, <1>1, <2>1, PlainIsOne, ReplaceKeeps DEF S!Type
    <2>2. CASE v2 # "search"
        BY <1>0, <1>1, <2>2 DEF S!Type, SearchIInv, AddressTyped, BarTyped, PageTyped, CountedRight,
            TurnedWithin
    <2> QED
        BY <2>1, <2>2
<1>2. CASE S!Submit
    BY <1>0, <1>2, PlainIsOne, ReplaceKeeps, PushKeeps DEF S!Submit
<1>3. CASE S!SeeAll
    BY <1>0, <1>3, PlainIsOne, PushKeeps DEF S!SeeAll
<1>4. CASE S!OpenHit
    BY <1>0, <1>4, PlainIsOne, PushKeeps DEF S!OpenHit
<1>5. CASE S!HitsCome \/ S!Dismiss
    BY <1>5 DEF S!HitsCome, S!Dismiss, SearchIInv, AddressTyped, BarTyped, PageTyped, CountedRight,
        TurnedWithin
<1> QED
    BY <1>1, <1>2, <1>3, <1>4, <1>5 DEF S!Bar

LEMMA FiltersKeep ==
    ASSUME SearchIInv, S!Filters
    PROVE  SearchIInv'
<1>0. v3 \in Searches /\ InItsLibrary(v3) /\ "search" \in S!Paths
    BY DEF SearchIInv, AddressTyped, S!Paths
<1>1. ASSUME NEW s \in Searches, InItsLibrary(s), S!Filter(s) PROVE SearchIInv'
    BY <1>0, <1>1, ReplaceKeeps DEF S!Filter, SearchIInv, BarTyped
<1>2. ASSUME NEW x \in Words \cup {Nothing}, S!TypeOnPage(x) PROVE SearchIInv'
    <2>1. [v3 EXCEPT !.q = x] \in Searches /\ InItsLibrary([v3 EXCEPT !.q = x])
        BY <1>0 DEF Searches, InItsLibrary
    <2> QED
        BY <1>1, <1>2, <2>1 DEF S!TypeOnPage
<1>3. ASSUME NEW l \in Libraries \cup {None}, S!ChooseLibrary(l) PROVE SearchIInv'
    <2>1. /\ [v3 EXCEPT !.library = l, !.category = None] \in Searches
          /\ InItsLibrary([v3 EXCEPT !.library = l, !.category = None])
        BY <1>0 DEF Searches, InItsLibrary
    <2> QED
        BY <1>1, <1>3, <2>1 DEF S!ChooseLibrary
<1>4. ASSUME NEW c \in Drawers \cup {None}, S!ChooseCategory(c) PROVE SearchIInv'
    <2>1. c # None => DrawerOf[c] = v3.library
        BY <1>4 DEF S!ChooseCategory
    <2>2. [v3 EXCEPT !.category = c] \in Searches /\ InItsLibrary([v3 EXCEPT !.category = c])
        BY <1>0, <2>1 DEF Searches, InItsLibrary
    <2> QED
        BY <1>1, <1>4, <2>2 DEF S!ChooseCategory
<1>5. CASE S!Narrow
    <2>1. [v3 EXCEPT !.narrow = ~@] \in Searches /\ InItsLibrary([v3 EXCEPT !.narrow = ~@])
        <3>1. (~v3.narrow) \in BOOLEAN
            OBVIOUS
        <3> QED
            BY <1>0, <3>1 DEF Searches, InItsLibrary
    <2> QED
        BY <1>1, <1>5, <2>1 DEF S!Narrow
<1>6. CASE S!ClearFilters
    <2>1. /\ [v3 EXCEPT !.category = None, !.narrow = FALSE] \in Searches
          /\ InItsLibrary([v3 EXCEPT !.category = None, !.narrow = FALSE])
        BY <1>0 DEF Searches, InItsLibrary
    <2> QED
        BY <1>1, <1>6, <2>1 DEF S!ClearFilters
<1> QED
    BY <1>2, <1>3, <1>4, <1>5, <1>6 DEF S!Filters

-----------------------------------------------------------------------------
(* Counting *)

\* A page with more behind it is not the last.
LEMMA MoreBehind ==
    ASSUME NEW a \in Answers, S!HasMore(a)
    PROVE  (a.page + 1) * PageSize < a.total
<1>1. a.page \in Nat /\ a.total \in Nat /\ PageSize \in Nat \ {0}
    BY ScreensAssumption DEF Answers
<1>2. PICK n \in Nat : n = a.page * PageSize
    BY <1>1
<1>3. (a.page + 1) * PageSize = n + PageSize
    BY <1>1, <1>2
<1>4. n + S!Rows(a) < a.total
    BY <1>2 DEF S!HasMore
<1>5. S!Rows(a) = LET left == a.total - n IN IF left < 0 THEN 0 ELSE IF left > PageSize THEN PageSize ELSE left
    BY <1>2 DEF S!Rows
<1> QED
    BY <1>1, <1>2, <1>3, <1>4, <1>5

LEMMA LessBefore ==
    ASSUME NEW p \in Nat, p > 0, NEW n \in Nat, p * PageSize < n
    PROVE  (p - 1) * PageSize < n
<1>1. PageSize \in Nat \ {0}
    BY ScreensAssumption
<1>2. (p - 1) * PageSize = p * PageSize - PageSize
    BY <1>1
<1>3. p * PageSize \in Nat
    BY <1>1
<1> QED
    BY <1>1, <1>2, <1>3

LEMMA TurnKeeps ==
    ASSUME SearchIInv, S!TurnBack \/ S!TurnOn
    PROVE  SearchIInv'
<1> DEFINE p == S!PageDrawn
           blind == ~S!Current \/ (v8.of = v3 /\ v8.blind)
<1>1. v3 \in Searches /\ v8 \in Turnings /\ (v9 = None \/ v9 \in Answers) /\ Found[v3] \in Nat
    BY ScreensAssumption DEF SearchIInv, AddressTyped, PageTyped
<1>2. p \in Nat /\ (p > 0 => v8.of = v3 /\ v8.page = p)
    BY <1>1 DEF S!PageDrawn, Turnings
<1>3. PICK q \in Nat : /\ v8' = [of |-> v3, page |-> q, blind |-> blind]
                       /\ \/ p > 0 /\ q = p - 1
                          \/ q = p + 1 /\ v9 # None /\ S!HasMore(v9)
    BY <1>2 DEF S!TurnBack, S!TurnOn, S!TurnTo
<1>4. v10' = FALSE /\ UNCHANGED <<v1, v2, v3, v4, v5, v6, v7, v9, v11>>
    BY DEF S!TurnBack, S!TurnOn, S!TurnTo
<1>5. blind \in BOOLEAN
    BY <1>1 DEF Turnings
<1>6. v11 = 0 /\ ~blind /\ q > 0 => q * PageSize < Found[v3]
    <2> SUFFICES ASSUME v11 = 0, ~blind, q > 0
                 PROVE  q * PageSize < Found[v3]
        OBVIOUS
    <2>1. v9 # None /\ v9.of = v3 /\ v9.page = p /\ v9.total = Found[v3]
        BY DEF S!Current, SearchIInv, CountedRight
    <2>2. CASE p > 0 /\ q = p - 1
        <3>1. p * PageSize < Found[v3]
            BY <1>2, <2>2 DEF SearchIInv, TurnedWithin
        <3> HIDE DEF p
        <3> QED
            BY <1>1, <1>2, <2>2, <3>1, LessBefore
    <2>3. CASE q = p + 1 /\ S!HasMore(v9)
        BY <1>1, <2>1, <2>3, MoreBehind
    <2> QED
        BY <1>3, <2>2, <2>3
<1> HIDE DEF p, blind
<1>7. /\ v8' \in Turnings /\ v8'.of = v3 /\ v8'.page = q /\ (v8'.blind <=> blind)
    BY <1>1, <1>3, <1>5 DEF Turnings
<1>8. AddressTyped' /\ BarTyped' /\ PageTyped' /\ CountedRight'
    BY <1>4, <1>7 DEF SearchIInv, AddressTyped, BarTyped, PageTyped, CountedRight
<1>9. TurnedWithin'
    BY <1>4, <1>6, <1>7 DEF TurnedWithin
<1> QED
    BY <1>8, <1>9 DEF SearchIInv

LEMMA AnswerKeeps ==
    ASSUME SearchIInv, S!Answer
    PROVE  SearchIInv'
<1>1. v3 \in Searches /\ v8 \in Turnings /\ Found[v3] \in Nat /\ v11 \in {0, 1}
    BY ScreensAssumption DEF SearchIInv, AddressTyped, PageTyped
<1>2. /\ v9' = [of |-> v3, page |-> S!PageDrawn, total |-> S!Matching(v3)] /\ v10' = FALSE
      /\ UNCHANGED <<v1, v2, v3, v4, v5, v6, v7, v8, v11>>
    BY DEF S!Answer
<1>3. S!PageDrawn \in Nat /\ S!Matching(v3) \in Nat /\ (v11 = 0 => S!Matching(v3) = Found[v3])
    BY <1>1 DEF S!PageDrawn, S!Matching, Turnings
<1>4. v9' \in Answers /\ v9'.of = v3 /\ v9'.total = S!Matching(v3)
    BY <1>1, <1>2, <1>3 DEF Answers
<1> QED
    BY <1>2, <1>3, <1>4 DEF SearchIInv, AddressTyped, BarTyped, PageTyped, CountedRight, TurnedWithin

LEMMA SearchStep ==
    ASSUME SearchIInv, S!Next
    PROVE  SearchIInv'
<1>1. ASSUME NEW to \in S!Paths, S!Travel(to) PROVE SearchIInv'
    BY <1>1, PlainIsOne, PushKeeps DEF S!Travel, SearchIInv, BarTyped
<1>2. CASE S!Refuse \/ S!Goner
    BY <1>2 DEF S!Refuse, S!Goner, SearchIInv, AddressTyped, BarTyped, PageTyped, CountedRight,
        TurnedWithin
<1> QED
    BY <1>1, <1>2, BarKeeps, FiltersKeep, BackKeeps, AnswerKeeps, TurnKeeps DEF S!Next

LEMMA SearchOpens ==
    ASSUME S!Init
    PROVE  SearchIInv
<1>1. AddressTyped
    BY PlainIsOne, EmptySeq DEF S!Init, AddressTyped, S!Paths
<1>2. BarTyped
    BY DEF S!Init, BarTyped
<1>3. v8 = [of |-> None, page |-> 0, blind |-> FALSE] /\ v9 = None /\ v10 = FALSE /\ v11 = 0
    BY DEF S!Init
<1>4. v8 \in Turnings /\ v8.page = 0
    BY <1>3 DEF Turnings
<1>5. PageTyped
    BY <1>3, <1>4 DEF PageTyped
<1>6. CountedRight /\ TurnedWithin
    BY <1>3, <1>4 DEF CountedRight, TurnedWithin
<1> QED
    BY <1>1, <1>2, <1>5, <1>6 DEF SearchIInv

LEMMA SearchSays ==
    ASSUME SearchIInv
    PROVE  S!SearchInv
<1>1. S!TypeOK
    BY SameSearches DEF SearchIInv, AddressTyped, BarTyped, PageTyped, S!TypeOK, Addresses, Turnings, Answers
<1>2. S!CategoryInItsLibrary
    BY DEF SearchIInv, AddressTyped, InItsLibrary, S!CategoryInItsLibrary
<1>3. S!NothingMatchedForACause
    <2> SUFFICES ASSUME S!SaysNothingMatched, S!Current, v11 = 0, ~(v8.of = v3 /\ v8.blind)
                 PROVE  Found[v3] = 0
        BY DEF S!NothingMatchedForACause, SearchIInv, PageTyped
    <2>1. /\ v9 \in Answers /\ v9.of = v3 /\ v9.page = S!PageDrawn /\ v9.total = Found[v3]
          /\ S!Rows(v9) = 0 /\ v8 \in Turnings
        BY DEF S!SaysNothingMatched, S!Current, SearchIInv, PageTyped, CountedRight
    <2>2. PageSize \in Nat \ {0} /\ v9.page \in Nat /\ v9.total \in Nat
        BY <2>1, ScreensAssumption DEF Answers
    <2>3. PICK n \in Nat : n = v9.page * PageSize
        BY <2>2
    <2>4. v9.total <= n
        BY <2>1, <2>2, <2>3 DEF S!Rows
    <2>5. CASE v9.page = 0
        BY <2>1, <2>2, <2>3, <2>4, <2>5
    <2>6. CASE v9.page > 0
        <3>1. v8.of = v3 /\ v8.page = v9.page
            BY <2>1, <2>6 DEF S!PageDrawn
        <3>2. n < Found[v3]
            BY <2>3, <2>6, <3>1 DEF SearchIInv, TurnedWithin
        <3> QED
            BY <2>1, <2>2, <2>4, <3>2
    <2> QED
        BY <2>2, <2>5, <2>6
<1> QED
    BY <1>1, <1>2, <1>3 DEF S!SearchInv

-----------------------------------------------------------------------------
(* What the card says of a transcription: module TranscriptionCard.  v1 is *)
(* the instance's jobs, v2 the transcripts made, v3 the active one, v4     *)
(* what each query last answered, v5 what each on its way has read, v6 the *)
(* buttons, v7 the version asked for, v8 whether there is a stream, v9 an  *)
(* announcement, v10 the history, v12 the mishaps.                         *)

Named    == {"none", "running", "failed", "done"}
Statuses == {"no", "sent", "done", "refused", "settling"}

CardTyped ==
    /\ v1 \subseteq {"running", "failed"} /\ v2 \in 0..MaxMade /\ v3 \in 0..v2
    /\ v6 \in [C!Buttons -> Statuses] /\ v8 \in BOOLEAN /\ v9 \in BOOLEAN /\ v10 \in BOOLEAN
    /\ v12 \in Nat

\* Once there is a transcript, one is shown; and the one asked for is there.
OneIsShown == (v2 > 0 => v3 # 0) /\ (v6["activate"] = "sent" => v7 \in 1..v2)

CacheTyped ==
    /\ v4 = [q \in C!Queries |-> v4[q]]
    /\ v4["recording"] \in Named \cup {Unknown} /\ v4["status"] \in Named \cup {Unknown}
    /\ v4["transcript"] \in Nat \cup {Unknown}

OutTyped ==
    /\ v5 = [q \in C!Queries |-> v5[q]]
    /\ v5["recording"] \in Named \cup {Unknown, Sent} /\ v5["status"] \in Named \cup {Unknown, Sent}
    /\ v5["transcript"] \in Nat \cup {Unknown, Sent}

\* A job that failed stays failed, and a transcript stays: what was read of them is still so.
StillSo(value) == (value = "failed" => "failed" \in v1) /\ (value = "done" => v3 # 0)
CacheWasSo == StillSo(v4["recording"]) /\ StillSo(v4["status"])
OutWasSo   == StillSo(v5["recording"]) /\ StillSo(v5["status"])

\* What the page will have once what is on its way has come.
Coming(q) == IF v5[q] = Unknown THEN v4[q] ELSE v5[q]

\* With a stream, what is coming is the instance's, or a reason to ask again is on its way.
ToBeTold == v9 \/ \E b \in C!Buttons : v6[b] = "done"
CardFollows ==
    v8 /\ "running" \notin v1 =>
        \/ ToBeTold
        \/ /\ Coming("recording") \in {Sent, C!State}
           /\ C!Asks(v4) => Coming("status") \in {Sent, C!State, Unknown}

\* Two stories of something over: the one that cannot be the last is being asked for again.
TwoStories ==
    /\ C!Asks(v4) /\ v4["status"] \notin {Unknown, v4["recording"]}
    /\ v4["recording"] # "running" /\ v4["status"] # "running"
AsksTheOlder ==
    TwoStories =>
        IF v4["recording"] = "none" \/ v4["status"] = "done"
        THEN v5["recording"] \notin {Unknown, v4["recording"]}
        ELSE v5["status"] \notin {Unknown, v4["status"]}

\* Where the recording is done or about to be, its transcript has been read since or will be.
DrawsDone ==
    \/ v4["recording"] = "done"
    \/ v4["recording"] = Unknown /\ v5["recording"] \in {Sent, "done"}
ReadAfter == ~v10 /\ v3 # 0 /\ DrawsDone => Coming("transcript") # 0

CardStory ==
    CacheTyped /\ OutTyped /\ CacheWasSo /\ OutWasSo /\ CardFollows /\ AsksTheOlder /\ ReadAfter

CardIInv == CardTyped /\ OneIsShown /\ (v12 = 0 => CardStory)

LEMMA Distinct ==
    /\ Unknown # Sent /\ Unknown \notin Named /\ Sent \notin Named
    /\ Unknown \notin Nat /\ Sent \notin Nat /\ MaxMade \in Nat
BY ScreensAssumption DEF ScreensAssumption, Named

LEMMA TheState ==
    /\ C!State \in Named /\ (C!State = "done" <=> v3 # 0)
    /\ ("failed" \in v1 => C!State # "none") /\ (C!State = "failed" => "failed" \in v1)
    /\ (C!State = "running" => "running" \in v1)
BY DEF C!State, Named

LEMMA TheReread ==
    ASSUME NEW c
    PROVE  /\ C!Reread(c) = [q \in C!Queries |-> C!Reread(c)[q]]
           /\ C!Reread(c)["recording"] = Sent /\ C!Reread(c)["transcript"] = Sent
           /\ C!Reread(c)["status"] = IF C!Asks(c) THEN Sent ELSE Unknown
BY DEF C!Reread, C!Mounted, C!Queries

-----------------------------------------------------------------------------
(* What is typed, whatever goes wrong. *)

LEMMA ButtonsTyped ==
    ASSUME CardTyped, OneIsShown, NEW b \in C!Buttons,
           C!Press(b) \/ C!CarryOut(b) \/ C!Answered(b) \/ C!Unanswered(b) \/ C!Settled(b)
    PROVE  CardTyped' /\ OneIsShown'
<1>1. v6 \in [C!Buttons -> Statuses] /\ "activate" \in C!Buttons
    BY DEF CardTyped, C!Buttons
<1>2. CASE C!Press(b)
    <2>1. v6' = [v6 EXCEPT ![b] = "sent"] /\ UNCHANGED <<v1, v2, v3, v8, v9, v10, v12>>
        BY <1>2 DEF C!Press, C!instance
    <2>2. v6' \in [C!Buttons -> Statuses]
        BY <1>1, <2>1 DEF Statuses
    <2>3. IF b = "activate" THEN v7' \in 1..v2 ELSE v7' = v7
        BY <1>2 DEF C!Press
    <2>4. v6'["activate"] = "sent" => v7' \in 1..v2
        BY <1>1, <2>1, <2>3 DEF OneIsShown
    <2> QED
        BY <2>1, <2>2, <2>4 DEF CardTyped, OneIsShown
<1>3. CASE C!CarryOut(b)
    <2>1. /\ v6' = [v6 EXCEPT ![b] = IF C!Takes(b) THEN "done" ELSE "refused"]
          /\ v6[b] = "sent" /\ UNCHANGED <<v2, v7, v8, v9, v10, v12>>
          /\ v3' = IF b = "activate" THEN v7 ELSE v3
        BY <1>3 DEF C!CarryOut, C!counts
    <2>2. v6' \in [C!Buttons -> Statuses] /\ (v6'["activate"] = "sent" => v6["activate"] = "sent")
        BY <1>1, <2>1 DEF Statuses
    <2>3. v1' \subseteq {"running", "failed"}
        BY <1>3 DEF C!CarryOut, CardTyped, C!Buttons
    <2>4. v3' \in 0..v2 /\ (v2 > 0 => v3' # 0)
        BY <2>1, Distinct DEF CardTyped, OneIsShown
    <2> QED
        BY <2>1, <2>2, <2>3, <2>4 DEF CardTyped, OneIsShown
<1>4. CASE C!Answered(b) \/ C!Unanswered(b) \/ C!Settled(b)
    <2>1. PICK s \in {"settling", "no"} : v6' = [v6 EXCEPT ![b] = s]
        BY <1>4 DEF C!Answered, C!Unanswered, C!Settled
    <2>2. UNCHANGED <<v1, v2, v3, v7, v8, v9, v10>> /\ v12' \in {v12, v12 + 1}
        BY <1>4 DEF C!Answered, C!Unanswered, C!Settled, C!instance, C!counts
    <2>3. v6' \in [C!Buttons -> Statuses] /\ (v6'["activate"] = "sent" => v6["activate"] = "sent")
        BY <1>1, <2>1 DEF Statuses
    <2> QED
        BY <2>2, <2>3 DEF CardTyped, OneIsShown
<1> QED
    BY <1>2, <1>3, <1>4

LEMMA OthersTyped ==
    ASSUME CardTyped, OneIsShown,
           \/ \E q \in C!Queries : C!Read(q) \/ C!Arrive(q) \/ C!ReadFails(q) \/ C!Poll(q)
           \/ C!Focus \/ C!Hear \/ C!Lose \/ C!Connect \/ C!Starts \/ C!Cancels
    PROVE  CardTyped' /\ OneIsShown'
<1>1. UNCHANGED <<v2, v3, v6, v7, v10>> /\ v12' \in {v12, v12 + 1}
    BY DEF C!Read, C!Arrive, C!ReadFails, C!Poll, C!Focus, C!Hear, C!Lose, C!Connect, C!Starts,
        C!Cancels, C!instance, C!counts
<1>2. v1' \in {v1, v1 \cup {"running"}, v1 \ {"running"}}
    BY DEF C!Read, C!Arrive, C!ReadFails, C!Poll, C!Focus, C!Hear, C!Lose, C!Connect, C!Starts,
        C!Cancels, C!instance
<1>3. v8' \in {v8, TRUE, FALSE} /\ v9' \in {v9, FALSE}
    BY DEF C!Read, C!Arrive, C!ReadFails, C!Poll, C!Focus, C!Hear, C!Lose, C!Connect, C!Starts,
        C!Cancels
<1>4. v1' \subseteq {"running", "failed"}
    BY <1>2 DEF CardTyped
<1>5. v8' \in BOOLEAN /\ v9' \in BOOLEAN
    BY <1>3 DEF CardTyped
<1>6. v12' \in Nat
    BY <1>1 DEF CardTyped
<1> QED
    BY <1>1, <1>4, <1>5, <1>6 DEF CardTyped, OneIsShown

LEMMA EndsTyped ==
    ASSUME CardTyped, OneIsShown, C!Ends
    PROVE  CardTyped' /\ OneIsShown'
<1>1. UNCHANGED <<v6, v7, v8, v12>> /\ v9' = v8
    BY DEF C!Ends, C!counts
<1>2. \/ v2' = v2 /\ v3' = v3
      \/ v2 < MaxMade /\ v2' = v2 + 1 /\ v3' = v2 + 1
    BY DEF C!Ends
<1>3. v1' \subseteq {"running", "failed"}
    BY DEF C!Ends, CardTyped
<1>4. v10' \in BOOLEAN
    <2>1. v10' = (v10 \/ (v2' # v2 /\ C!TooSoon))
        BY DEF C!Ends
    <2> QED
        BY <2>1
<1>5. v2' \in 0..MaxMade /\ v3' \in 0..v2' /\ (v2' > 0 => v3' # 0) /\ (v2 \in Nat /\ v2' >= v2)
    BY <1>2, Distinct DEF CardTyped, OneIsShown
<1>6. v6["activate"] = "sent" => v7 \in 1..v2'
    BY <1>5 DEF OneIsShown
<1> QED
    BY <1>1, <1>3, <1>4, <1>5, <1>6 DEF CardTyped, OneIsShown

LEMMA CardTypedStep ==
    ASSUME CardTyped, OneIsShown, C!Next
    PROVE  CardTyped' /\ OneIsShown'
<1>1. \/ \E q \in C!Queries : C!Read(q) \/ C!Arrive(q) \/ C!ReadFails(q) \/ C!Poll(q)
      \/ C!Focus \/ C!Hear \/ C!Lose \/ C!Connect \/ C!Starts \/ C!Cancels
      \/ C!Ends
      \/ \E b \in C!Buttons : C!Press(b) \/ C!CarryOut(b) \/ C!Answered(b) \/ C!Unanswered(b) \/ C!Settled(b)
    BY DEF C!Next
<1> QED
    BY <1>1, ButtonsTyped, OthersTyped, EndsTyped

-----------------------------------------------------------------------------
(* What is said, while nothing has gone wrong. *)

\* Whatever asks for everything again.
LEMMA AllAskedAgain ==
    ASSUME CacheTyped', CacheWasSo', v5' = C!Reread(v4')
    PROVE  CardStory'
<1>1. /\ v5' = [q \in C!Queries |-> v5'[q]]
      /\ v5'["recording"] = Sent /\ v5'["transcript"] = Sent
      /\ v5'["status"] = IF C!Asks(v4') THEN Sent ELSE Unknown
    BY TheReread
<1>2. OutTyped'
    BY <1>1 DEF OutTyped
<1>3. OutWasSo'
    BY <1>1, Distinct DEF OutWasSo, StillSo, Named
<1>4. CardFollows'
    BY <1>1, Distinct DEF CardFollows, Coming
<1>5. AsksTheOlder'
    <2>1. v4'["recording"] # Sent /\ (v4'["status"] # Sent)
        BY Distinct DEF CacheTyped
    <2> QED
        BY <1>1, <2>1, Distinct DEF AsksTheOlder, TwoStories
<1>6. ReadAfter'
    BY <1>1, Distinct DEF ReadAfter, Coming
<1> QED
    BY <1>2, <1>3, <1>4, <1>5, <1>6 DEF CardStory

LEMMA ReadTells ==
    ASSUME CardTyped, CardStory, NEW q \in C!Queries, C!Read(q)
    PROVE  CardStory'
<1>1. /\ v5[q] = Sent /\ v5' = [v5 EXCEPT ![q] = C!Answer(q)]
      /\ UNCHANGED <<v1, v2, v3, v4, v6, v7, v8, v9, v10, v12>>
    BY DEF C!Read, C!instance, C!counts
<1>2. /\ v5 = [r \in C!Queries |-> v5[r]]
      /\ v5["recording"] \in Named \cup {Unknown, Sent}
      /\ v5["status"] \in Named \cup {Unknown, Sent}
      /\ v5["transcript"] \in Nat \cup {Unknown, Sent}
    BY DEF CardStory, OutTyped
<1>3. v5' = [r \in C!Queries |-> IF r = q THEN C!Answer(q) ELSE v5[r]]
    BY <1>1, <1>2
<1>4. v3 \in Nat /\ (C!State)' = C!State
    BY <1>1 DEF CardTyped, C!State
<1>5. CASE q = "recording"
    <2>1. /\ v5["recording"] = Sent /\ v5'["recording"] = C!State
          /\ v5'["status"] = v5["status"] /\ v5'["transcript"] = v5["transcript"]
        BY <1>1, <1>3, <1>5 DEF C!Queries, C!Answer
    <2>2. OutTyped' /\ OutWasSo' /\ CacheTyped' /\ CacheWasSo'
        BY <1>1, <1>2, <1>3, <2>1, TheState DEF OutTyped, OutWasSo, CacheTyped, CacheWasSo, StillSo, CardStory
    <2>3. CardFollows'
        BY <1>1, <1>4, <2>1, TheState, Distinct DEF CardFollows, Coming, ToBeTold, CardStory, C!Asks
    <2>4. AsksTheOlder'
        BY <1>1, <2>1, TheState, Distinct DEF AsksTheOlder, TwoStories, CardStory, CacheWasSo, StillSo,
            CacheTyped, C!Asks, Named
    <2>5. ReadAfter'
        BY <1>1, <2>1, Distinct DEF ReadAfter, DrawsDone, Coming, CardStory
    <2> QED
        BY <2>2, <2>3, <2>4, <2>5 DEF CardStory
<1>6. CASE q = "status"
    <2>1. /\ v5["status"] = Sent /\ v5'["status"] = C!State
          /\ v5'["recording"] = v5["recording"] /\ v5'["transcript"] = v5["transcript"]
        BY <1>1, <1>3, <1>6 DEF C!Queries, C!Answer
    <2>2. OutTyped' /\ OutWasSo' /\ CacheTyped' /\ CacheWasSo'
        BY <1>1, <1>2, <1>3, <2>1, TheState DEF OutTyped, OutWasSo, CacheTyped, CacheWasSo, StillSo, CardStory
    <2>3. CardFollows'
        BY <1>1, <1>4, <2>1, TheState, Distinct DEF CardFollows, Coming, ToBeTold, CardStory, C!Asks
    <2>4. AsksTheOlder'
        BY <1>1, <2>1, TheState, Distinct DEF AsksTheOlder, TwoStories, CardStory, CacheWasSo, StillSo,
            CacheTyped, C!Asks, Named
    <2>5. ReadAfter'
        BY <1>1, <2>1, Distinct DEF ReadAfter, DrawsDone, Coming, CardStory
    <2> QED
        BY <2>2, <2>3, <2>4, <2>5 DEF CardStory
<1>7. CASE q = "transcript"
    <2>1. /\ v5'["transcript"] = v3
          /\ v5'["recording"] = v5["recording"] /\ v5'["status"] = v5["status"]
        BY <1>1, <1>3, <1>7 DEF C!Queries, C!Answer
    <2>2. OutTyped' /\ OutWasSo' /\ CacheTyped' /\ CacheWasSo'
        BY <1>1, <1>2, <1>3, <1>4, <2>1 DEF OutTyped, OutWasSo, CacheTyped, CacheWasSo, StillSo, CardStory
    <2>3. CardFollows'
        BY <1>1, <1>4, <2>1 DEF CardFollows, Coming, ToBeTold, CardStory, C!Asks
    <2>4. AsksTheOlder'
        BY <1>1, <2>1 DEF AsksTheOlder, TwoStories, CardStory, C!Asks
    <2>5. ReadAfter'
        BY <1>1, <1>4, <2>1, Distinct DEF ReadAfter, Coming
    <2> QED
        BY <2>2, <2>3, <2>4, <2>5 DEF CardStory
<1> QED
    BY <1>5, <1>6, <1>7 DEF C!Queries

LEMMA ArriveTells ==
    ASSUME CardTyped, CardStory, NEW q \in C!Queries, C!Arrive(q)
    PROVE  CardStory'
<1> DEFINE c == [v4 EXCEPT ![q] = v5[q]]
<1>1. /\ v5[q] \notin {Unknown, Sent} /\ v4' = c
      /\ v5' = IF C!Flips(c) \/ C!Disagrees(c) THEN C!Reread(c)
               ELSE [v5 EXCEPT ![q] = Unknown,
                               !.status = IF q = "status" \/ ~C!Asks(c) THEN Unknown
                                          ELSE IF C!Asks(v4) THEN @ ELSE Sent]
      /\ UNCHANGED <<v1, v2, v3, v6, v7, v8, v9, v10, v12>>
    BY DEF C!Arrive, C!instance, C!counts
<1>2. /\ v4 = [r \in C!Queries |-> v4[r]]
      /\ v4["recording"] \in Named \cup {Unknown} /\ v4["status"] \in Named \cup {Unknown}
      /\ v4["transcript"] \in Nat \cup {Unknown}
    BY DEF CardStory, CacheTyped
<1>3. /\ v5 = [r \in C!Queries |-> v5[r]]
      /\ v5["recording"] \in Named \cup {Unknown, Sent}
      /\ v5["status"] \in Named \cup {Unknown, Sent}
      /\ v5["transcript"] \in Nat \cup {Unknown, Sent}
    BY DEF CardStory, OutTyped
<1>4. c = [r \in C!Queries |-> IF r = q THEN v5[q] ELSE v4[r]]
    BY <1>2
<1>5. "recording" \in C!Queries /\ "status" \in C!Queries /\ "transcript" \in C!Queries
      /\ C!Queries = {"recording", "status", "transcript"}
    BY DEF C!Queries
<1>6. CacheTyped' /\ CacheWasSo'
    <2>1. c["recording"] \in {v4["recording"], v5["recording"]} /\ c["status"] \in {v4["status"], v5["status"]}
        BY <1>4, <1>5
    <2>2. c["recording"] \in Named \cup {Unknown} /\ c["status"] \in Named \cup {Unknown}
          /\ c["transcript"] \in Nat \cup {Unknown} /\ c = [r \in C!Queries |-> c[r]]
        BY <1>1, <1>2, <1>3, <1>4, <1>5
    <2> HIDE DEF c
    <2>3. CacheTyped'
        BY <1>1, <2>2 DEF CacheTyped
    <2>4. CacheWasSo'
        BY <1>1, <2>1 DEF CacheWasSo, OutWasSo, StillSo, CardStory
    <2> QED
        BY <2>3, <2>4
<1>7. CASE C!Flips(c) \/ C!Disagrees(c)
    <2>1. v5' = C!Reread(v4')
        BY <1>1, <1>7
    <2> QED
        BY <1>6, <2>1, AllAskedAgain
<1>8. CASE ~(C!Flips(c) \/ C!Disagrees(c))
    <2>1. v5' = [r \in C!Queries |->
                    IF r = "status" THEN IF q = "status" \/ ~C!Asks(c) THEN Unknown
                                         ELSE IF C!Asks(v4) THEN v5["status"] ELSE Sent
                    ELSE IF r = q THEN Unknown ELSE v5[r]]
        BY <1>1, <1>3, <1>5, <1>8
    <2>2. v4'["recording"] = v4["recording"] \/ v4["recording"] = Unknown
        BY <1>1, <1>2, <1>4, <1>5, <1>8 DEF C!Flips
    <2>3. ~TwoStories' \/ v4' = v4
        BY <1>1, <1>8 DEF C!Disagrees, TwoStories
    <2>4. CASE q = "recording"
        <3>1. /\ v4'["recording"] = v5["recording"] /\ v4'["status"] = v4["status"]
              /\ v4'["transcript"] = v4["transcript"]
            BY <1>1, <1>4, <1>5, <2>4
        <3>2. /\ v5'["recording"] = Unknown /\ v5'["transcript"] = v5["transcript"]
              /\ v5'["status"] = IF ~C!Asks(v4') THEN Unknown
                                 ELSE IF C!Asks(v4) THEN v5["status"] ELSE Sent
            BY <1>1, <1>5, <2>1, <2>4
        <3>3. v5["recording"] \notin {Unknown, Sent}
            BY <1>1, <2>4
        <3>4. OutTyped' /\ OutWasSo'
            BY <1>3, <2>1, <3>2, Distinct, <1>1 DEF OutTyped, OutWasSo, StillSo, CardStory, Named
        <3>5. CardFollows'
            BY <1>1, <3>1, <3>2, <3>3, Distinct DEF CardFollows, Coming, ToBeTold, CardStory, C!State
        <3>6. AsksTheOlder'
            BY <1>1, <2>3, <3>1, <3>2, <3>3 DEF AsksTheOlder, TwoStories, CardStory
        <3>7. ReadAfter'
            BY <1>1, <2>2, <3>1, <3>2, <3>3, Distinct DEF ReadAfter, DrawsDone, Coming, CardStory, Named
        <3> QED
            BY <1>6, <3>4, <3>5, <3>6, <3>7 DEF CardStory
    <2>5. CASE q = "status"
        <3>1. /\ v4'["recording"] = v4["recording"] /\ v4'["status"] = v5["status"]
              /\ v4'["transcript"] = v4["transcript"]
            BY <1>1, <1>4, <1>5, <2>5
        <3>2. /\ v5'["recording"] = v5["recording"] /\ v5'["transcript"] = v5["transcript"]
              /\ v5'["status"] = Unknown
            BY <1>5, <2>1, <2>5
        <3>3. v5["status"] \notin {Unknown, Sent}
            BY <1>1, <2>5
        <3>4. OutTyped' /\ OutWasSo'
            BY <1>3, <2>1, <3>2, Distinct, <1>1 DEF OutTyped, OutWasSo, StillSo, CardStory, Named
        <3>5. CardFollows'
            BY <1>1, <3>1, <3>2, <3>3, Distinct DEF CardFollows, Coming, ToBeTold, CardStory, C!State, C!Asks
        <3>6. AsksTheOlder'
            BY <1>1, <2>3, <3>1, <3>2, <3>3 DEF AsksTheOlder, TwoStories, CardStory
        <3>7. ReadAfter'
            BY <1>1, <3>1, <3>2 DEF ReadAfter, DrawsDone, Coming, CardStory
        <3> QED
            BY <1>6, <3>4, <3>5, <3>6, <3>7 DEF CardStory
    <2>6. CASE q = "transcript"
        <3>1. /\ v4'["recording"] = v4["recording"] /\ v4'["status"] = v4["status"]
              /\ v4'["transcript"] = v5["transcript"]
            BY <1>1, <1>4, <1>5, <2>6
        <3>2. /\ v5'["recording"] = v5["recording"] /\ v5'["transcript"] = Unknown
              /\ v5'["status"] = IF C!Asks(v4) THEN v5["status"] ELSE Unknown
            BY <1>1, <1>5, <2>1, <2>6, <3>1 DEF C!Asks
        <3>3. v5["transcript"] \notin {Unknown, Sent}
            BY <1>1, <2>6
        <3>4. OutTyped' /\ OutWasSo'
            BY <1>3, <2>1, <3>2, Distinct, <1>1 DEF OutTyped, OutWasSo, StillSo, CardStory, Named
        <3>5. CardFollows'
            BY <1>1, <3>1, <3>2, <3>3, Distinct DEF CardFollows, Coming, ToBeTold, CardStory, C!State, C!Asks
        <3>6. AsksTheOlder'
            BY <1>1, <2>3, <3>1, <3>2, <3>3 DEF AsksTheOlder, TwoStories, CardStory, C!Asks
        <3>7. ReadAfter'
            BY <1>1, <3>1, <3>2, <3>3 DEF ReadAfter, DrawsDone, Coming, CardStory
        <3> QED
            BY <1>6, <3>4, <3>5, <3>6, <3>7 DEF CardStory
    <2> QED
        BY <1>5, <2>4, <2>5, <2>6
<1> QED
    BY <1>7, <1>8

LEMMA AskingTells ==
    ASSUME CardTyped, CardStory, C!Focus \/ \E q \in C!Queries : C!Poll(q)
    PROVE  CardStory'
<1>1. UNCHANGED <<v1, v2, v3, v4, v6, v7, v8, v9, v10, v12>>
    BY DEF C!Focus, C!Poll, C!instance, C!counts
<1>2. CacheTyped' /\ CacheWasSo'
    BY <1>1 DEF CardStory, CacheTyped, CacheWasSo, StillSo
<1>3. /\ v5 = [r \in C!Queries |-> v5[r]]
      /\ v5["recording"] \in Named \cup {Unknown, Sent}
      /\ v5["status"] \in Named \cup {Unknown, Sent}
      /\ v5["transcript"] \in Nat \cup {Unknown, Sent}
    BY DEF CardStory, OutTyped
<1>4. ASSUME NEW q \in C!Queries, C!Poll(q)
      PROVE  CardStory'
    <2>1. ~v8 /\ q \in {"recording", "status"} /\ v5[q] = Unknown /\ v5' = [v5 EXCEPT ![q] = Sent]
          /\ v4[q] = "running"
        BY <1>4 DEF C!Poll
    <2>2. v5' = [r \in C!Queries |-> IF r = q THEN Sent ELSE v5[r]]
        BY <1>3, <2>1
    <2>3. /\ v5'["transcript"] = v5["transcript"]
          /\ \/ v5'["recording"] = v5["recording"]
             \/ v5["recording"] = Unknown /\ v5'["recording"] = Sent /\ v4["recording"] = "running"
          /\ \/ v5'["status"] = v5["status"]
             \/ v5["status"] = Unknown /\ v5'["status"] = Sent
        BY <2>1, <2>2 DEF C!Queries
    <2>4. v5' = [r \in C!Queries |-> v5'[r]]
        BY <2>2
    <2>5. OutTyped' /\ OutWasSo'
        <3>1. OutTyped'
            BY <1>3, <2>3, <2>4 DEF OutTyped
        <3>2. OutWasSo'
            BY <1>1, <2>3, Distinct DEF OutWasSo, StillSo, CardStory, Named
        <3> QED
            BY <3>1, <3>2
    <2>6. CardFollows'
        BY <1>1, <2>1 DEF CardFollows
    <2>7. AsksTheOlder'
        <3>1. v4["recording"] # Sent /\ (v4["status"] # Sent)
            BY Distinct DEF CardStory, CacheTyped
        <3> QED
            BY <1>1, <2>3, <3>1, Distinct DEF AsksTheOlder, TwoStories, CardStory, C!Asks
    <2>8. ReadAfter'
        BY <1>1, <2>3, Distinct DEF ReadAfter, DrawsDone, Coming, CardStory, Named
    <2> QED
        BY <1>2, <2>6, <2>7, <2>8, <2>5 DEF CardStory
<1>5. CASE C!Focus
    <2>1. v5 = C!Quiet /\ v4["recording"] # Unknown
          /\ v5' \in {C!Reread(v4), [C!Quiet EXCEPT !["transcript"] = Sent]}
        BY <1>5 DEF C!Focus
    <2>2. CASE v5' = C!Reread(v4)
        <3>1. v5' = C!Reread(v4')
            BY <1>1, <2>2
        <3> QED
            BY <1>2, <3>1, AllAskedAgain
    <2>3. CASE v5' = [C!Quiet EXCEPT !["transcript"] = Sent]
        <3>1. v5["recording"] = Unknown /\ v5["status"] = Unknown
            BY <2>1 DEF C!Quiet, C!Queries
        <3>2. v5' = [r \in C!Queries |-> IF r = "transcript" THEN Sent ELSE Unknown]
            BY <2>3 DEF C!Quiet, C!Queries
        <3>3. v5'["recording"] = Unknown /\ v5'["status"] = Unknown /\ v5'["transcript"] = Sent
            BY <3>2 DEF C!Queries
        <3>4. OutTyped' /\ OutWasSo'
            BY <3>2, <3>3, Distinct DEF OutTyped, OutWasSo, StillSo, Named
        <3>5. CardFollows'
            BY <1>1, <3>1, <3>3 DEF CardFollows, Coming, ToBeTold, CardStory, C!State, C!Asks
        <3>6. AsksTheOlder'
            BY <1>1, <3>1, <3>3 DEF AsksTheOlder, TwoStories, CardStory, C!Asks
        <3>7. ReadAfter'
            BY <3>3, Distinct DEF ReadAfter, Coming
        <3> QED
            BY <1>2, <3>4, <3>5, <3>6, <3>7 DEF CardStory
    <2> QED
        BY <2>1, <2>2, <2>3
<1> QED
    BY <1>4, <1>5

LEMMA StreamTells ==
    ASSUME CardTyped, CardStory, C!Hear \/ C!Connect
    PROVE  CardStory'
<1>1. UNCHANGED <<v1, v2, v3, v4>> /\ v5' = C!Reread(v4)
    BY DEF C!Hear, C!Connect, C!instance
<1>2. CacheTyped' /\ CacheWasSo'
    BY <1>1 DEF CardStory, CacheTyped, CacheWasSo, StillSo
<1>3. v5' = C!Reread(v4')
    BY <1>1
<1> QED
    BY <1>2, <1>3, AllAskedAgain

LEMMA ButtonsTell ==
    ASSUME CardTyped, OneIsShown, CardStory, NEW b \in C!Buttons,
           C!Press(b) \/ C!CarryOut(b) \/ C!Answered(b) \/ C!Settled(b)
    PROVE  CardStory'
<1>1. v6 \in [C!Buttons -> Statuses]
    BY DEF CardTyped
<1>2. CASE C!Press(b) \/ C!Settled(b)
    <2>1. UNCHANGED <<v1, v2, v3, v4, v5, v8, v9, v10>>
        BY <1>2 DEF C!Press, C!Settled, C!instance, C!counts
    <2>2. PICK s \in {"sent", "no"} : v6[b] # "done" /\ v6' = [v6 EXCEPT ![b] = s]
        BY <1>2 DEF C!Press, C!Settled
    <2>3. \A a \in C!Buttons : v6'[a] = "done" <=> v6[a] = "done"
        BY <1>1, <2>2
    <2>4. ToBeTold' <=> ToBeTold
        BY <2>1, <2>3 DEF ToBeTold
    <2>5. (C!State)' = C!State
        BY <2>1 DEF C!State
    <2>6. CardFollows'
        BY <2>1, <2>4, <2>5 DEF CardFollows, Coming, CardStory, C!Asks
    <2> QED
        BY <2>1, <2>6 DEF CardStory, CacheTyped, OutTyped, CacheWasSo, OutWasSo, StillSo, AsksTheOlder,
            TwoStories, ReadAfter, DrawsDone, Coming, C!Asks
<1>3. CASE C!Answered(b)
    <2>1. UNCHANGED <<v1, v2, v3, v4>> /\ v5' = C!Reread(v4)
        BY <1>3 DEF C!Answered, C!instance
    <2>2. CacheTyped' /\ CacheWasSo'
        BY <2>1 DEF CardStory, CacheTyped, CacheWasSo, StillSo
    <2>3. v5' = C!Reread(v4')
        BY <2>1
    <2> QED
        BY <2>2, <2>3, AllAskedAgain
<1>4. CASE C!CarryOut(b)
    <2>1. /\ v6' = [v6 EXCEPT ![b] = IF C!Takes(b) THEN "done" ELSE "refused"]
          /\ v6[b] = "sent" /\ UNCHANGED <<v2, v4, v5, v7, v8, v9, v10>>
          /\ v3' = IF b = "activate" THEN v7 ELSE v3
        BY <1>4 DEF C!CarryOut, C!counts
    <2>2. /\ C!Takes(b) => v6'[b] = "done"
          /\ \A a \in C!Buttons : v6[a] = "done" => v6'[a] = "done"
        BY <1>1, <2>1
    <2>3. "failed" \in v1' <=> "failed" \in v1
        BY <1>4 DEF C!CarryOut, C!Buttons
    <2>4. ~C!Takes(b) => v1' = v1 /\ v3' = v3
        BY <1>4, <2>1 DEF C!CarryOut, C!Takes
    <2>5. v3' # 0 <=> v3 # 0
        BY <2>1, Distinct DEF OneIsShown, CardTyped
    <2>6. ToBeTold => ToBeTold'
        BY <2>1, <2>2 DEF ToBeTold
    <2>7. C!Takes(b) => ToBeTold'
        BY <2>2 DEF ToBeTold
    <2>8. ~C!Takes(b) => (C!State)' = C!State
        BY <2>4 DEF C!State
    <2>9. CardFollows'
        BY <2>1, <2>4, <2>6, <2>7, <2>8 DEF CardFollows, Coming, CardStory, C!Asks
    <2>10. CacheTyped' /\ OutTyped' /\ CacheWasSo' /\ OutWasSo'
        BY <2>1, <2>3, <2>5 DEF CardStory, CacheTyped, OutTyped, CacheWasSo, OutWasSo, StillSo
    <2>11. AsksTheOlder' /\ ReadAfter'
        BY <2>1, <2>5 DEF CardStory, AsksTheOlder, TwoStories, ReadAfter, DrawsDone, Coming, C!Asks
    <2> QED
        BY <2>9, <2>10, <2>11 DEF CardStory
<1> QED
    BY <1>2, <1>3, <1>4

LEMMA InstanceTells ==
    ASSUME CardTyped, OneIsShown, CardStory, C!Starts \/ C!Ends
    PROVE  CardStory'
<1>1. UNCHANGED <<v4, v5, v6, v8>>
    BY DEF C!Starts, C!Ends
<1>2. CASE C!Starts
    <2>1. v1' = v1 \cup {"running"} /\ UNCHANGED <<v3, v10>>
        BY <1>2 DEF C!Starts
    <2>2. CardFollows'
        BY <2>1 DEF CardFollows
    <2> QED
        BY <1>1, <2>1, <2>2 DEF CardStory, CacheTyped, OutTyped, CacheWasSo, OutWasSo, StillSo,
            AsksTheOlder, TwoStories, ReadAfter, DrawsDone, Coming, C!Asks
<1>3. CASE C!Ends
    <2>1. /\ v9' = v8
          /\ \/ v1' = (v1 \ {"running"}) \cup {"failed"} /\ v2' = v2 /\ v3' = v3
             \/ v1' = v1 \ {"running"} /\ v2' = v2 + 1 /\ v3' = v2 + 1
        BY <1>3 DEF C!Ends
    <2>2. /\ "failed" \in v1 => "failed" \in v1'
          /\ v3 # 0 => v3' # 0
        BY <2>1 DEF CardTyped
    <2>3. CardFollows'
        BY <1>1, <2>1 DEF CardFollows, ToBeTold
    <2>4. CacheTyped' /\ OutTyped' /\ CacheWasSo' /\ OutWasSo' /\ AsksTheOlder'
        BY <1>1, <2>2 DEF CardStory, CacheTyped, OutTyped, CacheWasSo, OutWasSo, StillSo, AsksTheOlder,
            TwoStories, C!Asks
    <2>5. ~v10' => ~v10 /\ (v2' # v2 => ~C!TooSoon)
        <3>1. v10' = (v10 \/ (v2' # v2 /\ C!TooSoon))
            BY <1>3 DEF C!Ends
        <3> QED
            BY <3>1
    <2>6. ReadAfter'
        <3> SUFFICES ASSUME ~v10', v3' # 0, DrawsDone
                     PROVE  Coming("transcript") # 0
            BY <1>1 DEF ReadAfter, DrawsDone, Coming
        <3>1. CASE v3 # 0
            BY <2>5, <3>1 DEF CardStory, ReadAfter
        <3>2. CASE v3 = 0 /\ v2' = v2
            BY <2>1, <3>2 DEF CardTyped
        <3>3. CASE v3 = 0 /\ v2' # v2
            <4>1. v4["recording"] = Unknown /\ v5["recording"] = Sent
                BY <3>3 DEF DrawsDone, CardStory, CacheWasSo, OutWasSo, StillSo
            <4>2. v4["transcript"] # 0 /\ v5["transcript"] # 0
                BY <2>5, <3>3, <4>1 DEF C!TooSoon
            <4> QED
                BY <4>2 DEF Coming
        <3> QED
            BY <3>1, <3>2, <3>3
    <2> QED
        BY <2>3, <2>4, <2>6 DEF CardStory
<1> QED
    BY <1>2, <1>3

LEMMA CardStep ==
    ASSUME CardIInv, C!Next
    PROVE  CardIInv'
<1>1. CardTyped /\ OneIsShown /\ (v12 = 0 => CardStory)
    BY DEF CardIInv
<1>2. CardTyped' /\ OneIsShown'
    BY <1>1, CardTypedStep
<1>3. ASSUME v12' = 0 PROVE CardStory'
    <2>1. v12 \in Nat
        BY <1>1 DEF CardTyped
    <2>2. /\ \A q \in C!Queries : ~C!ReadFails(q)
          /\ ~C!Lose /\ ~C!Cancels
          /\ \A b \in C!Buttons : ~C!Unanswered(b)
        BY <1>3, <2>1 DEF C!ReadFails, C!Lose, C!Cancels, C!Unanswered
    <2>3. \/ \E q \in C!Queries : C!Read(q) \/ C!Arrive(q) \/ C!Poll(q)
          \/ C!Focus \/ C!Hear \/ C!Connect \/ C!Starts \/ C!Ends
          \/ \E b \in C!Buttons : C!Press(b) \/ C!CarryOut(b) \/ C!Answered(b) \/ C!Settled(b)
        BY <2>2 DEF C!Next
    <2>4. v12 = 0
        BY <1>3, <2>3 DEF C!Read, C!Arrive, C!Poll, C!Focus, C!Hear, C!Connect, C!Starts, C!Ends,
            C!Press, C!CarryOut, C!Answered, C!Settled, C!counts
    <2> QED
        BY <1>1, <2>3, <2>4, ReadTells, ArriveTells, AskingTells, StreamTells, ButtonsTell, InstanceTells
<1> QED
    BY <1>2, <1>3 DEF CardIInv

LEMMA CardOpens ==
    ASSUME C!Init
    PROVE  CardIInv
<1>1. /\ v1 \in {{}, {"running"}, {"failed"}} /\ v2 = 0 /\ v3 = 0
      /\ v4 = C!Quiet /\ v5 = [q \in C!Queries |-> IF q = "status" THEN Unknown ELSE Sent]
      /\ v6 = [b \in C!Buttons |-> "no"] /\ v9 = FALSE /\ v10 = FALSE /\ v12 = 0
    BY DEF C!Init
<1>2. CardTyped
    <2>1. v8 \in BOOLEAN
        BY DEF C!Init
    <2>2. v2 \in 0..MaxMade /\ v3 \in 0..v2
        BY <1>1, Distinct
    <2>3. v6 \in [C!Buttons -> Statuses]
        BY <1>1 DEF Statuses
    <2>4. v9 \in BOOLEAN /\ v10 \in BOOLEAN
        BY <1>1
    <2>5. v1 \subseteq {"running", "failed"} /\ v12 \in Nat
        BY <1>1
    <2> QED
        BY <2>1, <2>2, <2>3, <2>4, <2>5 DEF CardTyped
<1>3. OneIsShown
    BY <1>1 DEF OneIsShown, C!Buttons
<1>4. /\ v4["recording"] = Unknown /\ v4["status"] = Unknown /\ v4["transcript"] = Unknown
      /\ v5["recording"] = Sent /\ v5["status"] = Unknown /\ v5["transcript"] = Sent
    BY <1>1 DEF C!Quiet, C!Queries
<1>5. CacheTyped /\ OutTyped
    BY <1>1, <1>4 DEF CacheTyped, OutTyped, C!Quiet
<1>6. CacheWasSo /\ OutWasSo
    BY <1>4, Distinct DEF CacheWasSo, OutWasSo, StillSo, Named
<1>7. CardFollows
    BY <1>4, Distinct DEF CardFollows, Coming, C!Asks
<1>8. AsksTheOlder
    BY <1>4 DEF AsksTheOlder, TwoStories
<1>9. ReadAfter
    BY <1>1 DEF ReadAfter
<1> QED
    BY <1>2, <1>3, <1>5, <1>6, <1>7, <1>8, <1>9 DEF CardIInv, CardStory

LEMMA CardSays ==
    ASSUME CardIInv
    PROVE  C!CardInv
<1>1. C!TypeOK
    BY DEF CardIInv, CardTyped, C!TypeOK, Statuses
<1>2. C!OneStory
    <2> SUFFICES ASSUME C!AtRest, v12 = 0, "running" \notin v1
                 PROVE  /\ v8 => v4["recording"] = C!State
                        /\ C!Asks(v4) => v4["status"] \in {Unknown, v4["recording"]}
                        /\ v4["recording"] = "done" /\ v4["transcript"] = 0 => v10
        BY DEF C!OneStory
    <2>1. CardStory /\ v3 \in Nat
        BY DEF CardIInv, CardTyped
    <2>2. /\ v5["recording"] = Unknown /\ v5["status"] = Unknown /\ v5["transcript"] = Unknown
          /\ ~ToBeTold
        BY DEF C!AtRest, C!Quiet, C!Queries, ToBeTold
    <2>3. /\ v4["recording"] \in Named \cup {Unknown} /\ v4["status"] \in Named \cup {Unknown}
          /\ StillSo(v4["recording"])
        BY <2>1 DEF CardStory, CacheTyped, CacheWasSo
    <2>4. v8 => v4["recording"] = C!State
        BY <2>1, <2>2, <2>3, Distinct DEF CardStory, CardFollows, Coming
    <2>5. ASSUME C!Asks(v4) PROVE v4["status"] \in {Unknown, v4["recording"]}
        <3>1. CASE v8
            BY <2>1, <2>2, <2>3, <2>4, <2>5, <3>1, Distinct DEF CardStory, CardFollows, Coming
        <3>2. CASE ~v8
            <4>1. v4["recording"] # "running" /\ v4["status"] # "running"
                BY <2>5, <3>2 DEF C!AtRest, C!PollDue, C!Mounted, C!Queries
            <4> QED
                BY <2>1, <2>2, <2>5, <4>1 DEF CardStory, AsksTheOlder, TwoStories
        <3> QED
            BY <3>1, <3>2
    <2>6. v4["recording"] = "done" /\ v4["transcript"] = 0 => v10
        BY <2>1, <2>2, <2>3 DEF CardStory, ReadAfter, DrawsDone, Coming, StillSo
    <2> QED
        BY <2>4, <2>5, <2>6
<1> QED
    BY <1>1, <1>2 DEF C!CardInv

-----------------------------------------------------------------------------
FormsHold  == scene = "form" => FormsIInv
SearchHold == scene = "search" => SearchIInv
CardHold   == scene = "card" => CardIInv

LEMMA FormsHeld == ScreensSpec => []FormsHold
<1>1. ScreensInit => FormsHold
    BY FormsOpen DEF ScreensInit, FormsHold
<1>2. FormsHold /\ [AnyStep]_all => FormsHold'
    <2> SUFFICES ASSUME FormsHold, [AnyStep]_all, scene' = "form" PROVE FormsIInv'
        BY DEF FormsHold
    <2>1. FormsIInv /\ (F!Next \/ UNCHANGED shared)
        BY SceneStays DEF FormsHold
    <2>2. CASE UNCHANGED shared
        BY <2>1, <2>2 DEF shared, FormsIInv, F!TypeOK, F!RefusalsAreSaid, SentApart, StillFollowed,
            StillWritten, CarriedOutLast
    <2> QED
        BY <2>1, <2>2, FormsStep
<1> QED
    BY <1>1, <1>2, PTL DEF ScreensSpec, AnyStep

LEMMA SearchHeld == ScreensSpec => []SearchHold
<1>1. ScreensInit => SearchHold
    BY SearchOpens DEF ScreensInit, SearchHold
<1>2. SearchHold /\ [AnyStep]_all => SearchHold'
    <2> SUFFICES ASSUME SearchHold, [AnyStep]_all, scene' = "search" PROVE SearchIInv'
        BY DEF SearchHold
    <2>1. SearchIInv /\ (S!Next \/ UNCHANGED shared)
        BY SceneStays DEF SearchHold
    <2>2. CASE UNCHANGED shared
        BY <2>1, <2>2 DEF shared, SearchIInv, AddressTyped, BarTyped, PageTyped, CountedRight, TurnedWithin
    <2> QED
        BY <2>1, <2>2, SearchStep
<1> QED
    BY <1>1, <1>2, PTL DEF ScreensSpec, AnyStep

LEMMA CardHeld == ScreensSpec => []CardHold
<1>1. ScreensInit => CardHold
    BY CardOpens DEF ScreensInit, CardHold
<1>2. CardHold /\ [AnyStep]_all => CardHold'
    <2> SUFFICES ASSUME CardHold, [AnyStep]_all, scene' = "card" PROVE CardIInv'
        BY DEF CardHold
    <2>1. CardIInv /\ (C!Next \/ UNCHANGED shared)
        BY SceneStays DEF CardHold
    <2>2. CASE UNCHANGED shared
        <3>1. (C!State)' = C!State /\ (C!Asks(v4))' = C!Asks(v4) /\ (ToBeTold' <=> ToBeTold)
            BY <2>2 DEF shared, C!State, C!Asks, ToBeTold
        <3>2. CardTyped' /\ OneIsShown' /\ v12' = v12
            BY <2>1, <2>2 DEF shared, CardIInv, CardTyped, OneIsShown
        <3>3. CardStory => CardStory'
            BY <2>2, <3>1 DEF shared, CardStory, CacheTyped, OutTyped, CacheWasSo, OutWasSo, StillSo,
                CardFollows, AsksTheOlder, TwoStories, ReadAfter, DrawsDone, Coming
        <3> QED
            BY <2>1, <3>2, <3>3 DEF CardIInv
    <2> QED
        BY <2>1, <2>2, CardStep
<1> QED
    BY <1>1, <1>2, PTL DEF ScreensSpec, AnyStep

\* What comes late is not taken for what it is not: a page at rest tells one story of a
\* transcription, the instance's where there is a stream; a page of results says that nothing
\* matched only where nothing did, and never asks for one library's category in another; a form
\* says what was refused of what it was not turned from, still holds it, and calls done what was
\* done last.  For any number of transcripts, words, libraries, categories, pages and calls.
THEOREM LateAnswersStand == ScreensSpec => []LateAnswersInv
<1>1. FormsHold /\ SearchHold /\ CardHold => LateAnswersInv
    BY FormsSay, SearchSays, CardSays DEF FormsHold, SearchHold, CardHold, LateAnswersInv
<1> QED
    BY <1>1, FormsHeld, SearchHeld, CardHeld, PTL

-----------------------------------------------------------------------------
(* Menus, dialogs and a listbox over a page (Overlays) *)

\* What holds at the start, and after each step if before it, holds throughout.
LEMMA UpTo ==
    ASSUME NEW n \in Nat, NEW T, 0 \in T, \A i \in 1..n : i - 1 \in T => i \in T
    PROVE  0..n \subseteq T
<1> SUFFICES ASSUME (0..n) \ T # {} PROVE FALSE
    OBVIOUS
<1> DEFINE Missed == (0..n) \ T
<1>1. Missed \subseteq Nat /\ Missed # {}
    OBVIOUS
<1> HIDE DEF Missed
<1>2. PICK x \in Missed : \A y \in Missed : ~(<<y, x>> \in OpToRel(<, Nat))
    BY <1>1, NatLessThanWellFounded, WFMin, Zenon
<1>3. x \in 0..n /\ x \notin T /\ x # 0
    BY DEF Missed
<1>4. x - 1 \in Nat /\ x - 1 < x /\ x \in Nat /\ x \in 1..n
    BY <1>3
<1>5. <<x - 1, x>> \in OpToRel(<, Nat)
    BY <1>4, Zenon DEF OpToRel
<1>6. x - 1 \notin Missed
    BY <1>2, <1>5
<1>7. x - 1 \in T
    BY <1>4, <1>6 DEF Missed
<1> QED
    BY <1>3, <1>4, <1>7

\* The runs of n steps from a.
Runs(n, A, a, step) ==
    {run \in [0..n -> A] : run[0] = a /\ \A i \in 1..n : run[i] = step[i][run[i - 1]]}

\* A start and what each step makes of what it finds make one run.
LEMMA RunExists ==
    ASSUME NEW n \in Nat, NEW A, NEW a \in A, NEW step \in [1..n -> [A -> A]]
    PROVE  \E run : run \in Runs(n, A, a, step)
<1> DEFINE Begun(m, run) == run[0] = a /\ \A i \in 1..m : run[i] = step[i][run[i - 1]]
           T == {m \in 0..n : \E run \in [0..m -> A] : Begun(m, run)}
<1>1. 0 \in T
    <2> DEFINE still == [i \in 0..0 |-> a]
    <2>1. still \in [0..0 -> A] /\ Begun(0, still)
        OBVIOUS
    <2> HIDE DEF still, Begun
    <2> QED
        BY <2>1
<1>2. ASSUME NEW m \in 1..n, m - 1 \in T PROVE m \in T
    <2>1. PICK run \in [0..(m - 1) -> A] : Begun(m - 1, run)
        BY <1>2
    <2> DEFINE on == [i \in 0..m |-> IF i = m THEN step[m][run[m - 1]] ELSE run[i]]
    <2>2. m - 1 \in 0..(m - 1) /\ step[m] \in [A -> A] /\ run[m - 1] \in A
        OBVIOUS
    <2>3. on \in [0..m -> A]
        BY <2>2
    <2>4. ASSUME NEW i \in 1..m PROVE on[i] = step[i][on[i - 1]]
        <3>1. i - 1 \in 0..m /\ i - 1 # m /\ on[i - 1] = run[i - 1]
            OBVIOUS
        <3>2. CASE i = m
            BY <3>1, <3>2
        <3>3. CASE i # m
            <4>1. i \in 1..(m - 1) /\ on[i] = run[i]
                BY <3>3
            <4> QED
                BY <2>1, <3>1, <4>1
        <3> QED
            BY <3>2, <3>3
    <2>5. on[0] = a
        BY <2>1
    <2>6. Begun(m, on)
        BY <2>4, <2>5
    <2> HIDE DEF on, Begun
    <2> QED
        BY <2>3, <2>6
<1> HIDE DEF T
<1>3. 0..n \subseteq T
    BY <1>1, <1>2, UpTo
<1>4. \E run \in [0..n -> A] : Begun(n, run)
    BY <1>3 DEF T
<1> QED
    BY <1>4 DEF Runs

\* What is in X of a sequence is all of that, in the order it was in.
LEMMA WithinKeeps ==
    ASSUME NEW Some, NEW s \in Seq(Some), NEW X
    PROVE  /\ O!Within(s, X) \in Seq(Some)
           /\ O!ToSet(O!Within(s, X)) = O!ToSet(s) \cap X
           /\ \E from \in [DOMAIN O!Within(s, X) -> DOMAIN s] :
                /\ \A k \in DOMAIN O!Within(s, X) : O!Within(s, X)[k] = s[from[k]]
                /\ \A k, l \in DOMAIN O!Within(s, X) : k < l => from[k] < from[l]
<1> DEFINE n == Len(s)
           A == Seq(Some)
           step == [i \in 1..n |-> [q \in A |-> IF s[i] \in X THEN Append(q, s[i]) ELSE q]]
           Stands(f) == f = [i \in 0..n |-> IF i = 0 THEN <<>>
                                            ELSE IF s[i] \in X THEN Append(f[i - 1], s[i])
                                            ELSE f[i - 1]]
<1>1. n \in Nat /\ \A i \in 1..n : s[i] \in Some
    OBVIOUS
<1>2. PICK run \in [0..n -> A] : run[0] = <<>> /\ \A i \in 1..n : run[i] = step[i][run[i - 1]]
    <2>1. step \in [1..n -> [A -> A]] /\ <<>> \in A
        BY <1>1
    <2> HIDE DEF step, A, n
    <2>2. \E run : run \in Runs(n, A, <<>>, step)
        BY <1>1, <2>1, RunExists
    <2> QED
        BY <2>2 DEF Runs
<1>3. Stands(run)
    <2>1. ASSUME NEW i \in 1..n
          PROVE  run[i] = IF s[i] \in X THEN Append(run[i - 1], s[i]) ELSE run[i - 1]
        <3>1. i - 1 \in 0..n /\ run[i - 1] \in A
            BY <1>1, <1>2
        <3> QED
            BY <1>2, <3>1
    <2>2. \A i \in 0..n : i = 0 \/ i \in 1..n
        BY <1>1
    <2> HIDE DEF A
    <2>3. run = [i \in 0..n |-> run[i]]
        OBVIOUS
    <2> QED
        BY <1>2, <2>1, <2>2, <2>3
<1>4. PICK f : Stands(f) /\ O!Within(s, X) = f[n]
    <2>1. O!Within(s, X) = (CHOOSE f : Stands(f))[n]
        BY Zenon DEF O!Within
    <2> HIDE DEF Stands
    <2> QED
        BY <1>3, <2>1
<1> DEFINE Sound(i, q) ==
        /\ q \in A
        /\ \A j \in 1..i : s[j] \in X => \E k \in DOMAIN q : q[k] = s[j]
        /\ \E from \in [DOMAIN q -> 1..i] :
             /\ \A k \in DOMAIN q : q[k] = s[from[k]] /\ q[k] \in X
             /\ \A k, l \in DOMAIN q : k < l => from[k] < from[l]
    T == {i \in 0..n : Sound(i, f[i])}
<1>5. 0 \in T
    <2>1. f[0] = <<>>
        BY <1>1, <1>4
    <2>2. Sound(0, <<>>)
        <3>1. [k \in {} |-> 0] \in [DOMAIN <<>> -> 1..0] /\ DOMAIN <<>> = {} /\ <<>> \in A
            OBVIOUS
        <3> QED
            BY <3>1
    <2> HIDE DEF Sound
    <2> QED
        BY <1>1, <2>1, <2>2
<1>6. ASSUME NEW i \in 1..n, i - 1 \in T PROVE i \in T
    <2> DEFINE q == f[i - 1]
    <2>1. Sound(i - 1, q) /\ i \in 0..n /\ s[i] \in Some
        BY <1>1, <1>6
    <2>2. f[i] = IF s[i] \in X THEN Append(q, s[i]) ELSE q
        <3>1. i \in 0..n /\ i # 0
            BY <1>1
        <3> QED
            BY <1>4, <3>1, Zenon
    <2> HIDE DEF q
    <2>3. PICK from \in [DOMAIN q -> 1..(i - 1)] :
              /\ \A k \in DOMAIN q : q[k] = s[from[k]] /\ q[k] \in X
              /\ \A k, l \in DOMAIN q : k < l => from[k] < from[l]
        BY <2>1
    <2>4. CASE s[i] \in X
        <3> DEFINE r == Append(q, s[i])
                   new == [k \in DOMAIN r |-> IF k = Len(r) THEN i ELSE from[k]]
        <3>1. /\ r \in A /\ Len(r) = Len(q) + 1 /\ DOMAIN r = 1..(Len(q) + 1) /\ Len(q) \in Nat
              /\ DOMAIN q = 1..Len(q) /\ r[Len(q) + 1] = s[i]
              /\ \A k \in DOMAIN q : r[k] = q[k] /\ k \in DOMAIN r /\ k # Len(r)
              /\ \A k \in DOMAIN r : k = Len(r) \/ k \in DOMAIN q
            BY <2>1
        <3> HIDE DEF r
        <3>2. new \in [DOMAIN r -> 1..i]
            BY <3>1
        <3>3. \A k \in DOMAIN r : r[k] = s[new[k]] /\ r[k] \in X
            BY <2>3, <2>4, <3>1
        <3>4. \A k, l \in DOMAIN r : k < l => new[k] < new[l]
            BY <2>3, <3>1
        <3>5. ASSUME NEW j \in 1..i, s[j] \in X PROVE \E k \in DOMAIN r : r[k] = s[j]
            <4>1. CASE j = i
                BY <3>1, <4>1
            <4>2. CASE j # i
                <5>1. j \in 1..(i - 1)
                    BY <4>2
                <5> QED
                    BY <2>1, <3>1, <3>5, <5>1
            <4> QED
                BY <4>1, <4>2
        <3> HIDE DEF new
        <3>6. Sound(i, r)
            BY <3>1, <3>2, <3>3, <3>4, <3>5
        <3>7. f[i] = r
            BY <2>2, <2>4 DEF r
        <3> HIDE DEF Sound
        <3> QED
            BY <2>1, <3>6, <3>7
    <2>5. CASE s[i] \notin X
        <3>1. from \in [DOMAIN q -> 1..i]
            OBVIOUS
        <3>2. \A j \in 1..i : s[j] \in X => j \in 1..(i - 1)
            BY <2>5
        <3>3. Sound(i, q)
            BY <2>1, <2>3, <3>1, <3>2
        <3> HIDE DEF Sound
        <3> QED
            BY <2>1, <2>2, <2>5, <3>3
    <2> QED
        BY <2>4, <2>5
<1>7. n \in T
    <2> HIDE DEF T
    <2>1. 0..n \subseteq T
        BY <1>1, <1>5, <1>6, UpTo
    <2> QED
        BY <1>1, <2>1
<1> DEFINE w == O!Within(s, X)
<1>8. Sound(n, w)
    <2> HIDE DEF Sound
    <2> QED
        BY <1>4, <1>7
<1> HIDE DEF w
<1>9. DOMAIN s = 1..n
    OBVIOUS
<1>10. O!ToSet(w) = O!ToSet(s) \cap X
    <2>1. PICK from \in [DOMAIN w -> 1..n] : \A k \in DOMAIN w : w[k] = s[from[k]] /\ w[k] \in X
        BY <1>8
    <2>2. \A e \in O!ToSet(w) : e \in O!ToSet(s) /\ e \in X
        BY <1>9, <2>1 DEF O!ToSet
    <2>3. \A e \in O!ToSet(s) : e \in X => e \in O!ToSet(w)
        BY <1>8, <1>9 DEF O!ToSet
    <2> QED
        BY <2>2, <2>3
<1> QED
    BY <1>8, <1>9, <1>10 DEF w

-----------------------------------------------------------------------------
Stoppers   == DOMAIN Surfaces
Covers == {"dialog", "upload"}

LEMMA StoppersAre ==
    /\ Stoppers = {"search", "more", "add", "row", "close", "ok", "pick", "list", "cross", "go"}
    /\ "body" \notin Stoppers
    /\ Stoppers \cap Layers = {"list"}
    /\ Surfaces \in [Stoppers -> Layers \cup {"page"}]
BY DEF Stoppers, Surfaces, Layers

\* What surrounds a surface surrounds what is in it.
LEMMA Surrounded ==
    /\ Levels \in [Layers \cup {"page"} -> SUBSET (Layers \cup {"page"})]
    /\ \A o \in Layers : o \in Levels[o]
    /\ \A o \in Layers \cup {"page"} : \A p \in Layers : p \in Levels[o] => Levels[p] \subseteq Levels[o]
    /\ \A o \in Layers \cup {"page"} : o # "list" => Levels[o] \subseteq {o, "page"}
    /\ Levels["list"] = {"list", "dialog", "page"}
    /\ Levels["page"] = {"page"}
BY DEF Levels, Layers

LEMMA InOrderIs ==
    /\ InOrder \in Seq(Stoppers) /\ O!ToSet(InOrder) = Stoppers /\ Len(InOrder) = 10
    /\ InOrder[1] = "search" /\ InOrder[2] = "add" /\ InOrder[3] = "more" /\ InOrder[4] = "row"
    /\ InOrder[5] = "close" /\ InOrder[6] = "ok" /\ InOrder[7] = "pick" /\ InOrder[8] = "list"
    /\ InOrder[9] = "cross" /\ InOrder[10] = "go"
<1>1. /\ Len(InOrder) = 10 /\ DOMAIN InOrder = 1..10
      /\ InOrder[1] = "search" /\ InOrder[2] = "add" /\ InOrder[3] = "more" /\ InOrder[4] = "row"
      /\ InOrder[5] = "close" /\ InOrder[6] = "ok" /\ InOrder[7] = "pick" /\ InOrder[8] = "list"
      /\ InOrder[9] = "cross" /\ InOrder[10] = "go"
    BY DEF InOrder
<1>2. \A i \in 1..10 : InOrder[i] \in Stoppers
    <2>1. \A i \in 1..10 : i \in {1, 2, 3, 4, 5, 6, 7, 8, 9, 10}
        OBVIOUS
    <2> QED
        BY <1>1, <2>1, StoppersAre
<1>3. InOrder \in Seq(Stoppers)
    BY <1>2, StoppersAre DEF InOrder
<1>4. \A k \in Stoppers : \E i \in 1..10 : InOrder[i] = k
    BY <1>1, StoppersAre
<1>5. O!ToSet(InOrder) = Stoppers
    BY <1>1, <1>2, <1>4 DEF O!ToSet
<1> QED
    BY <1>1, <1>3, <1>5

LEMMA CleanedIs ==
    /\ CleanedInOrder \in Seq(Layers) /\ O!ToSet(CleanedInOrder) = Layers
    /\ DOMAIN CleanedInOrder = 1..4
    /\ \A i, j \in DOMAIN CleanedInOrder : CleanedInOrder[i] = CleanedInOrder[j] => i = j
<1>1. /\ DOMAIN CleanedInOrder = 1..4
      /\ CleanedInOrder[1] = "menu" /\ CleanedInOrder[2] = "list"
      /\ CleanedInOrder[3] = "dialog" /\ CleanedInOrder[4] = "upload"
    BY DEF CleanedInOrder
<1>2. \A i \in 1..4 : i = 1 \/ i = 2 \/ i = 3 \/ i = 4
    OBVIOUS
<1>3. CleanedInOrder \in Seq(Layers)
    BY DEF CleanedInOrder, Layers
<1>4. O!ToSet(CleanedInOrder) = Layers
    BY <1>1, <1>2 DEF O!ToSet, Layers
<1> QED
    BY <1>1, <1>2, <1>3, <1>4

LEMMA LeastIs ==
    ASSUME NEW n \in Nat, NEW I \in SUBSET (1..n), I # {}
    PROVE  O!Min(I) \in I /\ \A i \in I : O!Min(I) <= i
<1> DEFINE T == {i \in 0..n : (\A x \in I : x > i) \/ (\E x \in I : \A y \in I : x <= y)}
<1>1. 0 \in T
    OBVIOUS
<1>2. ASSUME NEW i \in 1..n, i - 1 \in T PROVE i \in T
    <2>1. CASE \A x \in I : x > i - 1
        <3>1. CASE i \in I
            <4>1. \A y \in I : i <= y
                BY <2>1
            <4> QED
                BY <3>1, <4>1
        <3>2. CASE i \notin I
            <4>1. \A x \in I : x > i
                BY <2>1, <3>2
            <4> QED
                BY <4>1
        <3> QED
            BY <3>1, <3>2
    <2> QED
        BY <1>2, <2>1
<1>3. 0..n \subseteq T
    <2> HIDE DEF T
    <2> QED
        BY <1>1, <1>2, UpTo
<1>4. n \in T
    <2> HIDE DEF T
    <2> QED
        BY <1>3
<1>5. \E x \in I : \A y \in I : x <= y
    <2>1. PICK x \in I : TRUE
        OBVIOUS
    <2>2. x \in 1..n
        OBVIOUS
    <2>3. ~(x > n)
        BY <2>2
    <2>4. ~(\A y \in I : y > n)
        BY <2>3
    <2> QED
        BY <1>4, <2>4, Zenon
<1> QED
    BY <1>5 DEF O!Min

LEMMA GreatestIs ==
    ASSUME NEW n \in Nat, NEW I \in SUBSET (1..n), I # {}
    PROVE  O!Max(I) \in I /\ \A i \in I : i <= O!Max(I)
<1> DEFINE T == {i \in 0..n : (\A x \in I : x > i) \/
                             (\E x \in I : \A y \in I : y <= i => y <= x)}
<1>1. 0 \in T
    OBVIOUS
<1>2. ASSUME NEW i \in 1..n, i - 1 \in T PROVE i \in T
    <2>1. CASE i \in I
        <3>1. \A y \in I : y <= i => y <= i
            OBVIOUS
        <3> QED
            BY <2>1, <3>1
    <2>2. CASE i \notin I
        <3>1. CASE \A x \in I : x > i - 1
            <4>1. \A x \in I : x > i
                BY <2>2, <3>1
            <4> QED
                BY <4>1
        <3>2. CASE \E x \in I : \A y \in I : y <= i - 1 => y <= x
            <4>1. PICK x \in I : \A y \in I : y <= i - 1 => y <= x
                BY <3>2
            <4>2. \A y \in I : y <= i => y <= x
                BY <2>2, <4>1
            <4> QED
                BY <4>2
        <3> QED
            BY <1>2, <3>1, <3>2
    <2> QED
        BY <2>1, <2>2
<1>3. 0..n \subseteq T
    <2> HIDE DEF T
    <2> QED
        BY <1>1, <1>2, UpTo
<1>4. n \in T
    <2> HIDE DEF T
    <2> QED
        BY <1>3
<1>5. \E x \in I : \A y \in I : y <= n => y <= x
    <2>1. PICK x \in I : TRUE
        OBVIOUS
    <2>2. x \in 1..n
        OBVIOUS
    <2>3. ~(x > n)
        BY <2>2
    <2>4. ~(\A y \in I : y > n)
        BY <2>3
    <2> QED
        BY <1>4, <2>4, Zenon
<1>6. \E x \in I : \A y \in I : x >= y
    <2>1. PICK x \in I : \A y \in I : y <= n => y <= x
        BY <1>5
    <2>2. \A y \in I : x >= y
        BY <2>1
    <2> QED
        BY <2>2
<1>7. O!Max(I) \in I /\ \A y \in I : O!Max(I) >= y
    BY <1>6 DEF O!Max
<1> QED
    BY <1>7

\* The first and the last of a sequence in a set are in it, with nothing of it before or after.
LEMMA EndsAre ==
    ASSUME NEW Some, NEW s \in Seq(Some), NEW X, X \cap O!ToSet(s) # {}
    PROVE  /\ O!FirstIn(s, X) \in X \cap O!ToSet(s) /\ O!LastIn(s, X) \in X \cap O!ToSet(s)
           /\ \E i \in DOMAIN s : /\ O!FirstIn(s, X) = s[i]
                                  /\ \A j \in DOMAIN s : s[j] \in X => i <= j
           /\ \E i \in DOMAIN s : /\ O!LastIn(s, X) = s[i]
                                  /\ \A j \in DOMAIN s : s[j] \in X => j <= i
<1> DEFINE I == {i \in DOMAIN s : s[i] \in X}
<1>1. Len(s) \in Nat /\ I \in SUBSET (1..Len(s)) /\ I # {}
    BY DEF O!ToSet
<1>2. O!FirstIn(s, X) = s[O!Min(I)] /\ O!LastIn(s, X) = s[O!Max(I)]
    BY DEF O!FirstIn, O!LastIn
<1>3. \A i \in I : i \in DOMAIN s /\ s[i] \in X /\ s[i] \in O!ToSet(s)
    BY DEF O!ToSet
<1>4. \A j \in DOMAIN s : s[j] \in X => j \in I
    OBVIOUS
<1> HIDE DEF I
<1>5. O!Min(I) \in I /\ (\A i \in I : O!Min(I) <= i) /\ O!Max(I) \in I /\ (\A i \in I : i <= O!Max(I))
    BY <1>1, LeastIs, GreatestIs
<1> QED
    BY <1>2, <1>3, <1>4, <1>5

-----------------------------------------------------------------------------
\* Overlays in an order, each once.
Lined(s) == s \in Seq(Layers) /\ \A i, j \in DOMAIN s : s[i] = s[j] => i = j

\* What a commit leaves: a listener for each that is open, an overlay only with what surrounds
\* it, and the focus on something that is shown, or nowhere.
Sorted(c) ==
    /\ Lined(c.open) /\ Lined(c.heard) /\ O!ToSet(c.heard) = O!ToSet(c.open)
    /\ c.focus \in Stoppers \cup {"body"}
    /\ c.returns \in [Layers -> Stoppers \cup {"body"}]
    /\ c.locked \in BOOLEAN /\ c.before \in [Layers -> BOOLEAN]
    /\ \A o \in O!ToSet(c.open) : Levels[o] \subseteq O!ToSet(c.open) \cup {"page"}
    /\ c.focus # "body" => O!Shown(c.focus, O!ToSet(c.open))

OverlaysIInv == Sorted(O!Now) /\ v7 \subseteq {"more"}

\* The page is locked by the covers of a commit, and each found it so.
Agreed(c) ==
    /\ c.locked <=> O!ToSet(c.open) \cap Covers # {}
    /\ \A i \in DOMAIN c.open : c.open[i] \in Covers =>
           (c.before[c.open[i]] <=> \E j \in 1..(i - 1) : c.open[j] \in Covers)

\* With those of left open, a cover is cleaned up before one that had opened after it.
CrossedTo(left) ==
    \E i, j \in DOMAIN v1 :
        /\ i < j /\ {v1[i], v1[j]} \subseteq Covers /\ v1[i] \notin left
        /\ \/ v1[j] \in left
           \/ \E k, l \in DOMAIN CleanedInOrder :
                 k < l /\ CleanedInOrder[k] = v1[i] /\ CleanedInOrder[l] = v1[j]

LEMMA NowIs ==
    /\ O!Now.open = v1 /\ O!Now.heard = v2 /\ O!Now.focus = v3 /\ O!Now.returns = v4
    /\ O!Now.locked = v5 /\ O!Now.before = v6 /\ O!Open = O!ToSet(v1)
    /\ Agreed(O!Now) <=> O!Agrees
BY DEF O!Now, O!Open, Agreed, O!Agrees, Covers

LEMMA LinedHas ==
    ASSUME NEW s, Lined(s)
    PROVE  O!ToSet(s) \subseteq Layers
BY DEF Lined, O!ToSet

\* What is left of a line is in line.
LEMMA LinedWithin ==
    ASSUME NEW s, Lined(s), NEW X
    PROVE  Lined(O!Within(s, X)) /\ O!ToSet(O!Within(s, X)) = O!ToSet(s) \cap X
<1> DEFINE w == O!Within(s, X)
<1>1. /\ w \in Seq(Layers) /\ O!ToSet(w) = O!ToSet(s) \cap X
      /\ \E from \in [DOMAIN w -> DOMAIN s] :
           /\ \A k \in DOMAIN w : w[k] = s[from[k]]
           /\ \A k, l \in DOMAIN w : k < l => from[k] < from[l]
    <2>1. s \in Seq(Layers)
        BY DEF Lined
    <2> QED
        BY <2>1, WithinKeeps
<1> HIDE DEF w
<1>2. PICK from \in [DOMAIN w -> DOMAIN s] :
           /\ \A k \in DOMAIN w : w[k] = s[from[k]]
           /\ \A k, l \in DOMAIN w : k < l => from[k] < from[l]
    BY <1>1
<1>3. ASSUME NEW i \in DOMAIN w, NEW j \in DOMAIN w, w[i] = w[j] PROVE i = j
    <2>1. from[i] = from[j] /\ from[i] \in DOMAIN s
        BY <1>2, <1>3 DEF Lined
    <2>2. DOMAIN s \subseteq Nat /\ DOMAIN w \subseteq Nat
        BY <1>1 DEF Lined
    <2>3. i \in Nat /\ j \in Nat /\ from[i] \in Nat
        BY <2>1, <2>2
    <2>4. ~(i < j) /\ ~(j < i)
        BY <1>2, <2>1, <2>3
    <2> QED
        BY <2>3, <2>4
<1> QED
    BY <1>1, <1>3 DEF Lined, w

\* One more at the end of a line that has it not.
LEMMA LinedAppend ==
    ASSUME NEW s, Lined(s), NEW o \in Layers, o \notin O!ToSet(s)
    PROVE  /\ Lined(Append(s, o)) /\ O!ToSet(Append(s, o)) = O!ToSet(s) \cup {o}
           /\ DOMAIN Append(s, o) = DOMAIN s \cup {Len(s) + 1} /\ Len(s) \in Nat
           /\ DOMAIN s = 1..Len(s)
           /\ Append(s, o)[Len(s) + 1] = o /\ \A i \in DOMAIN s : Append(s, o)[i] = s[i]
<1> DEFINE a == Append(s, o)
<1>1. /\ a \in Seq(Layers) /\ DOMAIN a = DOMAIN s \cup {Len(s) + 1} /\ Len(s) \in Nat
      /\ DOMAIN s = 1..Len(s) /\ a[Len(s) + 1] = o /\ \A i \in DOMAIN s : a[i] = s[i]
    BY DEF Lined
<1> HIDE DEF a
<1>2. O!ToSet(a) = O!ToSet(s) \cup {o}
    BY <1>1 DEF O!ToSet
<1>3. \A i \in DOMAIN s : s[i] # o
    BY DEF O!ToSet
<1>4. Lined(a)
    BY <1>1, <1>3 DEF Lined
<1> QED
    BY <1>1, <1>2, <1>4 DEF a

\* What becomes of the variables is sorted when the commit is, and locked as it is.
LEMMA BecomesKeeps ==
    ASSUME NEW c, Sorted(c), v7 \subseteq {"more"}, O!Becomes(c)
    PROVE  OverlaysIInv' /\ v7' = v7 /\ v1' = c.open /\ v3' = c.focus /\ (Agreed(c) => O!Agrees')
<1>1. /\ v1' = c.open /\ v2' = c.heard /\ v3' = c.focus /\ v4' = c.returns /\ v5' = c.locked
      /\ v6' = c.before /\ v7' = v7
    BY DEF O!Becomes
<1>2. O!Now' = [open |-> c.open, heard |-> c.heard, focus |-> c.focus, returns |-> c.returns,
                locked |-> c.locked, before |-> c.before]
    BY <1>1 DEF O!Now
<1>4. Sorted(O!Now)'
    BY <1>1, <1>2 DEF Sorted, O!Shown
<1>5. Agreed(c) => O!Agrees'
    BY <1>1 DEF Agreed, O!Agrees, O!Open, Covers
<1> QED
    BY <1>1, <1>4, <1>5 DEF OverlaysIInv

-----------------------------------------------------------------------------
LEMMA FocusableIs ==
    ASSUME NEW o \in Layers, NEW Y
    PROVE  O!Focusable(o, Y) =
               {s \in Stoppers : s # o /\ o \in Levels[Surfaces[s]] /\ O!Shown(s, Y)}
<1>1. \A s \in Stoppers : s # "body"
    BY StoppersAre
<1> QED
    BY <1>1, InOrderIs DEF O!Focusable, O!Holds

\* An overlay that opens takes the focus to something it shows, whatever else is open around it.
LEMMA LandsShown ==
    ASSUME NEW o \in Layers, o \notin O!Open, v7 \subseteq {"more"},
           o = "list" => "dialog" \in O!Open,
           "list" \in O!Open => "dialog" \in O!Open,
           NEW Y, Levels[o] \subseteq Y \cup {"page"}, o \in Y
    PROVE  O!Lands(o) \in Stoppers /\ O!Shown(O!Lands(o), Y)
<1> DEFINE stops == O!Focusable(o, O!Open \cup {o})
           sought == IF stops \cap {"ok"} # {} THEN stops \cap {"ok"} ELSE stops
<1>1. stops = {s \in Stoppers : /\ s # o /\ o \in Levels[Surfaces[s]]
                            /\ O!Shown(s, O!Open \cup {o})}
    BY FocusableIs
<1>2. O!Lands(o) = IF stops = {} THEN o ELSE O!FirstIn(InOrder, sought)
    BY DEF O!Lands
<1>3. stops # {} => O!FirstIn(InOrder, sought) \in stops
    <2> SUFFICES ASSUME stops # {} PROVE O!FirstIn(InOrder, sought) \in stops
        OBVIOUS
    <2>1. sought \subseteq stops /\ sought # {} /\ stops \subseteq Stoppers
        BY <1>1
    <2> HIDE DEF sought, stops
    <2>2. sought \cap O!ToSet(InOrder) # {}
        BY <2>1, InOrderIs
    <2> QED
        BY <2>1, <2>2, InOrderIs, EndsAre
<1> HIDE DEF sought, stops
<1>4. CASE o = "list"
    <2>1. stops = {}
        BY <1>1, <1>4, StoppersAre, Surrounded DEF Surfaces, Levels, Stoppers
    <2>2. O!Lands(o) = "list" /\ "list" \in Stoppers /\ Surfaces["list"] = "dialog"
        BY <1>2, <1>4, <2>1, StoppersAre DEF Surfaces
    <2> QED
        BY <1>4, <2>2, Surrounded DEF O!Shown
<1>5. CASE o # "list"
    <2>1. \A s \in Stoppers : o \in Levels[Surfaces[s]] => Surfaces[s] = o
        BY <1>5, StoppersAre DEF Surfaces, Levels, Stoppers, Layers
    <2>2. \E s \in Stoppers : s \notin Layers /\ Surfaces[s] = o /\ s # "more"
        BY <1>5, StoppersAre DEF Surfaces, Stoppers, Layers
    <2>3. \A s \in Stoppers : Surfaces[s] = o /\ s \notin Layers /\ s # "more" => O!Shown(s, O!Open \cup {o})
        BY <1>5, Surrounded, StoppersAre DEF O!Shown
    <2>4. stops # {}
        BY <1>1, <2>2, <2>3, Surrounded
    <2>5. O!Lands(o) \in stops
        BY <1>2, <1>3, <2>4
    <2>6. /\ O!Lands(o) \in Stoppers /\ Surfaces[O!Lands(o)] = o
          /\ O!Shown(O!Lands(o), O!Open \cup {o})
        BY <1>1, <2>1, <2>5
    <2>7. O!Lands(o) \notin Layers
        <3>1. ASSUME O!Lands(o) = "list" PROVE FALSE
            <4>1. o = "dialog" /\ "list" \in O!Open \cup {o}
                BY <2>6, <3>1 DEF O!Shown, Surfaces, Layers
            <4> QED
                BY <4>1
        <3> QED
            BY <2>6, <3>1, StoppersAre
    <2> QED
        BY <2>6, <2>7 DEF O!Shown
<1> QED
    BY <1>4, <1>5

\* To open an overlay over what is open keeps order, and its cover is the next to lock the page.
LEMMA OpenedKeeps ==
    ASSUME OverlaysIInv, NEW c, Sorted(c), O!ToSet(c.open) \subseteq O!Open,
           NEW o \in Layers, o \notin O!Open,
           Levels[o] \subseteq O!ToSet(c.open) \cup {o, "page"}
    PROVE  /\ Sorted(O!Opened(c, o))
           /\ O!ToSet(O!Opened(c, o).open) = O!ToSet(c.open) \cup {o}
           /\ Agreed(c) => Agreed(O!Opened(c, o))
<1> DEFINE n == O!Opened(c, o)
           Y == O!ToSet(c.open) \cup {o}
<1>1. /\ n.open = Append(c.open, o) /\ n.heard = Append(c.heard, o) /\ n.focus = O!Lands(o)
      /\ n.returns = [c.returns EXCEPT ![o] = c.focus]
      /\ n.locked = (c.locked \/ o \in Covers)
      /\ n.before = [c.before EXCEPT ![o] = c.locked]
    BY DEF O!Opened, Covers
<1>2. /\ Lined(c.open) /\ Lined(c.heard) /\ o \notin O!ToSet(c.open) /\ o \notin O!ToSet(c.heard)
      /\ O!ToSet(c.heard) = O!ToSet(c.open)
    BY DEF Sorted
<1>3. Lined(n.open) /\ O!ToSet(n.open) = Y /\ Lined(n.heard) /\ O!ToSet(n.heard) = Y
    BY <1>1, <1>2, LinedAppend
<1>4. n.focus \in Stoppers /\ O!Shown(n.focus, Y)
    <2>1. /\ \A p \in O!Open : Levels[p] \subseteq O!Open \cup {"page"}
          /\ v7 \subseteq {"more"}
        BY NowIs DEF OverlaysIInv, Sorted
    <2>2. "list" \in O!Open => "dialog" \in O!Open
        BY <2>1, Surrounded
    <2>3. o = "list" => "dialog" \in O!Open
        BY Surrounded
    <2>4. Levels[o] \subseteq Y \cup {"page"} /\ o \in Y
        OBVIOUS
    <2>5. n.focus = O!Lands(o)
        BY <1>1
    <2> HIDE DEF n, Y
    <2>6. O!Lands(o) \in Stoppers /\ O!Shown(O!Lands(o), Y)
        BY <2>1, <2>2, <2>3, <2>4, LandsShown
    <2> QED
        BY <2>5, <2>6
<1>5. \A p \in Y : Levels[p] \subseteq Y \cup {"page"}
    BY DEF Sorted
<1>6. /\ n.returns \in [Layers -> Stoppers \cup {"body"}] /\ n.locked \in BOOLEAN
      /\ n.before \in [Layers -> BOOLEAN]
    BY <1>1 DEF Sorted
<1>7. Sorted(n)
    <2> HIDE DEF n, Y
    <2> QED
        BY <1>3, <1>4, <1>5, <1>6, StoppersAre DEF Sorted
<1>8. ASSUME Agreed(c) PROVE Agreed(n)
    <2>1. /\ DOMAIN n.open = DOMAIN c.open \cup {Len(c.open) + 1} /\ Len(c.open) \in Nat
          /\ DOMAIN c.open = 1..Len(c.open)
          /\ n.open[Len(c.open) + 1] = o /\ \A i \in DOMAIN c.open : n.open[i] = c.open[i]
        BY <1>1, <1>2, LinedAppend
    <2>2. \A i \in DOMAIN c.open : c.open[i] # o /\ c.open[i] \in Layers
        BY <1>2 DEF O!ToSet, Lined
    <2>3. n.before[o] = c.locked /\ \A p \in Layers : p # o => n.before[p] = c.before[p]
        BY <1>1 DEF Sorted
    <2>4. n.locked <=> O!ToSet(n.open) \cap Covers # {}
        BY <1>1, <1>3, <1>8 DEF Agreed
    <2> HIDE DEF n, Y
    <2>5. ASSUME NEW i \in DOMAIN n.open, n.open[i] \in Covers
          PROVE  n.before[n.open[i]] <=> \E j \in 1..(i - 1) : n.open[j] \in Covers
        <3>1. CASE i \in DOMAIN c.open
            <4>1. \A j \in 1..(i - 1) : j \in DOMAIN c.open /\ n.open[j] = c.open[j]
                BY <2>1, <3>1
            <4>2. n.open[i] = c.open[i] /\ n.before[n.open[i]] = c.before[c.open[i]]
                BY <2>1, <2>2, <2>3, <3>1
            <4>3. c.before[c.open[i]] <=> \E j \in 1..(i - 1) : c.open[j] \in Covers
                BY <1>8, <2>5, <3>1, <4>2 DEF Agreed
            <4> QED
                BY <4>1, <4>2, <4>3
        <3>2. CASE i = Len(c.open) + 1
            <4>1. 1..(i - 1) = DOMAIN c.open
                BY <2>1, <3>2
            <4>2. c.locked <=> \E j \in DOMAIN c.open : c.open[j] \in Covers
                BY <1>8 DEF Agreed, O!ToSet
            <4> QED
                BY <2>1, <2>3, <3>2, <4>1, <4>2
        <3> QED
            BY <2>1, <3>1, <3>2
    <2> QED
        BY <2>4, <2>5 DEF Agreed
<1> QED
    BY <1>3, <1>7, <1>8 DEF n, Y

-----------------------------------------------------------------------------
\* What goes when the overlays of X go, and where that leaves the keyboard.
LEMMA ClosedIs ==
    ASSUME OverlaysIInv, NEW X
    PROVE  LET out    == O!With(X)
               left   == O!Open \ out
               giving == {o \in out : O!Shown(v4[o], left)}
               c      == O!Closed(X)
           IN  /\ c.open = O!Within(v1, left) /\ c.heard = O!Within(v2, left)
               /\ c.focus = IF giving # {} THEN v4[O!LastIn(CleanedInOrder, giving)]
                            ELSE IF \E o \in out : O!Holds(o, v3) THEN "body" ELSE v3
               /\ c.locked = IF out \cap Covers # {}
                             THEN v6[O!LastIn(CleanedInOrder, out \cap Covers)] ELSE v5
               /\ c.returns = v4 /\ c.before = v6
               /\ out \subseteq O!Open /\ left \subseteq Layers /\ O!ToSet(c.open) = left
               /\ out \subseteq Layers
               /\ X \cap O!Open \subseteq out
               /\ \A o \in O!Open : Levels[o] \cap X # {} <=> o \in out
<1> DEFINE out    == O!With(X)
           left   == O!Open \ out
           c      == O!Closed(X)
<1>1. /\ c.open = O!Within(v1, left) /\ c.heard = O!Within(v2, left)
      /\ c.focus = IF {o \in out : O!Shown(v4[o], left)} # {}
                   THEN v4[O!LastIn(CleanedInOrder, {o \in out : O!Shown(v4[o], left)})]
                   ELSE IF \E o \in out : O!Holds(o, v3) THEN "body" ELSE v3
      /\ c.locked = IF out \cap Covers # {}
                    THEN v6[O!LastIn(CleanedInOrder, out \cap Covers)] ELSE v5
      /\ c.returns = v4 /\ c.before = v6
    BY DEF O!Closed, O!Now, O!LeftLocked, Covers
<1>2. out = {o \in O!Open : Levels[o] \cap X # {}}
    BY DEF O!With
<1>3. Lined(v1) /\ O!Open = O!ToSet(v1) /\ O!Open \subseteq Layers
    BY NowIs, LinedHas DEF OverlaysIInv, Sorted
<1> HIDE DEF out, c
<1>4. O!ToSet(c.open) = left
    BY <1>1, <1>2, <1>3, LinedWithin
<1>5. X \cap O!Open \subseteq out
    BY <1>2, <1>3, Surrounded
<1> QED
    BY <1>1, <1>2, <1>3, <1>4, <1>5 DEF out, c

LEMMA LastCleaned ==
    ASSUME NEW X \in SUBSET Layers, X # {}
    PROVE  /\ O!LastIn(CleanedInOrder, X) \in X
           /\ \E i \in DOMAIN CleanedInOrder :
                 /\ O!LastIn(CleanedInOrder, X) = CleanedInOrder[i]
                 /\ \A j \in DOMAIN CleanedInOrder : CleanedInOrder[j] \in X => j <= i
BY CleanedIs, EndsAre

\* To close overlays, with what is drawn inside them, keeps order.
LEMMA ClosedKeeps ==
    ASSUME OverlaysIInv, NEW X
    PROVE  Sorted(O!Closed(X))
<1> DEFINE out    == O!With(X)
           left   == O!Open \ out
           giving == {o \in out : O!Shown(v4[o], left)}
           c      == O!Closed(X)
<1>1. /\ c.open = O!Within(v1, left) /\ c.heard = O!Within(v2, left)
      /\ c.focus = IF giving # {} THEN v4[O!LastIn(CleanedInOrder, giving)]
                   ELSE IF \E o \in out : O!Holds(o, v3) THEN "body" ELSE v3
      /\ c.locked = IF out \cap Covers # {}
                    THEN v6[O!LastIn(CleanedInOrder, out \cap Covers)] ELSE v5
      /\ c.returns = v4 /\ c.before = v6
      /\ out \subseteq O!Open /\ out \subseteq Layers /\ O!ToSet(c.open) = left
      /\ \A o \in O!Open : Levels[o] \cap X # {} <=> o \in out
    BY ClosedIs
<1>2. /\ Lined(v1) /\ Lined(v2) /\ O!Open = O!ToSet(v1) /\ O!ToSet(v2) = O!Open
      /\ v3 \in Stoppers \cup {"body"} /\ v4 \in [Layers -> Stoppers \cup {"body"}] /\ v5 \in BOOLEAN
      /\ v6 \in [Layers -> BOOLEAN] /\ O!Open \subseteq Layers
      /\ \A o \in O!Open : Levels[o] \subseteq O!Open \cup {"page"}
      /\ v3 # "body" => O!Shown(v3, O!Open)
    BY NowIs, LinedHas DEF OverlaysIInv, Sorted
<1>3. giving \subseteq out /\ \A o \in giving : O!Shown(v4[o], left)
    OBVIOUS
<1> HIDE DEF out, giving, c
<1>4. Lined(c.open) /\ Lined(c.heard) /\ O!ToSet(c.heard) = O!ToSet(c.open)
    <2> HIDE DEF left
    <2>1. Lined(O!Within(v1, left)) /\ Lined(O!Within(v2, left))
        BY <1>2, LinedWithin
    <2>2. /\ O!ToSet(O!Within(v1, left)) = O!ToSet(v1) \cap left
          /\ O!ToSet(O!Within(v2, left)) = O!ToSet(v2) \cap left
        BY <1>2, LinedWithin, Zenon
    <2> QED
        BY <1>1, <1>2, <2>1, <2>2
<1>5. \A o \in left : Levels[o] \subseteq left \cup {"page"}
    <2> SUFFICES ASSUME NEW o \in left, NEW p \in Levels[o], p # "page" PROVE p \notin out
        BY <1>2
    <2>1. p \in Layers /\ Levels[p] \subseteq Levels[o]
        BY <1>2, Surrounded
    <2>2. Levels[o] \cap X = {}
        BY <1>1
    <2>3. Levels[p] \cap X = {}
        BY <2>1, <2>2
    <2> QED
        BY <1>1, <1>2, <2>3
<1>6. c.focus \in Stoppers \cup {"body"} /\ (c.focus # "body" => O!Shown(c.focus, left))
    <2>1. CASE giving # {}
        <3>1. O!LastIn(CleanedInOrder, giving) \in giving
            BY <1>1, <1>3, <2>1, LastCleaned
        <3> QED
            BY <1>1, <1>2, <1>3, <2>1, <3>1
    <2>2. CASE giving = {} /\ \E o \in out : O!Holds(o, v3)
        BY <1>1, <2>2
    <2>3. CASE giving = {} /\ ~(\E o \in out : O!Holds(o, v3))
        <3>1. c.focus = v3
            BY <1>1, <2>3
        <3>2. ASSUME v3 # "body" PROVE O!Shown(v3, left)
            <4>1. O!Shown(v3, O!Open) /\ v3 \in Stoppers
                BY <1>2, <3>2
            <4>2. \A o \in out : v3 # o /\ o \notin Levels[Surfaces[v3]]
                BY <2>3, <3>2 DEF O!Holds
            <4> QED
                BY <4>1, <4>2 DEF O!Shown
        <3> QED
            BY <1>2, <3>1, <3>2
    <2> QED
        BY <2>1, <2>2, <2>3
<1>7. c.locked \in BOOLEAN
    <2>1. CASE out \cap Covers # {}
        <3>1. O!LastIn(CleanedInOrder, out \cap Covers) \in Layers
            BY <1>1, <2>1, LastCleaned
        <3> QED
            BY <1>1, <1>2, <2>1, <3>1
    <2> QED
        BY <1>1, <1>2, <2>1
<1> QED
    BY <1>1, <1>2, <1>4, <1>5, <1>6, <1>7 DEF Sorted, c

\* Unless covers are closed in another order than the last one first, the page is left as the
\* covers that stay open want it.
LEMMA ClosedAgrees ==
    ASSUME OverlaysIInv, NEW X, O!Agrees, ~CrossedTo(O!ToSet(O!Closed(X).open))
    PROVE  Agreed(O!Closed(X))
<1> DEFINE out    == O!With(X)
           left   == O!Open \ out
           c      == O!Closed(X)
           w      == O!Within(v1, left)
           going  == out \cap Covers
<1>1. /\ c.open = O!Within(v1, left)
      /\ c.locked = IF going # {} THEN v6[O!LastIn(CleanedInOrder, going)] ELSE v5
      /\ c.before = v6
      /\ out \subseteq O!Open /\ out \subseteq Layers /\ O!ToSet(c.open) = left
    BY ClosedIs
<1>2. /\ v1 \in Seq(Layers) /\ \A i, j \in DOMAIN v1 : v1[i] = v1[j] => i = j
      /\ O!Open = O!ToSet(v1) /\ v5 \in BOOLEAN
    BY NowIs DEF OverlaysIInv, Sorted, Lined
<1>3. /\ v5 <=> O!Open \cap Covers # {}
      /\ \A i \in DOMAIN v1 : v1[i] \in Covers =>
             (v6[v1[i]] <=> \E j \in 1..(i - 1) : v1[j] \in Covers)
    BY DEF O!Agrees, Covers
<1>4. \A i, j \in DOMAIN v1 :
          i < j /\ v1[i] \in Covers /\ v1[j] \in Covers /\ v1[i] \notin left =>
              /\ v1[j] \notin left
              /\ \A k, l \in DOMAIN CleanedInOrder :
                    CleanedInOrder[k] = v1[i] /\ CleanedInOrder[l] = v1[j] => ~(k < l)
    <2>1. ~CrossedTo(left)
        BY <1>1
    <2> HIDE DEF left
    <2> QED
        BY <2>1 DEF CrossedTo
<1>5. \E from \in [DOMAIN w -> DOMAIN v1] :
           /\ \A k \in DOMAIN w : w[k] = v1[from[k]]
           /\ \A k, l \in DOMAIN w : k < l => from[k] < from[l]
    <2> HIDE DEF left
    <2> QED
        BY <1>2, WithinKeeps
<1>6. w \in Seq(Layers) /\ O!ToSet(w) = left
    BY <1>1, <1>2, WithinKeeps
<1> HIDE DEF out, c, w, going
<1>7. DOMAIN v1 = 1..Len(v1) /\ Len(v1) \in Nat /\ DOMAIN w = 1..Len(w) /\ Len(w) \in Nat
    BY <1>2, <1>6
<1>8. w = c.open
    BY <1>1 DEF w
<1>9. c.locked <=> left \cap Covers # {}
    <2>1. CASE going = {}
        BY <1>1, <1>3, <2>1 DEF going
    <2>2. CASE going # {}
        <3>1. PICK m \in DOMAIN CleanedInOrder :
                  /\ O!LastIn(CleanedInOrder, going) = CleanedInOrder[m]
                  /\ CleanedInOrder[m] \in going
                  /\ \A j \in DOMAIN CleanedInOrder : CleanedInOrder[j] \in going => j <= m
            <4>1. going \in SUBSET Layers
                BY <1>1 DEF going
            <4>2. O!LastIn(CleanedInOrder, going) \in going
                BY <2>2, <4>1, LastCleaned
            <4> QED
                BY <2>2, <4>1, <4>2, LastCleaned
        <3> DEFINE last == CleanedInOrder[m]
        <3>2. PICK i \in DOMAIN v1 : v1[i] = last
            BY <1>1, <1>2, <3>1 DEF O!ToSet, going
        <3>3. c.locked = v6[last] /\ last \in Covers /\ last \in out /\ last \notin left
            BY <1>1, <2>2, <3>1 DEF going
        <3>4. ASSUME NEW j \in DOMAIN v1, v1[j] \in Covers, v1[j] \in out PROVE ~(j < i)
            <4>1. PICK k \in DOMAIN CleanedInOrder : CleanedInOrder[k] = v1[j]
                BY <1>1, <3>4, CleanedIs DEF O!ToSet
            <4>2. k <= m
                BY <3>1, <3>4, <4>1 DEF going
            <4>3. ASSUME j < i PROVE FALSE
                <5>1. ~(k < m)
                    BY <1>4, <3>2, <3>3, <3>4, <4>1, <4>3
                <5>2. k = m
                    BY <4>2, <5>1, CleanedIs
                <5>3. v1[j] = v1[i]
                    BY <3>2, <4>1, <5>2
                <5> QED
                    BY <1>2, <1>7, <4>3, <5>3
            <4> QED
                BY <4>3
        <3>5. v6[last] <=> \E j \in 1..(i - 1) : v1[j] \in Covers
            BY <1>3, <3>2, <3>3
        <3> HIDE DEF last
        <3>6. ASSUME NEW j \in 1..(i - 1), v1[j] \in Covers PROVE v1[j] \in left \cap Covers
            <4>1. j \in DOMAIN v1 /\ j < i
                BY <1>7
            <4> QED
                BY <1>2, <3>4, <3>6, <4>1 DEF O!ToSet
        <3>7. ASSUME NEW o \in left \cap Covers PROVE \E j \in 1..(i - 1) : v1[j] \in Covers
            <4>1. PICK j \in DOMAIN v1 : v1[j] = o
                BY <1>2 DEF O!ToSet
            <4>2. ~(i < j)
                BY <1>4, <3>2, <3>3, <3>7, <4>1
            <4>3. i # j
                BY <3>2, <3>3, <4>1
            <4> QED
                BY <1>7, <4>1, <4>2, <4>3
        <3> QED
            BY <3>3, <3>5, <3>6, <3>7
    <2> QED
        BY <2>1, <2>2
<1>10. ASSUME NEW k \in DOMAIN w, w[k] \in Covers
       PROVE  v6[w[k]] <=> \E l \in 1..(k - 1) : w[l] \in Covers
    <2>1. PICK from \in [DOMAIN w -> DOMAIN v1] :
           /\ \A x \in DOMAIN w : w[x] = v1[from[x]]
           /\ \A x, y \in DOMAIN w : x < y => from[x] < from[y]
        BY <1>5
    <2>2. v6[w[k]] <=> \E j \in 1..(from[k] - 1) : v1[j] \in Covers
        BY <1>3, <1>10, <2>1
    <2>3. ASSUME NEW l \in 1..(k - 1), w[l] \in Covers PROVE \E j \in 1..(from[k] - 1) : v1[j] \in Covers
        <3>1. l \in DOMAIN w /\ l < k
            BY <1>7
        <3>2. from[l] \in 1..(from[k] - 1) /\ v1[from[l]] \in Covers
            BY <1>7, <2>1, <2>3, <3>1
        <3> QED
            BY <3>2
    <2>4. ASSUME NEW j \in 1..(from[k] - 1), v1[j] \in Covers PROVE \E l \in 1..(k - 1) : w[l] \in Covers
        <3>1. j \in DOMAIN v1 /\ j < from[k] /\ from[k] \in DOMAIN v1
            BY <1>7, <2>1
        <3>2. v1[from[k]] \in left /\ v1[from[k]] \in Covers
            BY <1>6, <1>10, <2>1 DEF O!ToSet
        <3>3. v1[j] \in left
            BY <1>4, <2>4, <3>1, <3>2
        <3>4. PICK l \in DOMAIN w : w[l] = v1[j]
            BY <1>6, <3>3 DEF O!ToSet
        <3>5. from[l] = j
            BY <1>2, <2>1, <3>1, <3>4
        <3>6. ~(k < l) /\ k # l
            BY <1>7, <2>1, <3>1, <3>5
        <3>7. l \in 1..(k - 1)
            BY <1>7, <3>6
        <3> QED
            BY <2>4, <3>4, <3>7
    <2> QED
        BY <2>2, <2>3, <2>4
<1> QED
    BY <1>1, <1>6, <1>8, <1>9, <1>10 DEF Agreed, c

-----------------------------------------------------------------------------
\* A commit that keeps order, and the lock with it but where covers close in another order.
Orderly(c) ==
    /\ Sorted(c)
    /\ O!Agrees => Agreed(c) \/ CrossedTo(O!ToSet(c.open) \cap O!Open)

LEMMA OrderlyStep ==
    ASSUME OverlaysIInv, NEW c, Orderly(c), O!Becomes(c)
    PROVE  OverlaysIInv' /\ v1' = c.open /\ v3' = c.focus /\ (O!Agrees => O!Agrees' \/ O!Crossed)
<1>1. OverlaysIInv' /\ v7' = v7 /\ v1' = c.open /\ v3' = c.focus /\ (Agreed(c) => O!Agrees')
    BY BecomesKeeps DEF OverlaysIInv, Orderly
<1>2. ASSUME CrossedTo(O!ToSet(c.open) \cap O!Open) PROVE O!Crossed
    <2>1. PICK i \in DOMAIN v1, j \in DOMAIN v1 :
              /\ i < j /\ {v1[i], v1[j]} \subseteq Covers
              /\ v1[i] \notin O!ToSet(c.open) \cap O!Open
              /\ \/ v1[j] \in O!ToSet(c.open) \cap O!Open
                 \/ \E k, l \in DOMAIN CleanedInOrder :
                       k < l /\ CleanedInOrder[k] = v1[i] /\ CleanedInOrder[l] = v1[j]
        BY <1>2 DEF CrossedTo
    <2>2. v1[i] \in O!Open
        BY NowIs DEF O!ToSet
    <2> QED
        BY <1>1, <2>1, <2>2 DEF O!Crossed, Covers
<1> QED
    BY <1>1, <1>2 DEF Orderly

\* What a commit says.
Says == {"open", "heard", "focus", "returns", "locked", "before"}

\* To put the focus on what is shown, or nowhere, changes nothing else.
LEMMA FocusedOrderly ==
    ASSUME NEW c, Orderly(c), NEW f \in Stoppers \cup {"body"},
           f # "body" => O!Shown(f, O!ToSet(c.open)),
           DOMAIN c = Says
    PROVE  Orderly([c EXCEPT !.focus = f])
<1> DEFINE n == [c EXCEPT !.focus = f]
<1>1. /\ n.open = c.open /\ n.heard = c.heard /\ n.focus = f /\ n.returns = c.returns
      /\ n.locked = c.locked /\ n.before = c.before
    BY DEF Says
<1> HIDE DEF n
<1>2. Sorted(n)
    BY <1>1 DEF Orderly, Sorted
<1>3. Agreed(n) <=> Agreed(c)
    BY <1>1 DEF Agreed
<1>4. Orderly(n)
    BY <1>1, <1>2, <1>3 DEF Orderly
<1> QED
    BY <1>4 DEF n

LEMMA NowOrderly ==
    ASSUME OverlaysIInv
    PROVE  Orderly(O!Now) /\ O!ToSet(O!Now.open) = O!Open
BY NowIs DEF OverlaysIInv, Orderly

LEMMA ClosedOrderly ==
    ASSUME OverlaysIInv, NEW X
    PROVE  /\ Orderly(O!Closed(X)) /\ O!ToSet(O!Closed(X).open) = O!Open \ O!With(X)
           /\ X \cap O!Open \subseteq O!With(X) /\ O!With(X) \subseteq O!Open
<1>1. /\ Sorted(O!Closed(X)) /\ O!ToSet(O!Closed(X).open) = O!Open \ O!With(X)
      /\ X \cap O!Open \subseteq O!With(X) /\ O!With(X) \subseteq O!Open
    BY ClosedIs, ClosedKeeps
<1>2. O!ToSet(O!Closed(X).open) \cap O!Open = O!ToSet(O!Closed(X).open)
    BY <1>1
<1> QED
    BY <1>1, <1>2, ClosedAgrees DEF Orderly

LEMMA OpenedOrderly ==
    ASSUME OverlaysIInv, NEW c, Orderly(c), O!ToSet(c.open) \subseteq O!Open,
           NEW o \in Layers, o \notin O!Open,
           Levels[o] \subseteq O!ToSet(c.open) \cup {o, "page"}
    PROVE  Orderly(O!Opened(c, o)) /\ O!ToSet(O!Opened(c, o).open) = O!ToSet(c.open) \cup {o}
<1>1. /\ Sorted(O!Opened(c, o))
      /\ O!ToSet(O!Opened(c, o).open) = O!ToSet(c.open) \cup {o}
      /\ Agreed(c) => Agreed(O!Opened(c, o))
    BY OpenedKeeps DEF Orderly
<1>2. O!ToSet(O!Opened(c, o).open) \cap O!Open = O!ToSet(c.open) \cap O!Open
    BY <1>1
<1> QED
    BY <1>1, <1>2 DEF Orderly

\* A control that is shown is inside what surrounds its overlay.
LEMMA ControlsAre ==
    ASSUME NEW o \in Layers, NEW Y, Controls[o] \in Stoppers, O!Shown(Controls[o], Y)
    PROVE  Levels[o] \subseteq Y \cup {o, "page"}
<1>1. Controls[o] = "pick" => o = "list"
    BY DEF Controls, Layers
<1>2. CASE o = "list"
    <2>1. Controls[o] = "pick" /\ Surfaces["pick"] = "dialog"
        BY <1>2 DEF Controls, Surfaces
    <2>2. Levels["dialog"] \subseteq Y \cup {"page"}
        BY <2>1 DEF O!Shown
    <2>3. "dialog" \in Y
        BY <2>2, Surrounded DEF Layers
    <2> QED
        BY <1>2, <2>3, Surrounded
<1>3. CASE o # "list"
    BY <1>3, Surrounded
<1> QED
    BY <1>2, <1>3

\* A control that is pressed opens its overlay, closes it, or does nothing.
LEMMA PressedIs ==
    ASSUME OverlaysIInv, NEW c, Orderly(c), O!ToSet(c.open) \subseteq O!Open,
           NEW e \in Stoppers, O!Shown(e, O!ToSet(c.open))
    PROVE  /\ Orderly(O!Pressed(c, e))
           /\ \/ O!Pressed(c, e) = c
              \/ O!ToSet(O!Pressed(c, e).open) # O!Open
<1>1. CASE ~(\E o \in Layers : Controls[o] = e)
    BY <1>1 DEF O!Pressed
<1>2. CASE \E o \in Layers : Controls[o] = e
    <2> DEFINE o == CHOOSE x \in Layers : Controls[x] = e
    <2>1. o \in Layers /\ Controls[o] = e
        BY <1>2
    <2>2. O!Pressed(c, e) = IF o \notin O!Open THEN O!Opened(c, o)
                            ELSE IF o \in Covers THEN c ELSE O!Closed({o})
        BY <1>2 DEF O!Pressed, Covers
    <2> HIDE DEF o
    <2>3. CASE o \notin O!Open
        <3>1. Levels[o] \subseteq O!ToSet(c.open) \cup {o, "page"}
            BY <2>1, ControlsAre
        <3>2. Orderly(O!Opened(c, o)) /\ O!ToSet(O!Opened(c, o).open) = O!ToSet(c.open) \cup {o}
            BY <2>1, <2>3, <3>1, OpenedOrderly
        <3> QED
            BY <2>2, <2>3, <3>2
    <2>4. CASE o \in O!Open /\ o \in Covers
        BY <2>2, <2>4
    <2>5. CASE o \in O!Open /\ o \notin Covers
        <3>1. /\ Orderly(O!Closed({o})) /\ O!ToSet(O!Closed({o}).open) = O!Open \ O!With({o})
              /\ o \in O!With({o})
            BY <2>5, ClosedOrderly
        <3> QED
            BY <2>2, <2>5, <3>1
    <2> QED
        BY <2>3, <2>4, <2>5
<1> QED
    BY <1>1, <1>2

-----------------------------------------------------------------------------
\* Of a step: the lock agrees with the covers unless they crossed; and the keyboard leaves the
\* surface that opened last only by `/', by its control, or where another listener has a say.
LockStands == O!Agrees => O!Agrees' \/ O!Crossed
KeyboardStays ==
    v1 # <<>> /\ v1' = v1 /\ O!Holds(O!Top, v3) /\ ~O!Holds(O!Top, v3') =>
        v3' \in {"search", Controls[O!Top]} \/ O!Disputed(O!Top)

LEMMA TopIs ==
    ASSUME OverlaysIInv, v1 # <<>>
    PROVE  O!Top \in O!Open /\ O!Top \in Layers /\ O!Open # {}
<1>1. v1 \in Seq(Layers)
    BY NowIs DEF OverlaysIInv, Sorted, Lined
<1>2. Len(v1) \in DOMAIN v1
    BY <1>1
<1> QED
    BY <1>1, <1>2, NowIs DEF O!Top, O!Last, O!ToSet

\* A commit that keeps order and opens or closes something, or leaves the focus where it was.
LEMMA CommitKeeps ==
    ASSUME OverlaysIInv, NEW c, Orderly(c), O!Becomes(c),
           O!ToSet(c.open) # O!Open \/ c.focus = v3
    PROVE  OverlaysIInv' /\ LockStands /\ KeyboardStays
<1>1. OverlaysIInv' /\ v1' = c.open /\ v3' = c.focus /\ LockStands
    BY OrderlyStep DEF LockStands
<1>2. O!ToSet(v1) = O!Open
    BY NowIs
<1> QED
    BY <1>1, <1>2 DEF KeyboardStays

LEMMA Fields ==
    /\ DOMAIN O!Now = Says
    /\ \A X : DOMAIN O!Closed(X) = Says
<1>1. DOMAIN O!Now = Says
    BY DEF O!Now, Says
<1>2. \A X : DOMAIN O!Closed(X) = DOMAIN O!Now
    BY DEF O!Closed
<1> QED
    BY <1>1, <1>2

LEMMA EnterKeeps ==
    ASSUME OverlaysIInv, O!Enter
    PROVE  OverlaysIInv' /\ LockStands /\ KeyboardStays
<1> DEFINE c == O!Pressed(O!Now, v3)
<1>1. O!Shown(v3, O!Open) /\ O!Becomes(c)
    BY DEF O!Enter
<1>2. v3 \in Stoppers
    BY <1>1, NowIs DEF OverlaysIInv, Sorted, O!Shown
<1>3. Orderly(c) /\ (c = O!Now \/ O!ToSet(c.open) # O!Open)
    BY <1>1, <1>2, NowOrderly, PressedIs
<1> HIDE DEF c
<1> QED
    BY <1>1, <1>3, NowIs, CommitKeeps

LEMMA AllClose ==
    ASSUME OverlaysIInv, v1 # <<>>
    PROVE  O!ToSet(O!Closed(O!Open).open) # O!Open
<1>1. O!Open \subseteq O!With(O!Open) /\ O!ToSet(O!Closed(O!Open).open) = O!Open \ O!With(O!Open)
    BY ClosedOrderly
<1> QED
    BY <1>1, TopIs

LEMMA EscapeKeeps ==
    ASSUME OverlaysIInv, O!Escape
    PROVE  OverlaysIInv' /\ LockStands /\ KeyboardStays
<1>1. v1 # <<>> /\ O!Becomes(O!Closed(O!Open))
    BY DEF O!Escape
<1> QED
    BY <1>1, AllClose, ClosedOrderly, CommitKeeps

LEMMA ClickAwayKeeps ==
    ASSUME OverlaysIInv, O!ClickAway
    PROVE  OverlaysIInv' /\ LockStands /\ KeyboardStays
<1> DEFINE c == O!Closed(O!Open)
<1>1. PICK f \in {c.focus, "body"} : v1 # <<>> /\ O!Becomes([c EXCEPT !.focus = f])
    BY DEF O!ClickAway
<1>2. Orderly(c) /\ O!ToSet(c.open) # O!Open
    BY <1>1, AllClose, ClosedOrderly
<1>3. DOMAIN c = Says
    BY Fields
<1> HIDE DEF c
<1>4. f \in Stoppers \cup {"body"} /\ (f # "body" => O!Shown(f, O!ToSet(c.open)))
    BY <1>2 DEF Orderly, Sorted
<1> DEFINE d == [c EXCEPT !.focus = f]
<1>5. d.open = c.open
    BY <1>3 DEF Says
<1>6. Orderly(d) /\ O!Becomes(d)
    BY <1>1, <1>2, <1>3, <1>4, FocusedOrderly
<1> HIDE DEF d
<1> QED
    BY <1>2, <1>5, <1>6, CommitKeeps

LEMMA SlashKeeps ==
    ASSUME OverlaysIInv, O!Slash
    PROVE  OverlaysIInv' /\ LockStands /\ KeyboardStays
<1> DEFINE c == [O!Now EXCEPT !.focus = "search"]
<1>1. O!Becomes(c) /\ v3' = "search"
    BY DEF O!Slash, O!Becomes, O!Now
<1>2. "search" \in Stoppers /\ O!Shown("search", O!Open)
    BY StoppersAre, Surrounded DEF OverlaysIInv, O!Shown, Surfaces, Layers
<1>3. Orderly(c)
    BY <1>2, Fields, NowOrderly, FocusedOrderly
<1> HIDE DEF c
<1> QED
    BY <1>1, <1>3, OrderlyStep DEF LockStands, KeyboardStays

\* What is pointed at stays when what is outside of it closes.
LEMMA StillShown ==
    ASSUME OverlaysIInv, NEW e \in Stoppers, O!Shown(e, O!Open)
    PROVE  O!Shown(e, O!Open \ O!With(O!Outside(e)))
<1>1. \A p \in O!Outside(e) : /\ p \in O!Open /\ p \in Layers /\ p # e
                              /\ p \notin Levels[Surfaces[e]]
    BY NowIs, LinedHas, StoppersAre DEF O!Outside, O!Holds, OverlaysIInv, Sorted
<1>2. Surfaces[e] \in Layers \cup {"page"}
    BY StoppersAre
<1>3. ASSUME NEW o \in O!With(O!Outside(e)) PROVE o \notin Levels[Surfaces[e]] /\ o # e
    <2>1. PICK p \in O!Outside(e) : p \in Levels[o]
        BY DEF O!With
    <2>2. o \in Layers
        BY NowIs, LinedHas DEF O!With, OverlaysIInv, Sorted
    <2>3. o \notin Levels[Surfaces[e]]
        BY <1>1, <1>2, <2>1, <2>2, Surrounded
    <2>4. ASSUME o = e PROVE FALSE
        <3>1. o = "list" /\ Surfaces[e] = "dialog"
            BY <2>2, <2>4, StoppersAre DEF Surfaces
        <3>2. p \in {"list", "dialog", "page"} /\ p # "list" /\ p \in Layers
            BY <1>1, <2>1, <2>4, <3>1, Surrounded
        <3>3. p = "dialog" /\ "dialog" \in Levels["dialog"]
            BY <3>2, Surrounded DEF Layers
        <3> QED
            BY <1>1, <3>1, <3>3
    <2> QED
        BY <2>3, <2>4
<1> QED
    BY <1>3 DEF O!Shown

LEMMA ClickKeeps ==
    ASSUME OverlaysIInv, NEW e \in Stoppers, O!Click(e)
    PROVE  OverlaysIInv' /\ LockStands /\ KeyboardStays
<1> DEFINE n == [O!Now EXCEPT !.focus = e]
           c == O!Closed(O!Outside(e))
           s == [c EXCEPT !.focus = e]
<1>1. O!Shown(e, O!Open) /\ e # "body"
    BY StoppersAre DEF O!Click, O!Pointable
<1>2. \/ O!Outside(e) = {} /\ O!Becomes(O!Pressed(n, e))
      \/ O!Outside(e) # {} /\ (O!Becomes(s) \/ O!Becomes(O!Pressed(s, e)))
    BY DEF O!Click
<1>3. CASE O!Outside(e) = {} /\ O!Becomes(O!Pressed(n, e))
    <2>1. n.open = v1 /\ n.focus = e
        BY DEF O!Now
    <2>2. Orderly(n) /\ O!ToSet(n.open) = O!Open
        BY <1>1, <2>1, Fields, NowIs, NowOrderly, FocusedOrderly
    <2> HIDE DEF n
    <2> DEFINE p == O!Pressed(n, e)
    <2>3. Orderly(p) /\ (p = n \/ O!ToSet(p.open) # O!Open) /\ O!Becomes(p)
        BY <1>1, <1>3, <2>1, <2>2, PressedIs
    <2> HIDE DEF p
    <2>4. CASE O!ToSet(p.open) # O!Open
        BY <2>3, <2>4, CommitKeeps
    <2>5. CASE p = n
        <3>1. OverlaysIInv' /\ v3' = e /\ LockStands
            BY <2>1, <2>3, <2>5, OrderlyStep DEF LockStands
        <3>2. v1 # <<>> => O!Holds(O!Top, e) \/ Controls[O!Top] = e
            BY <1>3, TopIs DEF O!Outside
        <3> QED
            BY <3>1, <3>2 DEF KeyboardStays
    <2> QED
        BY <2>3, <2>4, <2>5
<1>4. CASE O!Outside(e) # {} /\ (O!Becomes(s) \/ O!Becomes(O!Pressed(s, e)))
    <2>1. /\ Orderly(c) /\ O!ToSet(c.open) = O!Open \ O!With(O!Outside(e))
          /\ O!Outside(e) \cap O!Open \subseteq O!With(O!Outside(e))
          /\ DOMAIN c = Says
        BY ClosedOrderly, Fields
    <2>2. O!Outside(e) \subseteq O!Open
        BY DEF O!Outside
    <2>3. O!Shown(e, O!ToSet(c.open))
        BY <1>1, <2>1, StillShown
    <2> HIDE DEF c
    <2>4. s.open = c.open /\ Orderly(s)
        BY <2>1, <2>3, FocusedOrderly DEF Says
    <2>5. O!ToSet(s.open) # O!Open /\ O!ToSet(s.open) \subseteq O!Open /\ O!Shown(e, O!ToSet(s.open))
        BY <1>4, <2>1, <2>2, <2>3, <2>4
    <2> HIDE DEF s
    <2>6. CASE O!Becomes(s)
        BY <2>4, <2>5, <2>6, CommitKeeps
    <2>7. CASE O!Becomes(O!Pressed(s, e))
        <3> DEFINE p == O!Pressed(s, e)
        <3>1. Orderly(p) /\ O!ToSet(p.open) # O!Open /\ O!Becomes(p)
            BY <2>4, <2>5, <2>7, PressedIs
        <3> HIDE DEF p
        <3> QED
            BY <3>1, CommitKeeps
    <2> QED
        BY <1>4, <2>6, <2>7
<1> QED
    BY <1>2, <1>3, <1>4

-----------------------------------------------------------------------------
LEMMA OneCloses ==
    ASSUME OverlaysIInv, NEW o \in O!Open
    PROVE  /\ Orderly(O!Closed({o})) /\ O!ToSet(O!Closed({o}).open) # O!Open
           /\ O!ToSet(O!Closed({o}).open) \subseteq O!Open
<1>1. /\ Orderly(O!Closed({o})) /\ O!ToSet(O!Closed({o}).open) = O!Open \ O!With({o})
      /\ o \in O!With({o})
    BY ClosedOrderly
<1> QED
    BY <1>1

LEMMA ChooseKeeps ==
    ASSUME OverlaysIInv, NEW o \in Layers, O!Choose(o)
    PROVE  OverlaysIInv' /\ LockStands /\ KeyboardStays
<1> DEFINE c == O!Closed({o})
<1>1. o \in O!Open
    BY DEF O!Choose
<1>2. \/ O!Becomes(c)
      \/ \E p \in Layers \ O!Open : <<o, p>> \in {<<"menu", "dialog">>} /\ O!Becomes(O!Opened(c, p))
    BY DEF O!Choose
<1>3. Orderly(c) /\ O!ToSet(c.open) # O!Open /\ O!ToSet(c.open) \subseteq O!Open
    BY <1>1, OneCloses
<1> HIDE DEF c
<1>4. CASE O!Becomes(c)
    BY <1>3, <1>4, CommitKeeps
<1>5. ASSUME NEW p \in Layers \ O!Open, <<o, p>> \in {<<"menu", "dialog">>}, O!Becomes(O!Opened(c, p))
      PROVE  OverlaysIInv' /\ LockStands /\ KeyboardStays
    <2>1. p = "dialog"
        BY <1>5
    <2>2. Levels[p] \subseteq O!ToSet(c.open) \cup {p, "page"}
        BY <2>1, Surrounded
    <2>3. Orderly(O!Opened(c, p)) /\ O!ToSet(O!Opened(c, p).open) = O!ToSet(c.open) \cup {p}
        BY <1>3, <2>2, OpenedOrderly
    <2>4. O!ToSet(O!Opened(c, p).open) # O!Open
        BY <2>3
    <2> QED
        BY <1>5, <2>3, <2>4, CommitKeeps
<1> QED
    BY <1>2, <1>4, <1>5

LEMMA FinishKeeps ==
    ASSUME OverlaysIInv, NEW o \in Layers, O!Finish(o)
    PROVE  OverlaysIInv' /\ LockStands /\ KeyboardStays
<1>1. o \in O!Open /\ O!Becomes(O!Closed({o}))
    BY DEF O!Finish
<1> QED
    BY <1>1, OneCloses, CommitKeeps

LEMMA RenderKeeps ==
    ASSUME OverlaysIInv, NEW o \in Layers, O!Render(o)
    PROVE  OverlaysIInv' /\ LockStands /\ KeyboardStays
<1> DEFINE w == O!Within(v2, O!Open \ {o})
           c == [O!Now EXCEPT !.heard = Append(w, o)]
<1>1. o \in O!Open /\ O!Becomes(c) /\ v3' = v3
    BY DEF O!Render, O!Becomes, O!Now
<1>2. Lined(v2) /\ O!ToSet(v2) = O!Open /\ O!Open = O!ToSet(v1)
    BY NowIs DEF OverlaysIInv, Sorted
<1>3. Lined(w) /\ O!ToSet(w) = O!ToSet(v2) \cap (O!Open \ {o})
    BY <1>2, LinedWithin
<1>4. /\ c.open = v1 /\ c.heard = Append(w, o) /\ c.focus = v3 /\ c.returns = v4
      /\ c.locked = v5 /\ c.before = v6
    BY DEF O!Now
<1> HIDE DEF w, c
<1>5. Lined(Append(w, o)) /\ O!ToSet(Append(w, o)) = O!ToSet(w) \cup {o}
    BY <1>3, LinedAppend
<1>6. O!ToSet(Append(w, o)) = O!Open
    BY <1>1, <1>2, <1>3, <1>5
<1>7. Sorted(c)
    BY <1>2, <1>4, <1>5, <1>6, NowIs DEF OverlaysIInv, Sorted
<1>8. O!Agrees => Agreed(c)
    BY <1>4, NowIs DEF Agreed
<1>9. Orderly(c)
    BY <1>7, <1>8 DEF Orderly
<1> QED
    BY <1>1, <1>4, <1>9, CommitKeeps

LEMMA WithdrawKeeps ==
    ASSUME OverlaysIInv, NEW e \in Stoppers, O!Withdraw(e)
    PROVE  OverlaysIInv' /\ LockStands /\ KeyboardStays
<1>1. /\ e = "more" /\ v7' = v7 \cup {e} /\ v3' = (IF v3 = e THEN "body" ELSE v3)
      /\ v1' = v1 /\ v2' = v2 /\ v4' = v4 /\ v5' = v5 /\ v6' = v6
    BY DEF O!Withdraw
<1>2. v3' # "body" => v3' = v3 /\ v3 # e
    BY <1>1
<1>3. v3' # "body" => O!Shown(v3, O!ToSet(v1))'
    BY <1>1, <1>2, NowIs DEF OverlaysIInv, Sorted, O!Shown
<1>4. O!Now' = [open |-> v1, heard |-> v2, focus |-> v3', returns |-> v4, locked |-> v5,
                before |-> v6]
    BY <1>1 DEF O!Now
<1>5. Sorted(O!Now)'
    BY <1>1, <1>2, <1>3, <1>4, NowIs DEF OverlaysIInv, Sorted, O!Shown
<1>6. O!Agrees => O!Agrees'
    BY <1>1 DEF O!Agrees, O!Open
<1>7. ASSUME v1 # <<>> PROVE ~O!Holds(O!Top, "more")
    <2>1. O!Top \in Layers /\ Surfaces["more"] = "page"
        BY <1>7, TopIs DEF Surfaces
    <2> QED
        BY <2>1, Surrounded DEF O!Holds, Layers
<1>8. KeyboardStays
    BY <1>1, <1>7 DEF KeyboardStays
<1> QED
    BY <1>1, <1>5, <1>6, <1>8 DEF OverlaysIInv, LockStands

\* Escape that finds somewhere to give the focus back to gives it.
LEMMA EscapeGives ==
    ASSUME OverlaysIInv, O!Escape, v3' = "body"
    PROVE  \A o \in O!Open : ~O!Shown(v4[o], {})
<1>1. v3' = O!Closed(O!Open).focus
    BY DEF O!Escape, O!Becomes
<1> DEFINE out    == O!With(O!Open)
           left   == O!Open \ out
           giving == {o \in out : O!Shown(v4[o], left)}
<1>2. /\ giving # {} => O!Closed(O!Open).focus = v4[O!LastIn(CleanedInOrder, giving)]
      /\ O!Open \cap O!Open \subseteq out /\ out \subseteq Layers
    BY ClosedIs
<1>3. left = {} /\ \A o \in O!Open : o \in out
    BY <1>2
<1>4. ASSUME giving # {} PROVE FALSE
    <2>1. giving \subseteq Layers
        BY <1>2
    <2> HIDE DEF giving
    <2>2. O!LastIn(CleanedInOrder, giving) \in giving
        BY <1>4, <2>1, LastCleaned
    <2>3. v4[O!LastIn(CleanedInOrder, giving)] # "body"
        BY <2>2 DEF giving, O!Shown
    <2> QED
        BY <1>1, <1>2, <1>4, <2>3
<1> QED
    BY <1>3, <1>4

-----------------------------------------------------------------------------
\* The key on its way: whether a listener took it, and where the focus is.
Strokes == [taken : BOOLEAN, focus : Stoppers \cup {"body"}]

LEMMA OrderEnds ==
    ASSUME NEW X \in SUBSET Stoppers, X # {}
    PROVE  /\ O!FirstIn(InOrder, X) \in X /\ O!LastIn(InOrder, X) \in X
           /\ \E i \in DOMAIN InOrder : /\ O!FirstIn(InOrder, X) = InOrder[i]
                                        /\ \A j \in DOMAIN InOrder : InOrder[j] \in X => i <= j
           /\ \E i \in DOMAIN InOrder : /\ O!LastIn(InOrder, X) = InOrder[i]
                                        /\ \A j \in DOMAIN InOrder : InOrder[j] \in X => j <= i
<1>1. X \cap O!ToSet(InOrder) # {}
    BY InOrderIs
<1> QED
    BY <1>1, InOrderIs, EndsAre

\* A listener leaves the focus where it was, or puts it on one of its own stops.
LEMMA TabHeardIs ==
    ASSUME NEW back \in BOOLEAN, NEW s \in Strokes, NEW o \in Layers
    PROVE  /\ O!TabHeard(back, s, o) \in Strokes
           /\ \/ O!TabHeard(back, s, o).focus = s.focus
              \/ O!TabHeard(back, s, o).focus \in O!Focusable(o, O!Open)
           /\ s.taken => O!TabHeard(back, s, o).taken
<1> DEFINE stops == O!Focusable(o, O!Open)
<1>1. stops \in SUBSET Stoppers
    BY FocusableIs
<1>2. stops # {} => O!FirstIn(InOrder, stops) \in stops /\ O!LastIn(InOrder, stops) \in stops
    <2> HIDE DEF stops
    <2> QED
        BY <1>1, OrderEnds
<1>3. \/ O!TabHeard(back, s, o) = [s EXCEPT !.taken = TRUE]
      \/ O!TabHeard(back, s, o) = s
      \/ stops # {} /\ O!TabHeard(back, s, o) = [taken |-> TRUE, focus |-> O!LastIn(InOrder, stops)]
      \/ stops # {} /\ O!TabHeard(back, s, o) = [taken |-> TRUE, focus |-> O!FirstIn(InOrder, stops)]
    BY DEF O!TabHeard
<1> DEFINE r == O!TabHeard(back, s, o)
<1> HIDE DEF stops, r
<1>4. s.taken \in BOOLEAN /\ s.focus \in Stoppers \cup {"body"}
    BY DEF Strokes
<1>5. CASE r = [s EXCEPT !.taken = TRUE]
    <2>1. r \in Strokes /\ r.focus = s.focus /\ r.taken = TRUE
        BY <1>5 DEF Strokes
    <2> QED
        BY <2>1 DEF r
<1>6. CASE r = s
    BY <1>6 DEF r
<1>7. ASSUME NEW f \in stops, r = [taken |-> TRUE, focus |-> f] PROVE r \in Strokes /\ r.focus \in stops /\ r.taken
    BY <1>1, <1>7 DEF Strokes
<1> QED
    BY <1>2, <1>3, <1>5, <1>6, <1>7 DEF r, stops

LEMMA TabPassedIs ==
    ASSUME OverlaysIInv, NEW back \in BOOLEAN
    PROVE  /\ O!TabPassed(back) \in [0..Len(v2) -> Strokes]
           /\ O!TabPassed(back)[0] = [taken |-> FALSE, focus |-> v3]
           /\ \A i \in 1..Len(v2) : O!TabPassed(back)[i] =
                                       O!TabHeard(back, O!TabPassed(back)[i - 1], v2[i])
<1> DEFINE n == Len(v2)
           start == [taken |-> FALSE, focus |-> v3]
           step == [i \in 1..n |-> [s \in Strokes |-> O!TabHeard(back, s, v2[i])]]
           Stands(f) == f = [i \in 0..n |-> IF i = 0 THEN start
                                            ELSE O!TabHeard(back, f[i - 1], v2[i])]
<1>1. n \in Nat /\ \A i \in 1..n : v2[i] \in Layers
    BY NowIs DEF OverlaysIInv, Sorted, Lined
<1>2. start \in Strokes
    BY NowIs DEF OverlaysIInv, Sorted, Strokes
<1>3. step \in [1..n -> [Strokes -> Strokes]]
    BY <1>1, TabHeardIs
<1>4. PICK run \in [0..n -> Strokes] :
          run[0] = start /\ \A i \in 1..n : run[i] = O!TabHeard(back, run[i - 1], v2[i])
    <2>1. PICK run : run \in Runs(n, Strokes, start, step)
        <3> HIDE DEF n, start, step
        <3> QED
            BY <1>1, <1>2, <1>3, RunExists
    <2>2. /\ run \in [0..n -> Strokes] /\ run[0] = start
          /\ \A i \in 1..n : run[i] = step[i][run[i - 1]]
        <3> HIDE DEF n, start, step
        <3> QED
            BY <2>1 DEF Runs
    <2>3. ASSUME NEW i \in 1..n PROVE run[i] = O!TabHeard(back, run[i - 1], v2[i])
        <3>1. i - 1 \in 0..n /\ run[i - 1] \in Strokes
            BY <1>1, <2>2
        <3> QED
            BY <2>2, <3>1
    <2> HIDE DEF start, step
    <2> QED
        BY <2>2, <2>3
<1> HIDE DEF start
<1>5. Stands(run)
    <2>1. run = [i \in 0..n |-> run[i]]
        OBVIOUS
    <2>2. \A i \in 0..n : i = 0 \/ i \in 1..n
        BY <1>1
    <2> QED
        BY <1>4, <2>1, <2>2
<1>6. PICK f : Stands(f) /\ O!TabPassed(back) = f
    <2>1. O!TabPassed(back) = (CHOOSE f : Stands(f))
        BY Zenon DEF O!TabPassed, start
    <2> HIDE DEF Stands
    <2> QED
        BY <1>5, <2>1
<1>7. f[0] = start /\ \A i \in 1..n : f[i] = O!TabHeard(back, f[i - 1], v2[i])
    <2>1. 0 \in 0..n /\ \A i \in 1..n : i \in 0..n /\ i # 0
        BY <1>1
    <2> QED
        BY <1>6, <2>1, Zenon
<1> DEFINE T == {i \in 0..n : f[i] \in Strokes}
<1>8. 0 \in T
    BY <1>1, <1>2, <1>7
<1>9. ASSUME NEW i \in 1..n, i - 1 \in T PROVE i \in T
    <2>1. f[i - 1] \in Strokes /\ f[i] = O!TabHeard(back, f[i - 1], v2[i]) /\ i \in 0..n
        BY <1>7, <1>9
    <2>2. f[i] \in Strokes
        BY <1>1, <2>1, TabHeardIs
    <2> QED
        BY <2>1, <2>2
<1>10. 0..n \subseteq T
    <2> HIDE DEF T
    <2> QED
        BY <1>1, <1>8, <1>9, UpTo
<1>11. f \in [0..n -> Strokes]
    <2>1. \A i \in 0..n : f[i] \in Strokes
        BY <1>10
    <2>2. f = [i \in 0..n |-> f[i]]
        <3>1. \E e : f = [i \in 0..n |-> e[i]]
            <4> DEFINE e == [i \in 0..n |-> IF i = 0 THEN start ELSE O!TabHeard(back, f[i - 1], v2[i])]
            <4>1. f = e
                BY <1>6
            <4>2. e = [i \in 0..n |-> e[i]]
                OBVIOUS
            <4> HIDE DEF e
            <4> QED
                BY <4>1, <4>2
        <3> QED
            BY <3>1
    <2> QED
        BY <2>1, <2>2
<1> QED
    BY <1>6, <1>7, <1>11 DEF start

\* Where the key leaves the focus is shown, or nowhere.
LEMMA TabShows ==
    ASSUME OverlaysIInv, NEW back \in BOOLEAN
    PROVE  /\ O!TabPassed(back)[Len(v2)] \in Strokes
           /\ O!TabPassed(back)[Len(v2)].focus # "body" =>
                 O!Shown(O!TabPassed(back)[Len(v2)].focus, O!Open)
<1> DEFINE f == O!TabPassed(back)
           n == Len(v2)
           T == {i \in 0..n : f[i].focus # "body" => O!Shown(f[i].focus, O!Open)}
<1>1. n \in Nat /\ \A i \in 1..n : v2[i] \in Layers
    BY NowIs DEF OverlaysIInv, Sorted, Lined
<1>2. /\ f \in [0..n -> Strokes] /\ f[0] = [taken |-> FALSE, focus |-> v3]
      /\ \A i \in 1..n : f[i] = O!TabHeard(back, f[i - 1], v2[i])
    BY TabPassedIs
<1> HIDE DEF f
<1>3. 0 \in T
    BY <1>1, <1>2, NowIs DEF OverlaysIInv, Sorted
<1>4. ASSUME NEW i \in 1..n, i - 1 \in T PROVE i \in T
    <2>1. f[i - 1] \in Strokes /\ f[i] = O!TabHeard(back, f[i - 1], v2[i]) /\ i \in 0..n
        BY <1>2, <1>4
    <2>2. f[i].focus = f[i - 1].focus \/ f[i].focus \in O!Focusable(v2[i], O!Open)
        BY <1>1, <2>1, TabHeardIs
    <2>3. \A s \in O!Focusable(v2[i], O!Open) : O!Shown(s, O!Open)
        BY DEF O!Focusable
    <2> QED
        BY <1>4, <2>1, <2>2, <2>3
<1>5. 0..n \subseteq T
    <2> HIDE DEF T
    <2> QED
        BY <1>1, <1>3, <1>4, UpTo
<1>6. n \in 0..n
    BY <1>1
<1> QED
    BY <1>2, <1>5, <1>6 DEF f

-----------------------------------------------------------------------------
\* The stops of a surface that holds no other stand together in the document.
LEMMA StandTogether ==
    /\ DOMAIN InOrder = 1..10
    /\ \A i, j \in 1..10 : InOrder[i] = InOrder[j] => i = j
    /\ \A i, j, k \in 1..10 : i < j /\ j < k /\ Surfaces[InOrder[i]] = Surfaces[InOrder[k]] /\
           Surfaces[InOrder[i]] \in Layers => Surfaces[InOrder[j]] = Surfaces[InOrder[i]]
<1>1. DOMAIN InOrder = 1..10 /\ \A i \in 1..10 : InOrder[i] \in Stoppers
    BY InOrderIs DEF InOrder
<1>2. \A i, j \in 1..10 : InOrder[i] = InOrder[j] => i = j
    <2>1. \A i \in 1..10 : i = 1 \/ i = 2 \/ i = 3 \/ i = 4 \/ i = 5 \/ i = 6 \/ i = 7 \/ i = 8
                           \/ i = 9 \/ i = 10
        OBVIOUS
    <2> QED
        BY <2>1, InOrderIs
<1>3. /\ \A i \in 1..10 : Surfaces[InOrder[i]] = "menu" => i = 4
      /\ \A i \in 1..10 : Surfaces[InOrder[i]] = "dialog" <=> i \in 5..8
      /\ \A i \in 1..10 : Surfaces[InOrder[i]] = "upload" <=> i \in 9..10
      /\ \A i \in 1..10 : Surfaces[InOrder[i]] # "list"
    <2>1. \A i \in 1..10 : i = 1 \/ i = 2 \/ i = 3 \/ i = 4 \/ i = 5 \/ i = 6 \/ i = 7 \/ i = 8
                           \/ i = 9 \/ i = 10
        OBVIOUS
    <2> QED
        BY <2>1, InOrderIs DEF Surfaces
<1> QED
    BY <1>1, <1>2, <1>3 DEF Layers

\* The stops a surface shows that are in it and in nothing else inside it.
Own(t) == {s \in Stoppers : Surfaces[s] = t /\ O!Shown(s, O!Open)}

\* With no other listener that has a say, the surface on top is the one that is open, and its
\* stops are its own.
LEMMA Alone ==
    ASSUME OverlaysIInv, v1 # <<>>, ~O!Disputed(O!Top), O!Holds(O!Top, v3)
    PROVE  /\ O!Open = {O!Top} /\ O!Top # "list" /\ v3 \in O!Focusable(O!Top, O!Open)
           /\ O!Focusable(O!Top, O!Open) = Own(O!Top)
<1> DEFINE t == O!Top
<1>1. t \in O!Open /\ t \in Layers
    BY TopIs
<1>2. /\ O!Open \subseteq Layers /\ \A o \in O!Open : Levels[o] \subseteq O!Open \cup {"page"}
      /\ v3 \in Stoppers \cup {"body"} /\ (v3 # "body" => O!Shown(v3, O!Open))
    BY NowIs, LinedHas DEF OverlaysIInv, Sorted
<1>3. \A p \in O!Open \ {t} : /\ p \in Levels[t]
                              /\ O!LastIn(InOrder, O!Focusable(p, O!Open)) # t
    BY DEF O!Disputed
<1> HIDE DEF t
<1>4. ASSUME NEW p \in O!Open, p # t PROVE FALSE
    <2>1. p \in Layers /\ p \in Levels[t]
        BY <1>2, <1>3, <1>4
    <2>2. t = "list" /\ p = "dialog"
        <3>1. t # "list" => p \in {t, "page"}
            BY <1>1, <2>1, Surrounded
        <3>2. "page" \notin Layers
            BY DEF Layers
        <3> QED
            BY <1>4, <2>1, <3>1, <3>2, Surrounded
    <2> DEFINE Stops == O!Focusable("dialog", O!Open)
    <2>3. Stops = {s \in Stoppers : s # "dialog" /\ "dialog" \in Levels[Surfaces[s]] /\ O!Shown(s, O!Open)}
        BY FocusableIs DEF Layers
    <2>4. "list" \in Stops
        BY <1>1, <1>4, <2>2, <2>3, StoppersAre, Surrounded DEF O!Shown, Surfaces, Layers, OverlaysIInv
    <2>5. Stops \in SUBSET Stoppers /\ Stops # {}
        BY <2>3, <2>4
    <2>6. \A s \in Stops : s \in {"close", "ok", "pick", "list"}
        BY <2>3, StoppersAre, Surrounded DEF Surfaces, Layers
    <2> HIDE DEF Stops
    <2>7. PICK i \in DOMAIN InOrder :
              /\ O!LastIn(InOrder, Stops) = InOrder[i] /\ InOrder[i] \in Stops
              /\ \A j \in DOMAIN InOrder : InOrder[j] \in Stops => j <= i
        BY <2>5, OrderEnds
    <2>8. DOMAIN InOrder = 1..10 /\ 8 \in 1..10 /\ InOrder[8] = "list" /\ InOrder[9] = "cross" /\ InOrder[10] = "go"
        BY StandTogether, InOrderIs
    <2>9. 8 <= i /\ i # 9 /\ i # 10
        BY <2>4, <2>6, <2>7, <2>8
    <2>10. i = 8
        BY <2>7, <2>8, <2>9
    <2> QED
        BY <1>1, <1>3, <1>4, <2>2, <2>7, <2>8, <2>10 DEF Stops
<1>5. O!Open = {t}
    BY <1>1, <1>4
<1>6. t # "list"
    <2>1. t = "list" => "dialog" \in O!Open \cup {"page"}
        BY <1>1, <1>2, Surrounded
    <2> QED
        BY <1>5, <2>1
<1>7. O!Focusable(t, O!Open) =
          {s \in Stoppers : s # t /\ t \in Levels[Surfaces[s]] /\ O!Shown(s, O!Open)}
    BY <1>1, FocusableIs
<1>8. \A s \in Stoppers : s # t /\ (t \in Levels[Surfaces[s]] <=> Surfaces[s] = t)
    BY <1>1, <1>6, StoppersAre, Surrounded DEF Layers, Surfaces, Levels
<1>9. O!Holds(t, v3)
    BY DEF t
<1>10. v3 \in Stoppers /\ t \in Levels[Surfaces[v3]] /\ O!Shown(v3, O!Open)
    BY <1>1, <1>2, <1>8, <1>9, StoppersAre DEF O!Holds, Layers
<1> QED
    BY <1>5, <1>6, <1>7, <1>8, <1>10 DEF t, Own

\* There is always something to step to.
LEMMA SearchIsShown ==
    ASSUME OverlaysIInv
    PROVE  "search" \in Stoppers /\ O!Shown("search", O!Open)
BY StoppersAre, Surrounded DEF OverlaysIInv, O!Shown, Surfaces, Layers

\* The next stop, or the one before, is in the surface while that has another one that way.
LEMMA NextIsInside ==
    ASSUME NEW t \in Layers, NEW s \in Own(t), NEW back \in BOOLEAN,
           s # IF back THEN O!FirstIn(InOrder, Own(t)) ELSE O!LastIn(InOrder, Own(t))
    PROVE  /\ O!Ahead(back, s) # {}
           /\ Surfaces[IF back THEN O!LastIn(InOrder, O!Ahead(back, s))
                       ELSE O!FirstIn(InOrder, O!Ahead(back, s))] = t
<1> DEFINE Stops == Own(t)
           A == O!Ahead(back, s)
           next == IF back THEN O!LastIn(InOrder, A) ELSE O!FirstIn(InOrder, A)
<1>1. DOMAIN InOrder = 1..10 /\ (\A i, j \in 1..10 : InOrder[i] = InOrder[j] => i = j)
      /\ \A x \in Stoppers : \E i \in 1..10 : InOrder[i] = x
    BY StandTogether, InOrderIs DEF O!ToSet
<1>2. A = {x \in Stoppers : /\ O!Shown(x, O!Open)
                        /\ \A i, j \in 1..10 :
                              InOrder[i] = x /\ InOrder[j] = s => IF back THEN i < j ELSE j < i}
    BY <1>1, InOrderIs DEF O!Ahead
<1>3. PICK m \in 1..10 : InOrder[m] = s
    BY <1>1 DEF Own
<1>4. A = {x \in Stoppers : /\ O!Shown(x, O!Open)
                        /\ \A i \in 1..10 : InOrder[i] = x => IF back THEN i < m ELSE m < i}
    BY <1>1, <1>2, <1>3
<1>5. /\ Stops \in SUBSET Stoppers /\ Stops # {} /\ s \in Stoppers /\ s \in Stops
      /\ \A x \in Stops : Surfaces[x] = t /\ O!Shown(x, O!Open)
    BY DEF Own
<1> HIDE DEF Stops
<1>6. PICK e \in 1..10 : /\ InOrder[e] \in Stops
                         /\ InOrder[e] = IF back THEN O!FirstIn(InOrder, Stops) ELSE O!LastIn(InOrder, Stops)
                         /\ \A j \in 1..10 : InOrder[j] \in Stops => IF back THEN e <= j ELSE j <= e
    <2>1. CASE back
        BY <1>1, <1>5, <2>1, OrderEnds
    <2>2. CASE ~back
        BY <1>1, <1>5, <2>2, OrderEnds
    <2> QED
        BY <2>1, <2>2
<1>7. e # m /\ IF back THEN e <= m ELSE m <= e
    BY <1>3, <1>6 DEF Stops
<1>8. IF back THEN e < m ELSE m < e
    BY <1>7
<1>9. InOrder[e] \in A
    BY <1>1, <1>4, <1>5, <1>6, <1>8
<1>10. A \in SUBSET Stoppers /\ A # {}
    BY <1>4, <1>9
<1> HIDE DEF A, next
<1>11. PICK k \in 1..10 : /\ InOrder[k] = next /\ InOrder[k] \in A
                          /\ \A j \in 1..10 : InOrder[j] \in A => IF back THEN j <= k ELSE k <= j
    <2>1. CASE back
        BY <1>1, <1>10, <2>1, OrderEnds DEF next
    <2>2. CASE ~back
        BY <1>1, <1>10, <2>2, OrderEnds DEF next
    <2> QED
        BY <2>1, <2>2
<1>12. IF back THEN k < m /\ e <= k ELSE m < k /\ k <= e
    BY <1>4, <1>9, <1>11
<1>13. Surfaces[InOrder[e]] = t /\ Surfaces[InOrder[m]] = t
    BY <1>3, <1>5, <1>6
<1>14. Surfaces[next] = t
    <2>1. CASE k = e
        BY <1>11, <1>13, <2>1
    <2>2. CASE k # e
        <3>1. IF back THEN e < k /\ k < m ELSE m < k /\ k < e
            BY <1>12, <2>2
        <3> QED
            BY <1>11, <1>13, <3>1, StandTogether
    <2> QED
        BY <2>1, <2>2
<1> QED
    BY <1>10, <1>14 DEF A, next

LEMMA TabKeeps ==
    ASSUME OverlaysIInv, NEW back \in BOOLEAN, O!Tab(back)
    PROVE  OverlaysIInv' /\ LockStands /\ KeyboardStays
<1> DEFINE end == O!TabPassed(back)[Len(v2)]
           ahead == O!Ahead(back, end.focus)
           shown == {x \in Stoppers : O!Shown(x, O!Open)}
           round == IF ahead # {} THEN ahead ELSE shown
           next  == IF back THEN O!LastIn(InOrder, round) ELSE O!FirstIn(InOrder, round)
           c     == [O!Now EXCEPT !.focus = v3']
<1>1. v3' = IF end.taken THEN end.focus ELSE next
    BY InOrderIs DEF O!Tab
<1>2. v1' = v1 /\ O!Becomes(c)
    BY DEF O!Tab, O!Becomes, O!Now
<1>3. end \in Strokes /\ (end.focus # "body" => O!Shown(end.focus, O!Open))
    BY TabShows
<1>4. ahead \subseteq shown /\ shown # {} /\ shown \subseteq Stoppers
    BY SearchIsShown, InOrderIs DEF O!Ahead
<1> HIDE DEF end, ahead, c
<1>5. next \in shown
    <2>1. round \in SUBSET Stoppers /\ round # {} /\ round \subseteq shown
        BY <1>4
    <2> HIDE DEF round, shown
    <2> QED
        BY <2>1, OrderEnds
<1>6. v3' \in Stoppers \cup {"body"} /\ (v3' # "body" => O!Shown(v3', O!Open))
    <2> HIDE DEF next
    <2>1. end.focus \in Stoppers \cup {"body"}
        BY <1>3 DEF Strokes
    <2> QED
        BY <1>1, <1>3, <1>5, <2>1
<1>7. Orderly(c)
    <2>1. Orderly(O!Now) /\ O!ToSet(O!Now.open) = O!Open
        BY NowOrderly
    <2> QED
        BY <1>6, <2>1, Fields, FocusedOrderly DEF c
<1>8. OverlaysIInv' /\ LockStands
    BY <1>2, <1>7, OrderlyStep DEF LockStands
<1>9. ASSUME v1 # <<>>, O!Holds(O!Top, v3), ~O!Disputed(O!Top) PROVE O!Holds(O!Top, v3')
    <2> DEFINE t == O!Top
               Stops == O!Focusable(t, O!Open)
    <2>1. /\ O!Open = {t} /\ v3 \in Stops /\ t \in Layers
          /\ Stops = Own(t)
        BY <1>9, Alone, TopIs
    <2> HIDE DEF t
    <2>2. Stops \in SUBSET Stoppers /\ Stops # {}
        BY <2>1 DEF Own
    <2>3. Len(v2) = 1 /\ v2[1] = t
        <3>1. Lined(v2) /\ O!ToSet(v2) = {t}
            BY <2>1, NowIs DEF OverlaysIInv, Sorted
        <3>2. v2 \in Seq(Layers) /\ (\A i \in DOMAIN v2 : v2[i] = t) /\ \E i \in DOMAIN v2 : v2[i] = t
            BY <3>1 DEF Lined, O!ToSet
        <3>3. \A i \in 1..Len(v2) : i = 1
            BY <3>1, <3>2 DEF Lined
        <3>4. Len(v2) \in Nat /\ DOMAIN v2 = 1..Len(v2)
            BY <3>2
        <3> QED
            BY <3>2, <3>3, <3>4
    <2>4. end = O!TabHeard(back, [taken |-> FALSE, focus |-> v3], t)
        <3>1. 1 \in 1..Len(v2) /\ 1 - 1 = 0
            BY <2>3
        <3>2. O!TabPassed(back)[1] = O!TabHeard(back, O!TabPassed(back)[1 - 1], v2[1])
            BY <3>1, TabPassedIs
        <3>3. O!TabPassed(back)[0] = [taken |-> FALSE, focus |-> v3]
            BY TabPassedIs
        <3> QED
            BY <2>3, <3>1, <3>2, <3>3 DEF end
    <2>5. \/ end.taken /\ end.focus \in Stops
          \/ /\ ~end.taken /\ end.focus = v3
             /\ v3 # IF back THEN O!FirstIn(InOrder, Stops) ELSE O!LastIn(InOrder, Stops)
        <3>1. O!FirstIn(InOrder, Stops) \in Stops /\ O!LastIn(InOrder, Stops) \in Stops
            <4> HIDE DEF Stops
            <4> QED
                BY <2>2, OrderEnds
        <3>2. O!Holds(t, v3)
            BY <1>9 DEF t
        <3>3. end = IF back /\ v3 = O!FirstIn(InOrder, Stops)
                    THEN [taken |-> TRUE, focus |-> O!LastIn(InOrder, Stops)]
                    ELSE IF ~back /\ v3 = O!LastIn(InOrder, Stops)
                         THEN [taken |-> TRUE, focus |-> O!FirstIn(InOrder, Stops)]
                         ELSE [taken |-> FALSE, focus |-> v3]
            BY <2>2, <2>4, <3>2 DEF O!TabHeard
        <3> HIDE DEF Stops
        <3> QED
            BY <3>1, <3>3
    <2> HIDE DEF Stops
    <2>6. \A s \in Stoppers : Surfaces[s] = t => O!Holds(t, s)
        BY <2>1, Surrounded, StoppersAre DEF O!Holds
    <2>7. CASE end.taken /\ end.focus \in Stops
        <3>1. end.focus \in Stoppers /\ Surfaces[end.focus] = t
            BY <2>1, <2>7 DEF Own
        <3> HIDE DEF next
        <3> QED
            BY <1>1, <2>6, <2>7, <3>1 DEF t
    <2>8. CASE /\ ~end.taken /\ end.focus = v3
               /\ v3 # IF back THEN O!FirstIn(InOrder, Stops) ELSE O!LastIn(InOrder, Stops)
        <3>1. /\ O!Ahead(back, v3) # {}
              /\ Surfaces[IF back THEN O!LastIn(InOrder, O!Ahead(back, v3))
                          ELSE O!FirstIn(InOrder, O!Ahead(back, v3))] = t
            BY <2>1, <2>8, NextIsInside
        <3>2. Surfaces[next] = t
            BY <2>8, <3>1 DEF ahead
        <3> HIDE DEF next
        <3>3. v3' = next /\ next \in Stoppers
            BY <1>1, <1>4, <1>5, <2>8
        <3> QED
            BY <2>6, <3>2, <3>3 DEF t
    <2> QED
        BY <2>5, <2>7, <2>8
<1> QED
    BY <1>8, <1>9 DEF KeyboardStays

-----------------------------------------------------------------------------
OverlaysHold == scene = "overlays" => OverlaysIInv

LEMMA OverlaysOpen ==
    ASSUME O!Init
    PROVE  OverlaysIInv
<1>1. /\ v1 = <<>> /\ v2 = <<>> /\ v3 = "body" /\ v7 = {} /\ v5 = FALSE
      /\ v4 = [o \in Layers |-> "body"] /\ v6 = [o \in Layers |-> FALSE]
    BY DEF O!Init
<1>2. O!ToSet(<<>>) = {} /\ Lined(<<>>)
    BY DEF O!ToSet, Lined
<1> QED
    BY <1>1, <1>2, NowIs DEF OverlaysIInv, Sorted

LEMMA OverlaysStep ==
    ASSUME OverlaysIInv, O!Next
    PROVE  OverlaysIInv' /\ O!StepKeepsThePlace
<1>1. OverlaysIInv' /\ LockStands /\ KeyboardStays
    <2>1. CASE O!Enter
        BY <2>1, EnterKeeps
    <2>2. CASE O!Escape
        BY <2>2, EscapeKeeps
    <2>3. CASE O!Slash
        BY <2>3, SlashKeeps
    <2>4. CASE O!ClickAway
        BY <2>4, ClickAwayKeeps
    <2>5. CASE \E back \in BOOLEAN : O!Tab(back)
        BY <2>5, TabKeeps
    <2>6. CASE \E e \in Stoppers : O!Click(e) \/ O!Withdraw(e)
        BY <2>6, ClickKeeps, WithdrawKeeps
    <2>7. CASE \E o \in Layers : O!Choose(o) \/ O!Finish(o) \/ O!Render(o)
        BY <2>7, ChooseKeeps, FinishKeeps, RenderKeeps
    <2> QED
        BY <2>1, <2>2, <2>3, <2>4, <2>5, <2>6, <2>7 DEF O!Next, Stoppers
<1>2. O!Escape /\ v3' = "body" => \A o \in O!Open : ~O!Shown(v4[o], {})
    BY EscapeGives
<1> QED
    BY <1>1, <1>2 DEF O!StepKeepsThePlace, LockStands, KeyboardStays

LEMMA OverlaysStill ==
    ASSUME OverlaysIInv, UNCHANGED shared
    PROVE  OverlaysIInv'
BY DEF shared, OverlaysIInv, Sorted, O!Now, O!Shown

LEMMA OverlaysHeld == ScreensSpec => []OverlaysHold
<1>1. ScreensInit => OverlaysHold
    BY OverlaysOpen DEF ScreensInit, OverlaysHold
<1>2. OverlaysHold /\ [AnyStep]_all => OverlaysHold'
    <2> SUFFICES ASSUME OverlaysHold, [AnyStep]_all, scene' = "overlays" PROVE OverlaysIInv'
        BY DEF OverlaysHold
    <2>1. OverlaysIInv /\ (O!Next \/ UNCHANGED shared)
        BY SceneStays DEF OverlaysHold
    <2> QED
        BY <2>1, OverlaysStep, OverlaysStill
<1> QED
    BY <1>1, <1>2, PTL DEF ScreensSpec, AnyStep

\* The page scrolls exactly when nothing covers it, until two covers close in the order they
\* opened; the keyboard leaves the surface that opened last, with it open, only by `/', by its
\* own control, or where another overlay listens too; and closed by Escape they give it back to a
\* control that had it, while there is one.  After any number of steps, on MCScreens' page.
THEOREM PlacesAreKept == ScreensSpec => KeepsThePlace
<1>1. ASSUME OverlaysHold, [AnyStep]_all PROVE [scene = "overlays" => O!StepKeepsThePlace]_all
    <2> SUFFICES ASSUME scene = "overlays" PROVE O!StepKeepsThePlace
        OBVIOUS
    <2>1. OverlaysIInv /\ (O!Next \/ UNCHANGED shared)
        BY <1>1, SceneStays DEF OverlaysHold
    <2>2. CASE UNCHANGED shared
        <3>1. v3' = v3 /\ (O!Agrees => O!Agrees')
            BY <2>2 DEF shared, O!Agrees, O!Open
        <3> QED
            BY <2>1, <3>1, EscapeGives DEF O!StepKeepsThePlace
    <2> QED
        BY <2>1, <2>2, OverlaysStep
<1> QED
    BY <1>1, OverlaysHeld, PTL DEF ScreensSpec, AnyStep, KeepsThePlace
=============================================================================
