------------------------------- MODULE Categories -------------------------------
(***************************************************************************)
(* A library's category tree: what the instance holds, the copy a settings *)
(* page draws, and the calls between them.                                 *)
(*                                                                         *)
(* src/backend/resonand/db/categories.py carries the calls out, one at a   *)
(* time; src/frontend/src/features/library-settings/CategoryTree.tsx makes *)
(* them out of the copy on screen, however old it is by then, and          *)
(* library/categories.ts draws that.  Every page may edit: who may is      *)
(* module Trash's.  A new category takes the number after the highest, as  *)
(* SQLite gives it out, so a number may come back as another category.     *)
(***************************************************************************)
EXTENDS Naturals, FiniteSets

CONSTANTS
    Ids,           \* the numbers categories have, from 1
    Root,          \* where a category without a parent is; a recording without a category
    Names,         \* in the order they are read
    Recordings,
    MaxCalls       \* bound: calls made

ASSUME CategoriesAssumption == Ids \subseteq Nat /\ Root \notin Ids /\ Names \subseteq Nat

VARIABLES
    parent, name, position,  \* the instance: of every category there is
    filed,                   \* the instance: the category of each recording
    seen,                    \* the tree as the page has it
    calls,                   \* sent, and not carried out
    made                     \* count against the bound

tree     == <<parent, name, position>>
vars     == <<tree, filed, seen, calls, made>>
Existing == DOMAIN parent

-----------------------------------------------------------------------------
(* Trees: P gives each category its parent, N its name, Q its position *)

Closed(P, S) == \A c \in S : P[c] \in S \cup {Root}

\* _ancestors: a category and all it is inside of.
Above(P, c) ==
    LET around == {S \in SUBSET DOMAIN P : c \in S /\ Closed(P, S)}
    IN  {d \in DOMAIN P : \A S \in around : d \in S}

\* _descendants, and the category itself.
Below(P, c) == {d \in DOMAIN P : c \in Above(P, d)}

Siblings(P, p) == {c \in DOMAIN P : P[c] = p}

\* inOrder, and where that puts a category among its siblings.
Before(N, Q, c, d) == Q[c] < Q[d] \/ (Q[c] = Q[d] /\ N[c] < N[d])
Rank(P, N, Q, c)   == Cardinality({d \in Siblings(P, P[c]) : Before(N, Q, d, c)})

NoCycle(P)         == \A c \in DOMAIN P : P[c] # Root => c \notin Above(P, P[c])
NamedApart(P, N)   == \A c, d \in DOMAIN P : P[c] = P[d] /\ N[c] = N[d] => c = d
TreeOf(P)          == P \in [DOMAIN P -> DOMAIN P \cup {Root}]
WellFormed(P, N)   == /\ DOMAIN P \subseteq Ids /\ TreeOf(P)
                      /\ N \in [DOMAIN P -> Names]
                      /\ NoCycle(P) /\ NamedApart(P, N)

-----------------------------------------------------------------------------
(* The page.  It reads the tree again when a call succeeds, and now and then. *)

Read ==
    /\ seen' = [parent |-> parent, name |-> name, position |-> position]
    /\ UNCHANGED <<tree, filed, calls, made>>

Drawn == DOMAIN seen.parent

Call(c) ==
    /\ made < MaxCalls /\ made' = made + 1
    /\ calls' = calls \cup {[made |-> made, call |-> c]}
    /\ UNCHANGED <<tree, filed, seen>>

\* The page asks for one under the root; another client of the API may name a parent.
Add(n, p)     == p \in Drawn \cup {Root} /\ Call([kind |-> "create", name |-> n, to |-> p])
Rename(c, n)  == c \in Drawn /\ n # seen.name[c] /\ Call([kind |-> "rename", at |-> c, name |-> n])

\* Not inside itself, as far as the page knows.
Reparent(c, p) ==
    /\ c \in Drawn /\ p \in (Drawn \cup {Root}) \ Below(seen.parent, c) /\ p # seen.parent[c]
    /\ Call([kind |-> "move", at |-> c, to |-> p])

\* One up or down: all the siblings it has on screen, in their new order.
Press(c, d) ==
    /\ {c, d} \subseteq Drawn /\ seen.parent[c] = seen.parent[d]
    /\ LET at(x) == Rank(seen.parent, seen.name, seen.position, x) IN
         /\ at(d) = at(c) + 1
         /\ Call([kind |-> "reorder",
                  order |-> [x \in Siblings(seen.parent, seen.parent[c]) |->
                               IF x = c THEN at(d) ELSE IF x = d THEN at(c) ELSE at(x)]])

Delete(c) == c \in Drawn /\ Call([kind |-> "destroy", at |-> c])

\* From a recording's page, or for many at once.
File(r, c) == c \in Drawn \cup {Root} /\ Call([kind |-> "file", recording |-> r, at |-> c])

-----------------------------------------------------------------------------
(* The instance.  Whatever it refuses changes nothing. *)

\* _require_name_free
NameFree(p, n, but) == \A d \in Siblings(parent, p) \ but : name[d] # n

\* _next_position: after the last of them.
NextPosition(p) ==
    LET taken == {position[d] : d \in Siblings(parent, p)}
    IN  IF taken = {} THEN 0 ELSE 1 + CHOOSE n \in taken : \A m \in taken : m <= n

Highest(i) == (\A d \in Existing : d < i) /\ (i = 1 \/ i - 1 \in Existing)

Create(n, p) ==
    /\ p \in Existing \cup {Root} /\ NameFree(p, n, {})
    /\ \E i \in Ids :
         /\ Highest(i)
         /\ parent' = [d \in Existing \cup {i} |-> IF d = i THEN p ELSE parent[d]]
         /\ name' = [d \in Existing \cup {i} |-> IF d = i THEN n ELSE name[d]]
         /\ position' = [d \in Existing \cup {i} |-> IF d = i THEN NextPosition(p)
                                                      ELSE position[d]]
    /\ UNCHANGED filed

SetName(c, n) ==
    /\ c \in Existing /\ NameFree(parent[c], n, {c})
    /\ name' = [name EXCEPT ![c] = n]
    /\ UNCHANGED <<parent, position, filed>>

\* What a call may move under what: a variant that knows what the page knows.
MayMoveVariant(c, p) == p \in Existing \cup {Root} /\ p # c

MayMove(c, p) == p = Root \/ (p \in Existing /\ p # c /\ c \notin Above(parent, p))

Move(c, p) ==
    /\ c \in Existing /\ MayMove(c, p) /\ NameFree(p, name[c], {c})
    /\ parent' = [parent EXCEPT ![c] = p]
    /\ position' = [position EXCEPT ![c] = NextPosition(p)]
    /\ UNCHANGED <<name, filed>>

Reorder(order) ==
    /\ DOMAIN order \subseteq Existing
    /\ \A c, d \in DOMAIN order : parent[c] = parent[d]
    /\ position' = [d \in Existing |-> IF d \in DOMAIN order THEN order[d] ELSE position[d]]
    /\ UNCHANGED <<parent, name, filed>>

\* Everything inside goes with it, and what was filed there is filed nowhere.
Destroy(c) ==
    /\ c \in Existing
    /\ LET left == Existing \ Below(parent, c) IN
         /\ parent' = [d \in left |-> parent[d]]
         /\ name' = [d \in left |-> name[d]]
         /\ position' = [d \in left |-> position[d]]
         /\ filed' = [r \in Recordings |-> IF filed[r] \in left THEN filed[r] ELSE Root]

Assign(r, c) ==
    /\ c \in Existing \cup {Root}
    /\ filed' = [filed EXCEPT ![r] = c]
    /\ UNCHANGED tree

CarryOut(s) ==
    /\ \/ s.call.kind = "create"  /\ Create(s.call.name, s.call.to)
       \/ s.call.kind = "rename"  /\ SetName(s.call.at, s.call.name)
       \/ s.call.kind = "move"    /\ Move(s.call.at, s.call.to)
       \/ s.call.kind = "reorder" /\ Reorder(s.call.order)
       \/ s.call.kind = "destroy" /\ Destroy(s.call.at)
       \/ s.call.kind = "file"    /\ Assign(s.call.recording, s.call.at)
    /\ calls' = calls \ {s}
    /\ UNCHANGED <<seen, made>>

Refused(s) ==
    /\ calls' = calls \ {s}
    /\ UNCHANGED <<tree, filed, seen, made>>

-----------------------------------------------------------------------------
Init ==
    /\ \E D \in SUBSET Ids :
         /\ parent \in [D -> D \cup {Root}] /\ name \in [D -> Names]
         /\ position = [c \in D |-> c]
    /\ WellFormed(parent, name)
    /\ filed \in [Recordings -> Existing \cup {Root}]
    /\ seen = [parent |-> parent, name |-> name, position |-> position]
    /\ calls = {} /\ made = 0

Ask ==
    \/ \E n \in Names : \/ \E p \in Ids \cup {Root} : Add(n, p)
                         \/ \E c \in Ids : Rename(c, n)
    \/ \E c \in Ids : Delete(c) \/ \E d \in Ids \cup {Root} : Reparent(c, d) \/ Press(c, d)
    \/ \E r \in Recordings, c \in Ids \cup {Root} : File(r, c)

Next == Read \/ Ask \/ \E s \in calls : CarryOut(s) \/ Refused(s)

Spec == Init /\ [][Next]_vars

-----------------------------------------------------------------------------
(* Properties *)

\* Whatever pages ask for from whatever they last saw, every branch hangs from the root, siblings
\* have names of their own -- so their order on screen is one order, wherever positions tie -- and
\* a recording is filed under a category there is (categories.py:8, library/categories.ts:9).
TreeInv ==
    /\ WellFormed(parent, name) /\ WellFormed(seen.parent, seen.name)
    /\ filed \in [Recordings -> Existing \cup {Root}]
=============================================================================
