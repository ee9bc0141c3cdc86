----------------------------- MODULE JsonTree -----------------------------
(* What the mutable documents promise: every object is a list of named      *)
(* members in the order of their addition, every array a list of members.   *)
(* A member is a value of its own or refers to another container.  The      *)
(* name of a new member is read in the caller's memory until it is renamed. *)
EXTENDS Naturals, Sequences, SequencesExt, Yyjson

CONSTANTS Buffers, Texts, Plain     \* the caller's strings, their contents, other values

VARIABLES
    kids,      \* container -> sequence of <<name, member>>
    buffer,    \* what each of the caller's strings holds
    held       \* the members the caller holds that are in no container

treeVars == <<kids, buffer, held>>

Refer(c) == <<"refers to", c>>
Referred(item) == IF item[1] = "refers to" THEN {item[2]} ELSE {}
Strings == {Borrowed(b) : b \in Buffers} \cup {Copied(t) : t \in Texts}
Items(k) == {<<"str", s>> : s \in Strings} \cup Plain \cup {Refer(c) : c \in DOMAIN k}

IsNamed(m, t) == Text(m[1], buffer) = t
Named(members, t) == {i \in DOMAIN members : IsNamed(members[i], t)}
FirstNamed(members, t) == {members[i][2] : i \in {j \in Named(members, t) : \A h \in Named(members, t) : j <= h}}

\* What the steps do to the containers: k before, l after the step.
Kept(k, l, S) == \A c \in S : l[c] = k[c]

TreeInit == kids = << >> /\ held = {} /\ buffer \in [Buffers -> Texts]

\* A member is added at the end: a new one, perhaps an empty container, or one
\* that the caller held.
Add(k, l) == \E o \in DOMAIN k \cap DOMAIN l :
    /\ Len(l[o]) = Len(k[o]) + 1
    /\ LET new == Last(l[o])
       IN  /\ new[1] \in {Borrowed(b) : b \in Buffers} /\ new[2] \in Items(l)
           /\ Front(l[o]) = k[o]
           /\ DOMAIN l = DOMAIN k \cup Referred(new[2])
           /\ \A c \in DOMAIN l \ DOMAIN k : l[c] = << >>
           /\ Kept(k, l, DOMAIN k \ {o})
           /\ held' \in {held, held \ {new[2]}}

\* All members of that name go, the first one back to the caller; containers
\* that nobody can reach any more are forgotten.
Drop(k, l) == \E o \in DOMAIN l, t \in Texts :
    /\ DOMAIN l \subseteq DOMAIN k
    /\ Len(l[o]) < Len(k[o])
    /\ l[o] = SelectSeq(k[o], LAMBDA m : ~IsNamed(m, t))
    /\ Kept(k, l, DOMAIN l \ {o})
    /\ held' = held \cup FirstNamed(k[o], t)

\* All members of that name get the new one, kept by the document.
Rename(k, l) == \E o \in DOMAIN k, t, new \in Texts :
    /\ DOMAIN l = DOMAIN k
    /\ l[o] = [i \in DOMAIN k[o] |-> IF i \in Named(k[o], t) THEN <<Copied(new), k[o][i][2]>> ELSE k[o][i]]
    /\ Kept(k, l, DOMAIN l \ {o})
    /\ held' = held

\* A new container, alone or as the root of a copy, leaves the others alone.
Make(k, l) ==
    /\ DOMAIN k \subseteq DOMAIN l
    /\ Kept(k, l, DOMAIN k)
    /\ held \subseteq held' /\ held' \subseteq held \cup Items(l)

\* A document takes all its containers along and none of the others.
Free(k, l) ==
    /\ DOMAIN l \subseteq DOMAIN k
    /\ Kept(k, l, DOMAIN l)
    /\ held' \subseteq held

\* The caller writes into its own memory.
Overwrite(k, l) == k = l /\ held' = held /\ buffer' \in [Buffers -> Texts]

TreeNext ==
    \E k \in {kids}, l \in {kids'} :
        \/ UNCHANGED buffer /\ (Make(k, l) \/ Free(k, l) \/ Add(k, l) \/ Drop(k, l) \/ Rename(k, l))
        \/ Overwrite(k, l)

TreeSpec == TreeInit /\ [][TreeNext]_treeVars
============================================================================
