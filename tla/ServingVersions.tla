--------------------------- MODULE ServingVersions --------------------------
(***************************************************************************)
(* What the serving copy promises its readers: a set of complete,          *)
(* immutable product versions.  A version appears with all of its rows in  *)
(* one step, never changes while it is visible, and disappears in one step *)
(* only when at least Keep newer versions exist.  The publisher and the    *)
(* retention task, which take many requests for either, implement this.    *)
(***************************************************************************)
EXTENDS Naturals, FiniteSets

CONSTANTS Ids, Contents, Keep

VARIABLES
    versions,   \* the visible versions: records [id, time, content]
    issued      \* ids of every version that has ever been visible

Version == [id : Ids, time : Ids, content : Contents]

Newer(v) == {u \in versions : u.time > v.time}

Init ==
    /\ versions = {}
    /\ issued = {}

(* The new version is named from the next state, so that TLC need not try  *)
(* every element of Version.                                               *)
Publish ==
    \E v \in versions' :
        /\ v \in Version
        /\ v.id \notin issued
        /\ versions' = versions \cup {v}
        /\ issued' = issued \cup {v.id}

Retire(S) ==
    /\ S # {}
    /\ \A v \in S : Cardinality(Newer(v)) >= Keep
    /\ versions' = versions \ S
    /\ UNCHANGED issued

Next ==
    \/ Publish
    \/ \E S \in SUBSET versions : Retire(S)

Spec == Init /\ [][Next]_<<versions, issued>>

=============================================================================
