--------------------------- MODULE SourceRevisions --------------------------
(***************************************************************************)
(* What ingestion promises the models that read the validated tables:      *)
(* source revisions are recorded once and never change, and a bundle is    *)
(* declared covered only when every revision of it has been recorded.      *)
(***************************************************************************)
EXTENDS Naturals, FiniteSets

CONSTANTS
    Bundles,     \* pipeline runs: a date range generated at a given time
    Contents     \* Contents[b]: the <<identity, payload>> pairs bundle b brings

VARIABLES
    revisions,   \* recorded <<identity, payload>> pairs
    declared     \* bundles declared covered

Init == revisions = {} /\ declared = {}

(* The recorded revisions are named from the next state, as in             *)
(* ServingVersions.                                                        *)
Record ==
    /\ revisions \subseteq revisions'
    /\ \A r \in revisions' \ revisions :
          /\ \E b \in Bundles : r \in Contents[b]
          /\ \A s \in revisions' : s[1] = r[1] => s = r
    /\ UNCHANGED declared

Declare ==
    /\ \E b \in Bundles :
          /\ Contents[b] \subseteq revisions
          /\ declared' = declared \cup {b}
    /\ UNCHANGED revisions

Next == Record \/ Declare

Spec == Init /\ [][Next]_<<revisions, declared>>

=============================================================================
