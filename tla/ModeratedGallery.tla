------------------------- MODULE ModeratedGallery --------------------------
(***************************************************************************)
(* What the backend promises about the pictures of its meals, with no      *)
(* requests, no statements and no files: a picture is shown once it has    *)
(* been uploaded, distinct users may report it, it may disappear from view *)
(* only when enough of them have, it never comes back into view, an        *)
(* administrator may verify it, and once it is removed it is gone for      *)
(* good together with its reports.                                         *)
(***************************************************************************)
EXTENDS Integers, FiniteSets

CONSTANTS
    Image,      \* identifiers of pictures
    User,       \* clients that may report a picture
    MinReports  \* reports below which no picture may disappear from view

VARIABLES
    phase,      \* phase[i]: where picture i is in its life
    verified,   \* pictures an administrator has verified
    reporters   \* reporters[i]: the users whose report of i is recorded

galleryVars == <<phase, verified, reporters>>

Phase == {"unused", "shown", "hidden", "gone"}

Present(i) == phase[i] \in {"shown", "hidden"}

GalleryInit ==
    /\ phase = [i \in Image |-> "unused"]
    /\ verified = {}
    /\ reporters = [i \in Image |-> {}]

Publish(i) ==
    /\ phase[i] = "unused"
    /\ phase' = [phase EXCEPT ![i] = "shown"]
    /\ UNCHANGED <<verified, reporters>>

Report(i, u) ==
    /\ Present(i)
    /\ u \notin reporters[i]
    /\ reporters' = [reporters EXCEPT ![i] = @ \cup {u}]
    /\ UNCHANGED <<phase, verified>>

Hide(i) ==
    /\ phase[i] = "shown"
    /\ Cardinality(reporters[i]) >= MinReports
    /\ phase' = [phase EXCEPT ![i] = "hidden"]
    /\ UNCHANGED <<verified, reporters>>

Verify(i) ==
    /\ Present(i)
    /\ verified' = verified \cup {i}
    /\ UNCHANGED <<phase, reporters>>

Remove(i) ==
    /\ Present(i)
    /\ phase' = [phase EXCEPT ![i] = "gone"]
    /\ verified' = verified \ {i}
    /\ reporters' = [reporters EXCEPT ![i] = {}]

GalleryNext ==
    \E i \in Image :
        \/ Publish(i)
        \/ \E u \in User : Report(i, u)
        \/ Hide(i)
        \/ Verify(i)
        \/ Remove(i)

GallerySpec == GalleryInit /\ [][GalleryNext]_galleryVars
=============================================================================
