------------------------------ MODULE Gallery ------------------------------
(***************************************************************************)
(* What the image gallery promises, without the lock, the disk and the     *)
(* requests that FileStore describes: an image is published once, may be   *)
(* named by the saved settings and icons only while it is live, and is     *)
(* retired, for good, only while nothing names it.                         *)
(***************************************************************************)

CONSTANTS Files,   \* the images the gallery can ever hold
          Slots,   \* the saved fields that can name an image
          None     \* a field that names no image

VARIABLES life,    \* life[f]: "new", "live" or "gone"
          used     \* used[s]: the image that field s names, or None

gvars == <<life, used>>

LiveOrNone == {f \in Files : life[f] = "live"} \cup {None}

Init ==
  /\ life = [f \in Files |-> "new"]
  /\ used = [s \in Slots |-> None]

Publish(f) ==
  /\ life[f] = "new"
  /\ life' = [life EXCEPT ![f] = "live"]
  /\ UNCHANGED used

\* One transaction may rewrite several fields, each to a live image or to
\* nothing; a field it does not touch keeps its value.
Save ==
  /\ \E new \in [Slots -> Files \cup {None}] :
       /\ \A s \in Slots : new[s] = used[s] \/ new[s] \in LiveOrNone
       /\ used' = new
  /\ UNCHANGED life

Retire(f) ==
  /\ life[f] = "live"
  /\ \A s \in Slots : used[s] # f
  /\ life' = [life EXCEPT ![f] = "gone"]
  /\ UNCHANGED used

Next ==
  \/ Save
  \/ \E f \in Files : Publish(f) \/ Retire(f)

Spec == Init /\ [][Next]_gvars
=============================================================================
