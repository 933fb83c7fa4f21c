---------------------------- MODULE ReleaseFeed ----------------------------
(***************************************************************************)
(* What the releases of the repository promise to whoever installs them:   *)
(* they are complete, stay as they are once they are out, and what is      *)
(* installed is one of them.                                               *)
(***************************************************************************)
EXTENDS Integers, Sequences

CONSTANTS
  Builds,   \* everything that could be released: records with assets
  Assets,   \* what a release consists of
  Nothing

VARIABLES
  published, \* in the order they came out
  installed  \* on a user's machine

feed == <<published, installed>>

Released == {published[n] : n \in DOMAIN published}

Init == published = <<>> /\ installed = Nothing

Publish ==
  \E build \in Builds :
    /\ build.assets = Assets
    /\ \A other \in Released : other.tag # build.tag
    /\ published' = Append(published, build)
    /\ UNCHANGED installed

Install == installed' \in Released /\ UNCHANGED published

Next == Publish \/ Install

Spec == Init /\ [][Next]_feed
=============================================================================
