-------------------------------- MODULE Film ---------------------------------
(***************************************************************************)
(* What a recording file promises whoever plays it: from its creation on   *)
(* the frames the recorder hands over are appended one by one, the first   *)
(* of them a key frame, and once finished the film never changes.          *)
(***************************************************************************)
EXTENDS Sequences

CONSTANTS
  Frames,    \* what a recorder can hand over
  KeyFrames  \* those a film can start with

VARIABLES
  film,  \* the frames of the current film
  made   \* none, open or done

FilmInit == film = <<>> /\ made = "none"

Create ==
  /\ made # "open"
  /\ film' = <<>> /\ made' = "open"

Extend(f) ==
  /\ made = "open"
  /\ film = <<>> => f \in KeyFrames
  /\ film' = Append(film, f)
  /\ UNCHANGED made

Finish ==
  /\ made = "open" /\ film # <<>>
  /\ made' = "done"
  /\ UNCHANGED film

FilmNext == Create \/ (\E f \in Frames : Extend(f)) \/ Finish
==============================================================================
