-------------------------------- MODULE MCDana -------------------------------
(* The instance of DanaSession and CloudUpload that TLC checks.  The two   *)
(* share no state: a behaviour is one of either.                           *)
EXTENDS DanaSession, CloudUpload, TLC

CONSTANTS s1, s2, g1, g2, a, b

MCSessions == {s1, s2}
MCStrays == {g1, g2}
MCFilms == {a, b}

(* One client asks for everything, the other only plays recordings.        *)
MCWants == (s1 :> Kinds) @@ (s2 :> {"playback"})

VARIABLE part

MCInit == part \in {"sessions", "cloud"} /\ SessionInit /\ CloudInit

MCNext ==
  /\ UNCHANGED part
  /\ \/ part = "sessions" /\ SessionNext /\ UNCHANGED cloudVars
     \/ part = "cloud" /\ CloudNext /\ UNCHANGED danaVars

MCSpec ==
  MCInit /\ [][MCNext]_<<part, danaVars, cloudVars>>
         /\ SessionFairness /\ CloudFairness

(* Joins return: a stopped thread ends, so that neither a command, nor an  *)
(* abort, nor a change of the upload waits for ever.                       *)
JoinsReturn == SessionsReturn /\ CallbackReturns
==============================================================================
