------------------------------ MODULE ProgramsMC ------------------------------
(***************************************************************************)
(* The programs around the panel, for TLC: releases on their way from      *)
(* GitHub to the channel, the updater that installs them, the attributes   *)
(* that pages edit, the clips that they export, the formulas of the rules, *)
(* the play that they drive, and the invitations.  They share no variable; *)
(* a behaviour is one of them, chosen at the start.                        *)
(***************************************************************************)
EXTENDS ReleaseMirror, Updater, AttributeEdits, GiftClips, Formulas, Activities,
        Invitations, TLC

CONSTANTS score, mood, red, blue, former, present

MCName == score :> 1 @@ mood :> Nobody
MCRule == [r \in Rules |-> 1]

(* The second release is signed by a new publisher; a policy may withdraw it, with its
   publisher or without. *)
MCSignerOf == <<former, present>>
MCRuleSets == {{<<former, 1>>, <<present, 2>>}, {<<former, 1>>}, {<<former, 1>>, <<present, 1>>}}

(* A show that gates two attributes, of which a second show resets one. *)
MCScoresOf == <<{red, blue}, {blue}>>
MCResultMode == <<"highest", "none">>
MCInitialScores == <<red :> 0 @@ blue :> 0, blue :> 1>>
MCMilestones ==
  << <<[score |-> red, comparison |-> "gte", threshold |-> 1, action |-> "announce"],
       [score |-> red, comparison |-> "gte", threshold |-> 2, action |-> "settle"],
       [score |-> blue, comparison |-> "lte", threshold |-> -1, action |-> "settle"]>>,
     <<>> >>
MCTimeout == <<[seconds |-> 1, action |-> "lock"], [seconds |-> 1, action |-> "reset"]>>
MCGiftRules ==
  <<[score |-> red, formula |-> 0 :> 1 @@ 1 :> 3 @@ 2 :> 3, cap |-> 2, limit |-> 1],
    [score |-> blue, formula |-> 0 :> 1 @@ -1 :> Skipped @@ 1 :> Skipped @@ 2 :> Skipped, cap |-> 2, limit |-> 1]>>
MCTimerRules == <<[score |-> blue, formula |-> 0 :> 2 @@ 1 :> -1 @@ 2 :> 0 @@ -1 :> Skipped]>>

VARIABLE part  \* the component of this behaviour

programVars == <<part, releaseVars, updateVars, editVars, clipVars, formulaVars, playVars, invitationVars>>

ProgramInit ==
  /\ part \in {"releases", "updater", "edits", "clips", "formulas", "play", 
               "quota", "pages"}
  /\ MirrorInit /\ UpdateInit /\ EditInit /\ ClipInit /\ FormulaInit /\ PlayInit
  /\ InvitationsInit
  /\ part # "updater" => metadata = NoPending
  /\ part # "clips" => cache = "none"
  /\ part # "formulas" => formula = Variable
  /\ part # "quota" => quota = 0

ProgramNext ==
  /\ UNCHANGED part
  /\ \/ part = "releases" /\ MirrorNext
        /\ UNCHANGED <<updateVars, editVars, clipVars, formulaVars, playVars, invitationVars>>
     \/ part = "updater" /\ UpdateNext
        /\ UNCHANGED <<releaseVars, editVars, clipVars, formulaVars, playVars, invitationVars>>
     \/ part = "edits" /\ EditNext
        /\ UNCHANGED <<releaseVars, updateVars, clipVars, formulaVars, playVars, invitationVars>>
     \/ part = "clips" /\ ClipNext
        /\ UNCHANGED <<releaseVars, updateVars, editVars, formulaVars, playVars, invitationVars>>
     \/ part = "formulas" /\ FormulaNext
        /\ UNCHANGED <<releaseVars, updateVars, editVars, clipVars, playVars, invitationVars>>
     \/ part = "play" /\ PlayNext
        /\ UNCHANGED <<releaseVars, updateVars, editVars, clipVars, formulaVars, invitationVars>>
     \/ part = "quota" /\ QuotaNext
        /\ UNCHANGED <<releaseVars, updateVars, editVars, clipVars, formulaVars,
                       playVars>>
     \/ part = "pages" /\ PagesNext
        /\ UNCHANGED <<releaseVars, updateVars, editVars, clipVars, formulaVars,
                       playVars>>

ProgramSpec == ProgramInit /\ [][ProgramNext]_programVars
==============================================================================
