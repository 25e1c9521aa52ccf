--------------------------- MODULE MCVoiceSession ---------------------------
(***************************************************************************)
(* Two processes, two attempts in each stage, and one transition less than *)
(* the longest call would take, so that both budgets can end a call.       *)
(***************************************************************************)
EXTENDS VoiceSession, TLC

CONSTANTS h1, h2

MCMenuOf == "1" :> "sales" @@ "2" :> "support"

MCSpoken == {[text |-> "admissible", score |-> NoScore],
             [text |-> "admissible", score |-> 40],
             [text |-> "admissible", score |-> MalformedScore],
             [text |-> "silence",    score |-> NoScore]}
=============================================================================
