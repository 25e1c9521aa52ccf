--------------------------- MODULE MCSpeechPolicy ---------------------------
(***************************************************************************)
(* Transcripts of at most four characters, so of at most two words: the    *)
(* shortest in which a separator can be shared by two words and two lines, *)
(* and a break can lead, end or divide the text.  The byte limits are on   *)
(* both sides of what one to four characters of one to four bytes hold.    *)
(***************************************************************************)
EXTENDS SpeechPolicy

MCByteLimits == {1, 2, 3, 4, 6, 7, 10, 13, 15, 16}
=============================================================================
