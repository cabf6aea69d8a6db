------------------------ MODULE MCCollaborationTyped ------------------------
(* One device, a file of two letters: the editor alone with its document. *)
EXTENDS Collaboration

TwoLetters == <<1, 2>>
=============================================================================
