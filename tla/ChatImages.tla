----------------------------- MODULE ChatImages -----------------------------
(***************************************************************************)
(* Images in the learner's chat: the page uploads them, or keeps them      *)
(* itself when it cannot (chat-attachments.ts); the API stores a file and  *)
(* a row that names it (session.controller.ts,                             *)
(* workspace-persistence.service.ts) and answers with a signed link; the   *)
(* chat route fetches the stored ones before it asks a model               *)
(* (app/api/chat/route.ts).                                                *)
(***************************************************************************)
EXTENDS Naturals

CONSTANT Images

VARIABLES
    file,       \* each image's file on the API's disk
    rows,       \* the images session_chat_image has a row of
    image,      \* what the page makes of each image
    link,       \* the signed link the page has of each
    token,      \* the page's access token
    question    \* the question that is asked with the images

vars == <<file, rows, image, link, token, question>>

Init ==
    /\ file = [i \in Images |-> "none"] /\ rows = {}
    /\ image = [i \in Images |-> "new"]
    /\ link = [i \in Images |-> "none"]
    /\ token \in {"none", "good"} /\ question = "none"

----------------------------------------------------------------------------
(* Attaching an image *)

(* Too large, or not of a known type: an error message.  Without a token   *)
(* the page reads the image itself. *)
Attaches(i, accepted) ==
    /\ image[i] = "new"
    /\ image' = [image EXCEPT ![i] =
          IF ~accepted THEN "refused" ELSE IF token = "none" THEN "data" ELSE "uploading"]
    /\ UNCHANGED <<file, rows, link, token, question>>

FileWritten(i) ==
    /\ image[i] = "uploading" /\ token = "good" /\ file[i] = "none"
    /\ file' = [file EXCEPT ![i] = "there"]
    /\ UNCHANGED <<rows, image, link, token, question>>

RowInserted(i) ==
    /\ image[i] = "uploading" /\ file[i] = "there" /\ i \notin rows
    /\ rows' = rows \cup {i}
    /\ UNCHANGED <<file, image, link, token, question>>

UploadAnswered(i) ==
    /\ image[i] = "uploading" /\ i \in rows
    /\ image' = [image EXCEPT ![i] = "ref"]
    /\ link' = [link EXCEPT ![i] = "good"]
    /\ UNCHANGED <<file, rows, token, question>>

(* Refused, cut off at any step, not signed for want of a secret, or the   *)
(* answer is lost: the page reads the image itself. *)
UploadFails(i) ==
    /\ image[i] = "uploading"
    /\ image' = [image EXCEPT ![i] = "data"]
    /\ UNCHANGED <<file, rows, link, token, question>>

----------------------------------------------------------------------------
(* Time and accidents *)

LinkExpires(i) ==
    /\ link[i] = "good" /\ link' = [link EXCEPT ![i] = "expired"]
    /\ UNCHANGED <<file, rows, image, token, question>>

FileLost(i) ==
    /\ file[i] = "there" /\ file' = [file EXCEPT ![i] = "lost"]
    /\ UNCHANGED <<rows, image, link, token, question>>

TokenChanges ==
    /\ token' = IF token = "good" THEN "expired" ELSE "good"
    /\ UNCHANGED <<file, rows, image, link, question>>

----------------------------------------------------------------------------
(* Reading the images *)

(* verifyChatImageDownload, then the row and its file. *)
Viewed(i) == link[i] = "good" /\ i \in rows /\ file[i] = "there"

(* GET .../chat-images/:imageId/file, with the page's token. *)
Fetched(i) == token = "good" /\ i \in rows /\ file[i] = "there"

References == {i \in Images : image[i] = "ref"}

(* NEST_AUTH_REQUIRED; the route fetches the images, each in a request.    *)
Asks ==
    /\ question = "none" /\ \A i \in Images : image[i] # "uploading"
    /\ question' = IF References # {} /\ token = "none" THEN "refused" ELSE "fetching"
    /\ UNCHANGED <<file, rows, image, link, token>>

Resolved ==
    /\ question = "fetching"
    /\ question' = IF \A i \in References : Fetched(i) THEN "asked" ELSE "refused"
    /\ UNCHANGED <<file, rows, image, link, token>>

Answered ==
    /\ question \in {"asked", "refused"}
    /\ question' = "none"
    /\ UNCHANGED <<file, rows, image, link, token>>

Next ==
    \/ TokenChanges \/ Asks \/ Resolved \/ Answered
    \/ \E i \in Images :
          \/ \E accepted \in BOOLEAN : Attaches(i, accepted)
          \/ FileWritten(i) \/ RowInserted(i) \/ UploadAnswered(i) \/ UploadFails(i)
          \/ LinkExpires(i) \/ FileLost(i)

Spec == Init /\ [][Next]_vars

----------------------------------------------------------------------------
(* Properties *)

(* The images, their files and the question keep their types. *)
TypeOK ==
    /\ file \in [Images -> {"none", "there", "lost"}] /\ rows \subseteq Images
    /\ image \in [Images -> {"new", "refused", "uploading", "ref", "data"}]
    /\ link \in [Images -> {"none", "good", "expired"}]
    /\ token \in {"none", "good", "expired"}
    /\ question \in {"none", "fetching", "asked", "refused"}

(* However an upload is cut off, an image the chat refers to can be seen   *)
(* while its link holds and fetched while the token does, unless the disk  *)
(* lost it; and no row names a file that was never written. *)
ReferencesAreStored ==
    /\ \A i \in rows : file[i] # "none"
    /\ \A i \in References : file[i] = "there" =>
          (link[i] = "good" => Viewed(i)) /\ (token = "good" => Fetched(i))

----------------------------------------------------------------------------
(* The inductive invariant of the proofs. *)

(* A row names a file that was written, and the chat refers to images that *)
(* have a row. *)
RowsComeFirst == (\A i \in rows : file[i] # "none") /\ References \subseteq rows

IInv == TypeOK /\ RowsComeFirst

==============================================================================
