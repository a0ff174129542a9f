------------------------------ MODULE Delivery ------------------------------
(***************************************************************************)
(* What a file transfer promises its two users, whatever the network does. *)
(* The download is asked for, accepted, filled chunk by chunk and saved    *)
(* when it is whole.  The upload is done only after the file was saved.    *)
(* Either user may stop at any time before that; what has ended stays so.  *)
(***************************************************************************)
EXTENDS Integers

CONSTANT Size

VARIABLES
  upload,    \* "open", "done" or "stopped"
  download,  \* "asked", "open", "done" or "stopped"
  stored,    \* chunks written by the download
  whole      \* they are the chunks that were offered

Init == upload = "open" /\ download = "asked" /\ stored = 0 /\ whole = TRUE

Accept ==
  /\ download = "asked"
  /\ download' = "open"
  /\ UNCHANGED <<upload, stored, whole>>

\* A chunk of a file that has been changed meanwhile spoils the download.
Store ==
  /\ download = "open"
  /\ stored < Size
  /\ stored' = stored + 1
  /\ whole' \in {whole, FALSE}
  /\ UNCHANGED <<upload, download>>

Save ==
  /\ download = "open"
  /\ stored = Size
  /\ whole
  /\ download' = "done"
  /\ UNCHANGED <<upload, stored, whole>>

Confirm ==
  /\ upload = "open"
  /\ download = "done"
  /\ upload' = "done"
  /\ UNCHANGED <<download, stored, whole>>

StopUpload   == upload = "open" /\ upload' = "stopped" /\ UNCHANGED <<download, stored, whole>>
StopDownload ==
  /\ download \in {"asked", "open"}
  /\ download' = "stopped"
  /\ UNCHANGED <<upload, stored, whole>>

Next == Accept \/ Store \/ Save \/ Confirm \/ StopUpload \/ StopDownload

vars == <<upload, download, stored, whole>>

Spec == Init /\ [][Next]_vars

=============================================================================
