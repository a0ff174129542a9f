--------------------------- MODULE MCFileTransfer ---------------------------
(* FileTransfer of three chunks over a link that is lost twice.             *)
EXTENDS FileTransfer
=============================================================================
