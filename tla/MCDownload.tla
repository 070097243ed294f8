----------------------------- MODULE MCDownload -----------------------------
(* Small instances of the download for TLC.                                *)
EXTENDS DownloadProps, TLC

=============================================================================
