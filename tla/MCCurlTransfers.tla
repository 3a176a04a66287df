--------------------------- MODULE MCCurlTransfers ---------------------------
(* A download and an upload, or two downloads.  The completion callback of   *)
(* the upload may wait for the first download, as CompleteTransfer does for  *)
(* the metadata page of its chunk.                                           *)
EXTENDS CurlTransfers, TLC

CONSTANTS d1, d2, u1

MCDownloads == {d1, d2}
MCOneDownload == {d1}
MCUploads == {u1}
MCNone == {}
MCOutcomes == {"success", "transient", "refused"}
MCCertificate == {"success", "transient", "certificate"}
MCNoWait == [r \in Requests |-> NoRequest]
MCUploadWaits == [r \in Requests |-> IF r \in Uploads THEN d1 ELSE NoRequest]
=============================================================================
