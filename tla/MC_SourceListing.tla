-------------------------- MODULE MC_SourceListing --------------------------
(* Listings of up to seven lines of two CADRs: long enough for the window *)
(* to start after line 1 (noffset 3) and to be cut at maxLines (4).        *)
EXTENDS SourceListing

ListingFiles == UNION {[1 .. n -> Tags] : n \in 0 .. 7}
=============================================================================
